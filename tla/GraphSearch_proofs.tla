-------------------------- MODULE GraphSearch_proofs --------------------------
(***************************************************************************)
(* For every graph, every order of its edges and all caps: what the        *)
(* searches list are simple directed cycles, no set of nodes twice; the    *)
(* two passes of Kosaraju find the strongly connected components; and the  *)
(* searches list as much as they promise.                                  *)
(***************************************************************************)
EXTENDS GraphSearch, FiniteSetTheorems, WellFoundedInduction, TLAPS

-----------------------------------------------------------------------------
(* The inductive invariant: the open calls of a forward search are a       *)
(* simple path, each call at a node from which its remaining edges leave.  *)

Calls == [node : Nodes, left : SUBSET edges]

Outgoing(s) == \A i \in DOMAIN s : \A e \in s[i].left : Source(e) = s[i].node
Connected(s) == \A i \in 1 .. Len(s) - 1 : Linked(s[i].node, s[i + 1].node)
Simple(s) == \A i, j \in DOMAIN s : s[i].node = s[j].node => i = j
Within(s, S) == \A i \in DOMAIN s : s[i].node \in S

IInv ==
  /\ CyclesSound
  /\ phase # "collect" => Outgoing(stack) /\ Connected(stack) /\ Simple(stack)
  /\ Sweeping => Within(stack, seen)

-----------------------------------------------------------------------------
(* Stacks *)

LEMMA EdgeEnds ==
  ASSUME Typed, NEW e \in edges
  PROVE  Source(e) \in Nodes /\ Target(e) \in Nodes /\ Far(e) \in Nodes
BY DEF Typed, Source, Target, Far

LEMMA TopCall ==
  ASSUME Typed, stack # <<>>
  PROVE  /\ Len(stack) \in Nat \ {0} /\ DOMAIN stack = 1 .. Len(stack)
         /\ Top = stack[Len(stack)] /\ Top \in Calls
         /\ Top.node \in Nodes /\ Top.left \subseteq edges
<1>1. stack \in Seq(Calls)
  BY DEF Typed, Calls
<1>2. Len(stack) \in Nat \ {0} /\ DOMAIN stack = 1 .. Len(stack)
  BY <1>1
<1>3. Top \in Calls
  BY <1>1, <1>2 DEF Top
<1>. QED BY <1>2, <1>3 DEF Top, Calls

LEMMA CallTyped ==
  ASSUME Typed, NEW n \in Nodes
  PROVE  Call(n) \in Calls /\ Call(n).node = n
         /\ (phase # "collect" => \A e \in Call(n).left : Source(e) = n)
BY DEF Call, Calls, Leaving

(* Taking an edge changes the loop on top and nothing else. *)
LEMMA VisitedStack ==
  ASSUME Typed, stack # <<>>, NEW e
  PROVE  /\ Visited(e) \in Seq(Calls) /\ Len(Visited(e)) = Len(stack)
         /\ DOMAIN Visited(e) = DOMAIN stack
         /\ \A i \in DOMAIN stack :
              /\ Visited(e)[i].node = stack[i].node
              /\ Visited(e)[i].left \subseteq stack[i].left
<1>1. stack \in Seq(Calls) /\ Len(stack) \in 1 .. Len(stack) /\ Len(stack) \in Nat
  BY TopCall DEF Typed, Calls
<1>. DEFINE top == [Top EXCEPT !.left = @ \ {e}]
<1>2. top \in Calls /\ top.node = Top.node /\ top.left \subseteq Top.left
  BY TopCall DEF Calls
<1>3. Visited(e) = [stack EXCEPT ![Len(stack)] = top]
  BY DEF Visited, Top
<1>. HIDE DEF top
<1>4. Visited(e) \in Seq(Calls) /\ Len(Visited(e)) = Len(stack)
      /\ DOMAIN Visited(e) = DOMAIN stack
  BY <1>1, <1>2, <1>3
<1>5. ASSUME NEW i \in DOMAIN stack
      PROVE  Visited(e)[i].node = stack[i].node /\ Visited(e)[i].left \subseteq stack[i].left
  BY <1>1, <1>2, <1>3 DEF Top
<1>. QED BY <1>4, <1>5

LEMMA VisitedWalk ==
  ASSUME Typed, stack # <<>>, NEW e
  PROVE  /\ Outgoing(stack) => Outgoing(Visited(e))
         /\ Connected(stack) => Connected(Visited(e))
         /\ Simple(stack) => Simple(Visited(e))
         /\ \A S : Within(stack, S) => Within(Visited(e), S)
<1>1. Len(stack) \in Nat /\ DOMAIN stack = 1 .. Len(stack)
  BY TopCall
<1>2. Outgoing(stack) => Outgoing(Visited(e))
  BY VisitedStack DEF Outgoing
<1>3. Connected(stack) => Connected(Visited(e))
  BY <1>1, VisitedStack DEF Connected
<1>4. Simple(stack) => Simple(Visited(e))
  BY VisitedStack DEF Simple
<1>5. \A S : Within(stack, S) => Within(Visited(e), S)
  BY VisitedStack DEF Within
<1>. QED BY <1>2, <1>3, <1>4, <1>5

(* A call at a new node, along an edge of the loop on top. *)
LEMMA DeeperWalk ==
  ASSUME Typed, stack # <<>>, NEW e \in Top.left, phase # "collect",
         Outgoing(stack), Connected(stack), Simple(stack),
         \A i \in DOMAIN stack : stack[i].node # Target(e)
  PROVE  LET deeper == Append(Visited(e), Call(Target(e))) IN
         Outgoing(deeper) /\ Connected(deeper) /\ Simple(deeper)
<1>. DEFINE s == Visited(e)
            c == Call(Target(e))
            deeper == Append(s, c)
            n == Len(stack)
<1>1. /\ n \in Nat \ {0} /\ DOMAIN stack = 1 .. n
      /\ Top = stack[n] /\ e \in edges
  BY TopCall
<1>2. c \in Calls /\ c.node = Target(e) /\ \A f \in c.left : Source(f) = c.node
  BY <1>1, EdgeEnds, CallTyped
<1>3. /\ s \in Seq(Calls) /\ Len(s) = n /\ DOMAIN s = 1 .. n
      /\ \A i \in 1 .. n : s[i].node = stack[i].node
      /\ Outgoing(s) /\ Connected(s) /\ Simple(s)
  BY <1>1, VisitedStack, VisitedWalk
<1>4. Source(e) = s[n].node
  BY <1>1, <1>3 DEF Outgoing
<1>5. Linked(s[n].node, c.node)
  BY <1>1, <1>2, <1>4 DEF Linked
<1>6. \A i \in 1 .. n : s[i].node # c.node
  BY <1>1, <1>2, <1>3
<1>. HIDE DEF s, c, n
<1>7. /\ Len(deeper) = n + 1 /\ DOMAIN deeper = 1 .. n + 1
      /\ \A i \in 1 .. n : deeper[i] = s[i]
      /\ deeper[n + 1] = c
  BY <1>1, <1>2, <1>3
<1>8. Outgoing(deeper)
  BY <1>1, <1>2, <1>3, <1>7 DEF Outgoing
<1>9. Connected(deeper)
  <2>. SUFFICES ASSUME NEW i \in 1 .. n
                PROVE  Linked(deeper[i].node, deeper[i + 1].node)
    BY <1>1, <1>7 DEF Connected
  <2>1. CASE i = n
    BY <2>1, <1>1, <1>5, <1>7
  <2>2. CASE i # n
    BY <2>2, <1>1, <1>3, <1>7 DEF Connected
  <2>. QED BY <2>1, <2>2
<1>10. Simple(deeper)
  <2>. SUFFICES ASSUME NEW i \in 1 .. n + 1, NEW j \in 1 .. n + 1,
                       deeper[i].node = deeper[j].node
                PROVE  i = j
    BY <1>7 DEF Simple
  <2>1. CASE i = n + 1 \/ j = n + 1
    BY <2>1, <1>1, <1>6, <1>7
  <2>2. CASE i \in 1 .. n /\ j \in 1 .. n
    BY <2>2, <1>3, <1>7 DEF Simple
  <2>. QED BY <2>1, <2>2, <1>1
<1>. QED BY <1>8, <1>9, <1>10 DEF s, c

LEMMA PoppedStack ==
  ASSUME Typed, stack # <<>>
  PROVE  LET popped == SubSeq(stack, 1, Len(stack) - 1) IN
         /\ popped \in Seq(Calls)
         /\ Outgoing(stack) => Outgoing(popped)
         /\ Connected(stack) => Connected(popped)
         /\ Simple(stack) => Simple(popped)
         /\ \A S : Within(stack, S) => Within(popped, S)
<1>. DEFINE n == Len(stack)
            popped == SubSeq(stack, 1, n - 1)
<1>1. n \in Nat \ {0} /\ DOMAIN stack = 1 .. n /\ stack \in Seq(Calls)
  BY TopCall DEF Typed, Calls
<1>2. /\ popped \in Seq(Calls) /\ Len(popped) = n - 1 /\ DOMAIN popped = 1 .. n - 1
      /\ \A i \in 1 .. n - 1 : popped[i] = stack[i]
  BY <1>1
<1>. HIDE DEF popped, n
<1>3. Outgoing(stack) => Outgoing(popped)
  BY <1>1, <1>2 DEF Outgoing
<1>4. Connected(stack) => Connected(popped)
  BY <1>1, <1>2 DEF Connected, n
<1>5. Simple(stack) => Simple(popped)
  BY <1>1, <1>2 DEF Simple
<1>6. \A S : Within(stack, S) => Within(popped, S)
  BY <1>1, <1>2 DEF Within
<1>. QED BY <1>2, <1>3, <1>4, <1>5, <1>6 DEF popped, n

-----------------------------------------------------------------------------
(* Cycles *)

LEMMA PathNodes ==
  ASSUME Typed
  PROVE  /\ Path \in Seq(Nodes) /\ Len(Path) = Len(stack) /\ Len(stack) \in Nat
         /\ DOMAIN Path = DOMAIN stack /\ DOMAIN stack = 1 .. Len(stack)
         /\ \A i \in DOMAIN stack : Path[i] = stack[i].node
<1>1. stack \in Seq(Calls) /\ Len(stack) \in Nat /\ DOMAIN stack = 1 .. Len(stack)
  BY DEF Typed, Calls
<1>2. \A i \in DOMAIN stack : stack[i] \in Calls
  BY <1>1
<1>3. \A i \in DOMAIN stack : stack[i].node \in Nodes
  BY <1>2 DEF Calls
<1>4. Path \in [1 .. Len(stack) -> Nodes]
  BY <1>1, <1>3 DEF Path
<1>5. Path \in Seq(Nodes) /\ Len(Path) = Len(stack)
  BY <1>1, <1>4
<1>. QED BY <1>1, <1>5 DEF Path

(* An edge from the top back to the i-th call closes the path from there. *)
LEMMA TailIsCycle ==
  ASSUME Typed, stack # <<>>, NEW e \in Top.left,
         Outgoing(stack), Connected(stack), Simple(stack),
         NEW i \in DOMAIN stack, stack[i].node = Target(e),
         NEW c \in Seq(Nodes), Len(c) = Len(stack) - i + 1,
         \A j \in 1 .. Len(c) : c[j] = stack[i + j - 1].node
  PROVE  IsCycle(c)
<1>. DEFINE n == Len(stack)
<1>1. /\ n \in Nat \ {0} /\ DOMAIN stack = 1 .. n
      /\ Top = stack[n] /\ e \in edges /\ n = Len(stack) /\ n \in DOMAIN stack
  BY TopCall
<1>2. /\ Len(c) = n - i + 1 /\ Len(c) \in Nat \ {0} /\ DOMAIN c = 1 .. Len(c)
      /\ i \in 1 .. n
  BY <1>1
<1>. HIDE DEF n
<1>3. c # <<>>
  BY <1>2
<1>4. Distinct(c)
  <2>. SUFFICES ASSUME NEW j \in 1 .. Len(c), NEW k \in 1 .. Len(c), c[j] = c[k]
                PROVE  j = k
    BY <1>2 DEF Distinct
  <2>1. i + j - 1 \in 1 .. n /\ i + k - 1 \in 1 .. n
    BY <1>1, <1>2
  <2>2. i + j - 1 = i + k - 1
    BY <2>1, <1>1 DEF Simple
  <2>. QED BY <2>2, <1>1, <1>2
<1>5. ASSUME NEW j \in 1 .. Len(c) - 1
      PROVE  Linked(c[j], c[j + 1])
  <2>1. /\ j \in 1 .. Len(c) /\ j + 1 \in 1 .. Len(c)
        /\ i + j - 1 \in 1 .. n - 1 /\ i + (j + 1) - 1 = (i + j - 1) + 1
    BY <1>1, <1>2
  <2>2. c[j] = stack[i + j - 1].node /\ c[j + 1] = stack[(i + j - 1) + 1].node
    BY <2>1
  <2>3. Linked(stack[i + j - 1].node, stack[(i + j - 1) + 1].node)
    BY <2>1, <1>1 DEF Connected
  <2>. QED BY <2>2, <2>3
<1>6. Linked(c[Len(c)], c[1])
  <2>1. i + Len(c) - 1 = n /\ i + 1 - 1 = i /\ Len(c) \in 1 .. Len(c) /\ 1 \in 1 .. Len(c)
    BY <1>1, <1>2
  <2>2. c[Len(c)] = stack[i + Len(c) - 1].node /\ c[1] = stack[i + 1 - 1].node
    BY <2>1
  <2>3. c[Len(c)] = stack[n].node /\ c[1] = stack[i].node
    BY <2>1, <2>2
  <2>4. Source(e) = stack[n].node
    <3>1. e \in stack[n].left
      BY <1>1
    <3>. QED BY <3>1, <1>1 DEF Outgoing
  <2>. QED BY <2>3, <2>4, <1>1 DEF Linked
<1>. QED BY <1>3, <1>4, <1>5, <1>6 DEF IsCycle

LEMMA LoopIsCycle ==
  ASSUME Typed, stack # <<>>, NEW e \in Top.left,
         Outgoing(stack), Connected(stack), Simple(stack),
         NEW i \in DOMAIN stack, Path[i] = Target(e)
  PROVE  Loop(i) \in Seq(Nodes) /\ IsCycle(Loop(i))
<1>. DEFINE c == Loop(i)
            n == Len(stack)
<1>1. /\ Path \in Seq(Nodes) /\ Len(Path) = n /\ n \in Nat /\ i \in 1 .. n
      /\ \A j \in 1 .. n : Path[j] = stack[j].node
  BY PathNodes
<1>2. /\ c \in Seq(Nodes) /\ Len(c) = n - i + 1
      /\ \A j \in 1 .. n - i + 1 : c[j] = Path[i + j - 1]
  BY <1>1 DEF Loop
<1>3. \A j \in 1 .. Len(c) : c[j] = stack[i + j - 1].node
  <2>. TAKE j \in 1 .. Len(c)
  <2>1. i + j - 1 \in 1 .. n /\ j \in 1 .. n - i + 1
    BY <1>1, <1>2
  <2>. QED BY <2>1, <1>1, <1>2
<1>4. stack[i].node = Target(e)
  BY <1>1
<1>. HIDE DEF c
<1>5. IsCycle(c)
  BY <1>2, <1>3, <1>4, TailIsCycle
<1>. QED BY <1>2, <1>5 DEF c

LEMMA PathIsCycle ==
  ASSUME Typed, stack # <<>>, NEW e \in Top.left,
         Outgoing(stack), Connected(stack), Simple(stack), Path[1] = Target(e)
  PROVE  Path \in Seq(Nodes) /\ IsCycle(Path)
<1>1. /\ Path \in Seq(Nodes) /\ Len(Path) = Len(stack) /\ Len(stack) \in Nat \ {0}
      /\ DOMAIN stack = 1 .. Len(stack)
      /\ \A j \in 1 .. Len(stack) : Path[j] = stack[j].node
  BY PathNodes, TopCall
<1>2. 1 \in DOMAIN stack /\ stack[1].node = Target(e) /\ Len(Path) = Len(stack) - 1 + 1
  BY <1>1
<1>3. \A j \in 1 .. Len(Path) : Path[j] = stack[1 + j - 1].node
  BY <1>1
<1>. QED BY <1>1, <1>2, <1>3, TailIsCycle

(* What CyclesSound says of the list. *)
SoundList(list) ==
  /\ list \in Seq(Seq(Nodes))
  /\ \A i \in DOMAIN list : IsCycle(list[i])
  /\ \A i, j \in DOMAIN list : NodesOf(list[i]) = NodesOf(list[j]) => i = j

LEMMA WithCycleSound ==
  ASSUME SoundList(cycles), NEW c \in Seq(Nodes), IsCycle(c)
  PROVE  SoundList(WithCycle(c))
<1>. DEFINE n == Len(cycles)
            list == Append(cycles, c)
<1>1. n \in Nat /\ DOMAIN cycles = 1 .. n
  BY DEF SoundList
<1>2. CASE Listed(c)
  BY <1>2 DEF WithCycle
<1>3. CASE ~Listed(c)
  <2>1. /\ list \in Seq(Seq(Nodes)) /\ DOMAIN list = 1 .. n + 1
        /\ \A i \in 1 .. n : list[i] = cycles[i]
        /\ list[n + 1] = c
    BY <1>1 DEF SoundList
  <2>. HIDE DEF list, n
  <2>5. \A i \in 1 .. n + 1 : i \in 1 .. n \/ i = n + 1
    BY <1>1
  <2>2. \A i \in DOMAIN list : IsCycle(list[i])
    BY <2>1, <2>5, <1>1 DEF SoundList
  <2>3. \A i \in 1 .. n : NodesOf(list[i]) # NodesOf(list[n + 1])
    BY <2>1, <1>1, <1>3 DEF Listed
  <2>4. \A i, j \in 1 .. n : NodesOf(list[i]) = NodesOf(list[j]) => i = j
    BY <2>1, <1>1 DEF SoundList
  <2>6. \A i, j \in DOMAIN list : NodesOf(list[i]) = NodesOf(list[j]) => i = j
    BY <2>1, <2>3, <2>4, <2>5
  <2>7. WithCycle(c) = list
    BY <1>3 DEF WithCycle, list
  <2>. QED BY <2>1, <2>2, <2>6, <2>7 DEF SoundList
<1>. QED BY <1>2, <1>3

-----------------------------------------------------------------------------
(* The invariant *)

THEOREM InitInv == Init => IInv
<1>. SUFFICES ASSUME Init PROVE IInv
  OBVIOUS
<1>1. /\ stack = <<>> /\ cycles = <<>> /\ finished = <<>> /\ DOMAIN stack = {}
      /\ DOMAIN cycles = {} /\ Len(stack) = 0
  BY DEF Init
<1>2. Typed
  <2>1. edges \subseteq Nodes \X Nodes \X {"calls", "writes"}
    BY GraphsAssumption DEF Init
  <2>2. /\ stack \in Seq([node : Nodes, left : SUBSET edges])
        /\ finished \in Seq(Nodes) /\ cycles \in Seq(Seq(Nodes))
    BY <1>1
  <2>. QED BY <2>1, <2>2 DEF Init, Typed, Phases
<1>3. CyclesSound
  BY <1>1, <1>2 DEF CyclesSound
<1>4. Outgoing(stack) /\ Connected(stack) /\ Simple(stack) /\ \A S : Within(stack, S)
  BY <1>1 DEF Outgoing, Connected, Simple, Within
<1>. QED BY <1>3, <1>4 DEF IInv

(* The parts of the invariant that a step on the stack must establish. *)
Walks(s) == Outgoing(s) /\ Connected(s) /\ Simple(s)

LEMMA EmptyWalk ==
  ASSUME NEW s, s = <<>>
  PROVE  Walks(s) /\ \A S : Within(s, S)
<1>1. DOMAIN s = {} /\ Len(s) = 0
  OBVIOUS
<1>. QED BY <1>1 DEF Walks, Outgoing, Connected, Simple, Within

LEMMA FirstCall ==
  ASSUME Typed, NEW n \in Nodes
  PROVE  /\ <<Call(n)>> \in Seq(Calls)
         /\ phase # "collect" => Walks(<<Call(n)>>)
         /\ \A S : n \in S => Within(<<Call(n)>>, S)
<1>. DEFINE c == Call(n)
            s == <<c>>
<1>1. c \in Calls /\ c.node = n /\ (phase # "collect" => \A e \in c.left : Source(e) = n)
  BY CallTyped
<1>. HIDE DEF c
<1>2. s \in Seq(Calls) /\ DOMAIN s = {1} /\ Len(s) = 1 /\ s[1] = c
  BY <1>1
<1>. HIDE DEF s
<1>3. Connected(s) /\ Simple(s) /\ (phase # "collect" => Outgoing(s))
  BY <1>1, <1>2 DEF Connected, Simple, Outgoing
<1>4. \A S : n \in S => Within(s, S)
  BY <1>1, <1>2 DEF Within
<1>. QED BY <1>2, <1>3, <1>4 DEF Walks, s, c

LEMMA SoundState ==
  ASSUME IInv
  PROVE  Typed /\ SoundList(cycles)
<1>1. CyclesSound /\ Typed
  BY DEF IInv, CyclesSound
<1>2. cycles \in Seq(Seq(Nodes))
  BY <1>1 DEF Typed
<1>. QED BY <1>1, <1>2 DEF CyclesSound, SoundList

(* What a step has to establish. *)
LEMMA NewState ==
  ASSUME edges' = edges, Typed', SoundList(cycles'),
         phase' # "collect" => Walks(stack'),
         Sweeping' => Within(stack', seen')
  PROVE  IInv'
<1>1. \A n, m : Linked(n, m)' <=> Linked(n, m)
  BY DEF Linked
<1>2. \A i \in DOMAIN cycles' : IsCycle(cycles[i])'
  <2>. TAKE i \in DOMAIN cycles'
  <2>1. IsCycle(cycles'[i])
    BY DEF SoundList
  <2>. QED BY <2>1 DEF IsCycle, Distinct, Linked
<1>3. CyclesSound'
  BY <1>2 DEF CyclesSound, SoundList, NodesOf
<1>4. phase' # "collect" => (Outgoing(stack) /\ Connected(stack) /\ Simple(stack))'
  BY DEF Walks, Outgoing, Connected, Simple, Linked
<1>5. Sweeping' => Within(stack, seen)'
  BY DEF Within
<1>. QED BY <1>3, <1>4, <1>5 DEF IInv

LEMMA BeginInv ==
  ASSUME IInv, NEW n \in Nodes, Begin(n)
  PROVE  IInv'
<1>1. Typed /\ SoundList(cycles) /\ edges' = edges /\ phase' = phase /\ cycles' = cycles
      /\ stack' = <<Call(n)>> /\ seen' = seen \cup {n}
  BY SoundState DEF IInv, Begin
<1>2. components' \subseteq SUBSET Nodes
  BY <1>1 DEF Begin, Typed
<1>3. stack' \in Seq(Calls) /\ (phase # "collect" => Walks(stack')) /\ Within(stack', seen')
  BY <1>1, FirstCall
<1>4. Typed'
  BY <1>1, <1>2, <1>3 DEF Begin, Typed, Calls
<1>. QED BY <1>1, <1>3, <1>4, NewState

LEMMA DescendInv ==
  ASSUME IInv, NEW e \in edges, Descend(e)
  PROVE  IInv'
<1>. DEFINE deeper == Append(Visited(e), Call(Far(e)))
<1>1. /\ Typed /\ SoundList(cycles) /\ edges' = edges /\ phase' = phase /\ cycles' = cycles
      /\ stack # <<>> /\ e \in Top.left /\ stack' = deeper
      /\ Far(e) \notin seen /\ seen' = seen \cup {Far(e)} /\ Sweeping
      /\ Within(stack, seen)
      /\ phase # "collect" => Outgoing(stack) /\ Connected(stack) /\ Simple(stack)
  BY SoundState DEF IInv, Descend
<1>2. Far(e) \in Nodes /\ Call(Far(e)) \in Calls /\ Call(Far(e)).node = Far(e)
  BY <1>1, EdgeEnds, CallTyped
<1>3. /\ Visited(e) \in Seq(Calls) /\ Within(Visited(e), seen)
  BY <1>1, VisitedStack, VisitedWalk
<1>4. deeper \in Seq(Calls)
  BY <1>2, <1>3
<1>5. Within(deeper, seen')
  <2>. DEFINE s == Visited(e)  c == Call(Far(e))
  <2>1. s \in Seq(Calls) /\ c \in Calls /\ Within(s, seen) /\ c.node \in seen'
    BY <1>1, <1>2, <1>3
  <2>. HIDE DEF s, c
  <2>2. \A i \in DOMAIN Append(s, c) :
          (i \in DOMAIN s /\ Append(s, c)[i] = s[i]) \/ Append(s, c)[i] = c
    BY <2>1
  <2>3. Within(Append(s, c), seen')
    BY <2>1, <2>2, <1>1 DEF Within
  <2>. QED BY <2>3 DEF s, c
<1>6. ASSUME phase # "collect" PROVE Walks(deeper)
  <2>1. Far(e) = Target(e) /\ \A i \in DOMAIN stack : stack[i].node # Target(e)
    BY <1>1, <1>6 DEF Far, Within
  <2>. QED BY <1>1, <1>6, <2>1, DeeperWalk DEF Walks
<1>7. components' \subseteq SUBSET Nodes
  BY <1>1, <1>2 DEF Descend, Typed
<1>8. Typed'
  <2>. HIDE DEF deeper
  <2>. QED BY <1>1, <1>2, <1>4, <1>7 DEF Descend, Typed, Calls
<1>. QED BY <1>1, <1>5, <1>6, <1>8, NewState

(* Taking an edge without a call keeps the path. *)
LEMMA VisitedInv ==
  ASSUME IInv, stack # <<>>, NEW e, edges' = edges, phase' = phase, seen' = seen,
         stack' = Visited(e)
  PROVE  /\ stack' \in Seq(Calls)
         /\ phase' # "collect" => Walks(stack')
         /\ Sweeping' => Within(stack', seen')
<1>1. Typed
  BY DEF IInv, CyclesSound
<1>. QED BY <1>1, VisitedStack, VisitedWalk DEF IInv, Walks, Sweeping

LEMMA MeetOpenInv ==
  ASSUME IInv, NEW e \in edges, MeetOpen(e)
  PROVE  IInv'
<1>1. /\ Typed /\ SoundList(cycles) /\ edges' = edges /\ stack # <<>> /\ e \in Top.left
      /\ phase \in {"has_cycle", "back_edges"}
      /\ Outgoing(stack) /\ Connected(stack) /\ Simple(stack)
  BY SoundState DEF IInv, MeetOpen
<1>2. CASE phase = "has_cycle"
  <2>1. /\ stack' = <<>> /\ seen' = {} /\ cycles' = cycles
        /\ cyclic' = TRUE /\ phase' = "finish"
    BY <1>2 DEF MeetOpen
  <2>2. Walks(stack') /\ Within(stack', seen')
    BY <2>1, EmptyWalk
  <2>3. Typed'
    BY <1>1, <2>1 DEF MeetOpen, Typed, Phases
  <2>. QED BY <1>1, <2>1, <2>2, <2>3, NewState
<1>3. CASE phase = "back_edges"
  <2>1. PICK i \in DOMAIN stack :
          Path[i] = Target(e) /\ cycles' = WithCycle(Loop(i)) /\ stack' = Visited(e)
          /\ phase' = phase /\ seen' = seen /\ cyclic' = cyclic
    BY <1>3 DEF MeetOpen
  <2>2. SoundList(cycles')
    BY <1>1, <2>1, LoopIsCycle, WithCycleSound
  <2>3. /\ stack' \in Seq(Calls)
        /\ phase' # "collect" => Walks(stack')
        /\ Sweeping' => Within(stack', seen')
    BY <1>1, <2>1, VisitedInv
  <2>4. Typed'
    BY <1>1, <2>1, <2>2, <2>3 DEF MeetOpen, Typed, Calls, SoundList
  <2>. QED BY <1>1, <2>2, <2>3, <2>4, NewState
<1>. QED BY <1>1, <1>2, <1>3

LEMMA MeetSeenInv ==
  ASSUME IInv, NEW e \in edges, MeetSeen(e)
  PROVE  IInv'
<1>1. /\ Typed /\ SoundList(cycles) /\ edges' = edges /\ stack # <<>> /\ cycles' = cycles
      /\ stack' = Visited(e) /\ phase' = phase /\ seen' = seen
  BY SoundState DEF IInv, MeetSeen
<1>2. /\ stack' \in Seq(Calls)
      /\ phase' # "collect" => Walks(stack')
      /\ Sweeping' => Within(stack', seen')
  BY <1>1, VisitedInv
<1>3. Typed'
  BY <1>1, <1>2 DEF MeetSeen, Typed, Calls
<1>. QED BY <1>1, <1>2, <1>3, NewState

LEMMA ReturnInv ==
  ASSUME IInv, Return
  PROVE  IInv'
<1>. DEFINE popped == SubSeq(stack, 1, Len(stack) - 1)
<1>1. /\ Typed /\ SoundList(cycles) /\ edges' = edges /\ stack # <<>> /\ cycles' = cycles
      /\ stack' = popped /\ phase' = phase /\ seen' = seen
  BY SoundState DEF IInv, Return
<1>2. /\ popped \in Seq(Calls)
      /\ phase # "collect" => Walks(popped)
      /\ Sweeping => Within(popped, seen)
  BY <1>1, PoppedStack DEF IInv, Walks
<1>3. finished' \in Seq(Nodes)
  BY <1>1, TopCall DEF Return, Typed
<1>. HIDE DEF popped
<1>4. Typed'
  BY <1>1, <1>2, <1>3 DEF Return, Typed, Calls
<1>. QED BY <1>1, <1>2, <1>4, NewState DEF Sweeping

LEMMA EndSweepInv ==
  ASSUME IInv, EndSweep
  PROVE  IInv'
<1>1. /\ Typed /\ SoundList(cycles) /\ edges' = edges /\ cycles' = cycles
      /\ stack' = <<>> /\ stack = <<>> /\ seen' = {}
  BY SoundState DEF IInv, EndSweep
<1>2. Walks(stack') /\ Within(stack', seen')
  BY <1>1, EmptyWalk
<1>3. phase' \in Phases
  BY DEF EndSweep, Sweeping, Phases
<1>4. starts' \subseteq Nodes
  <2>1. \A c \in components : \A n \in c : n \in Nodes
    BY <1>1 DEF Typed
  <2>2. Candidates \subseteq (UNION components) \cup Nodes
    BY DEF Candidates
  <2>3. \A n \in Candidates : n \in Nodes
    BY <2>1, <2>2
  <2>4. starts' = Candidates \/ starts' = {}
    BY DEF EndSweep
  <2>. QED BY <2>3, <2>4
<1>5. Typed'
  BY <1>1, <1>3, <1>4 DEF EndSweep, Typed
<1>. QED BY <1>1, <1>2, <1>5, NewState

LEMMA BeginAtInv ==
  ASSUME IInv, NEW n \in Nodes, BeginAt(n)
  PROVE  IInv'
<1>1. /\ Typed /\ SoundList(cycles) /\ edges' = edges /\ phase' = phase /\ cycles' = cycles
      /\ stack' = <<Call(n)>> /\ phase = "enumerate"
  BY SoundState DEF IInv, BeginAt
<1>2. stack' \in Seq(Calls) /\ Walks(stack') /\ ~Sweeping'
  BY <1>1, FirstCall DEF Sweeping
<1>3. room' \in Nat
  <2>1. Len(cycles) \in Nat /\ limit \in Nat \cup {None}
    BY <1>1, LimitsAssumption DEF Typed
  <2>2. limit # None => limit \in Nat /\ ~(Len(cycles) >= limit)
    BY <2>1 DEF BeginAt, Full
  <2>3. CASE limit = None
    BY <2>3 DEF BeginAt
  <2>4. CASE limit # None
    BY <2>1, <2>2, <2>4 DEF BeginAt
  <2>. QED BY <2>3, <2>4
<1>4. Typed'
  BY <1>1, <1>2, <1>3 DEF BeginAt, Typed, Calls
<1>. QED BY <1>1, <1>2, <1>4, NewState

LEMMA CloseInv ==
  ASSUME IInv, NEW e \in edges, Close(e)
  PROVE  IInv'
<1>1. /\ Typed /\ SoundList(cycles) /\ edges' = edges /\ stack # <<>> /\ e \in Top.left
      /\ stack' = Visited(e) /\ phase' = phase /\ seen' = seen /\ phase = "enumerate"
      /\ cycles' = WithCycle(Path) /\ Path[1] = Target(e)
      /\ Outgoing(stack) /\ Connected(stack) /\ Simple(stack)
  BY SoundState DEF IInv, Close
<1>2. SoundList(cycles')
  BY <1>1, PathIsCycle, WithCycleSound
<1>3. /\ stack' \in Seq(Calls)
      /\ phase' # "collect" => Walks(stack')
      /\ Sweeping' => Within(stack', seen')
  BY <1>1, VisitedInv
<1>4. room' \in Nat
  BY <1>1 DEF Close, Exhausted, Typed
<1>5. Typed'
  BY <1>1, <1>2, <1>3, <1>4 DEF Close, Typed, Calls, SoundList
<1>. QED BY <1>1, <1>2, <1>3, <1>5, NewState

LEMMA ExtendInv ==
  ASSUME IInv, NEW e \in edges, Extend(e)
  PROVE  IInv'
<1>. DEFINE deeper == Append(Visited(e), Call(Target(e)))
<1>1. /\ Typed /\ SoundList(cycles) /\ edges' = edges /\ stack # <<>> /\ e \in Top.left
      /\ phase' = phase /\ seen' = seen /\ phase = "enumerate" /\ cycles' = cycles
      /\ Outgoing(stack) /\ Connected(stack) /\ Simple(stack)
  BY SoundState DEF IInv, Extend
<1>2. ~Sweeping'
  BY <1>1 DEF Sweeping
<1>3. stack' \in Seq(Calls) /\ Walks(stack')
  <2>1. CASE stack' = Visited(e)
    BY <1>1, <2>1, VisitedInv
  <2>2. CASE stack' = deeper /\ Target(e) \notin NodesOf(Path)
    <3>1. \A i \in DOMAIN stack : stack[i].node # Target(e)
      BY <1>1, <2>2, PathNodes DEF NodesOf
    <3>2. Visited(e) \in Seq(Calls) /\ Call(Target(e)) \in Calls
      BY <1>1, VisitedStack, EdgeEnds, CallTyped
    <3>3. Walks(deeper)
      BY <1>1, <3>1, DeeperWalk DEF Walks
    <3>. QED BY <2>2, <3>2, <3>3
  <2>. QED BY <2>1, <2>2 DEF Extend
<1>4. Typed'
  BY <1>1, <1>3 DEF Extend, Typed, Calls
<1>. QED BY <1>1, <1>2, <1>3, <1>4, NewState

LEMMA BreakOffInv ==
  ASSUME IInv, BreakOff
  PROVE  IInv'
<1>1. /\ Typed /\ SoundList(cycles) /\ edges' = edges /\ cycles' = cycles /\ stack' = <<>>
  BY SoundState DEF IInv, BreakOff
<1>2. Walks(stack') /\ Within(stack', seen')
  BY <1>1, EmptyWalk
<1>3. Typed'
  BY <1>1 DEF BreakOff, Typed
<1>. QED BY <1>1, <1>2, <1>3, NewState

LEMMA AnalyzedInv ==
  ASSUME IInv, Analyzed
  PROVE  IInv'
<1>1. /\ Typed /\ SoundList(cycles) /\ edges' = edges /\ cycles' = cycles
      /\ stack = <<>> /\ stack' = <<>> /\ phase' = "analyzed"
  BY SoundState DEF IInv, Analyzed
<1>2. Walks(stack') /\ Within(stack', seen')
  BY <1>1, EmptyWalk
<1>3. Typed'
  BY <1>1 DEF Analyzed, Typed, Phases
<1>. QED BY <1>1, <1>2, <1>3, NewState

THEOREM NextInv == IInv /\ [Next]_vars => IInv'
<1>. SUFFICES ASSUME IInv, [Next]_vars PROVE IInv'
  OBVIOUS
<1>1. ASSUME NEW n \in Nodes, Begin(n) \/ BeginAt(n) PROVE IInv'
  BY <1>1, BeginInv, BeginAtInv
<1>2. ASSUME NEW e \in edges,
             Descend(e) \/ MeetOpen(e) \/ MeetSeen(e) \/ Close(e) \/ Extend(e)
      PROVE  IInv'
  BY <1>2, DescendInv, MeetOpenInv, MeetSeenInv, CloseInv, ExtendInv
<1>3. CASE Return
  BY <1>3, ReturnInv
<1>4. CASE EndSweep
  BY <1>4, EndSweepInv
<1>5. CASE BreakOff
  BY <1>5, BreakOffInv
<1>6. CASE Analyzed
  BY <1>6, AnalyzedInv
<1>7. CASE UNCHANGED vars
  <2>1. Typed /\ SoundList(cycles)
    BY SoundState
  <2>2. edges' = edges /\ SoundList(cycles')
        /\ (phase' # "collect" => Walks(stack')) /\ (Sweeping' => Within(stack', seen'))
    BY <1>7, <2>1 DEF vars, IInv, Walks, Sweeping
  <2>3. Typed'
    BY <1>7, <2>1 DEF vars, Typed
  <2>. QED BY <2>2, <2>3, NewState
<1>. QED BY <1>1, <1>2, <1>3, <1>4, <1>5, <1>6, <1>7 DEF Next

(* CyclesSound: whatever find_cycles lists, of the analyzer or of the      *)
(* builder, is a simple directed cycle of the graph, listed once.          *)
THEOREM ListedCyclesAreCycles == Spec => []CyclesSound
<1>1. IInv => CyclesSound
  BY DEF IInv
<1>. QED BY <1>1, InitInv, NextInv, PTL DEF Spec

-----------------------------------------------------------------------------
(* Reachability.  The edges never change, so what reaches what does not    *)
(* change, either.                                                         *)

Same(n, m) == Reaches(n, m) /\ Reaches(m, n)

LEMMA ReachesSelf ==
  ASSUME NEW n
  PROVE  Reaches(n, n)
BY DEF Reaches

LEMMA ReachesOn ==
  ASSUME NEW n, NEW m, NEW k, Reaches(n, m), Reaches(m, k)
  PROVE  Reaches(n, k)
BY DEF Reaches

LEMMA ReachesLinked ==
  ASSUME NEW n, NEW m, Linked(n, m)
  PROVE  Reaches(n, m)
BY DEF Reaches, Linked, Closed

LEMMA ReachesEdge ==
  ASSUME NEW e \in edges
  PROVE  Reaches(Source(e), Target(e))
BY DEF Reaches, Closed

(* What a closed set holds it holds for all that it reaches. *)
LEMMA ClosedReaches ==
  ASSUME NEW S \in SUBSET Nodes, Closed(S), NEW n \in S, NEW m, Reaches(n, m)
  PROVE  m \in S
BY DEF Reaches

LEMMA SameClasses ==
  ASSUME NEW n \in Nodes, NEW m \in Nodes
  PROVE  /\ n \in StrongComponent(n)
         /\ m \in StrongComponent(n) <=> Same(m, n)
         /\ Same(m, n) <=> StrongComponent(m) = StrongComponent(n)
         /\ Same(m, n) <=> Same(n, m)
<1>1. n \in StrongComponent(n) /\ m \in StrongComponent(m)
  BY ReachesSelf DEF StrongComponent
<1>2. m \in StrongComponent(n) <=> Same(m, n)
  BY DEF StrongComponent, Same
<1>3. ASSUME Same(m, n)
      PROVE  StrongComponent(m) = StrongComponent(n)
  <2>1. \A k : Reaches(m, k) <=> Reaches(n, k)
    BY <1>3, ReachesOn DEF Same
  <2>2. \A k : Reaches(k, m) <=> Reaches(k, n)
    BY <1>3, ReachesOn DEF Same
  <2>. QED BY <2>1, <2>2 DEF StrongComponent
<1>4. Same(m, n) <=> Same(n, m)
  BY DEF Same
<1>. QED BY <1>1, <1>2, <1>3, <1>4

LEMMA SameOn ==
  ASSUME NEW n, NEW m, NEW k, Same(n, m), Same(m, k)
  PROVE  Same(n, k)
BY ReachesOn DEF Same

(* An edge of a component that is not left again stays in it. *)
LEMMA SameEdge ==
  ASSUME NEW e \in edges, Reaches(Target(e), Source(e))
  PROVE  Same(Target(e), Source(e))
BY ReachesEdge DEF Same

(* Who reaches something else takes a first step. *)
LEMMA FirstStep ==
  ASSUME Typed, NEW n \in Nodes, NEW m \in Nodes, Reaches(n, m), n # m
  PROVE  \E k \in Nodes : Linked(n, k) /\ Reaches(k, m)
<1>. DEFINE S == {n} \cup {x \in Nodes : \E k \in Nodes : Linked(n, k) /\ Reaches(k, x)}
<1>1. Closed(S)
  <2>. SUFFICES ASSUME NEW e \in edges, Source(e) \in S
                PROVE  Target(e) \in S
    BY DEF Closed
  <2>1. Target(e) \in Nodes /\ Reaches(Source(e), Target(e))
    BY EdgeEnds, ReachesEdge
  <2>2. CASE Source(e) = n
    <3>1. Linked(n, Target(e)) /\ Reaches(Target(e), Target(e))
      BY <2>2, ReachesSelf DEF Linked
    <3>. QED BY <2>1, <3>1
  <2>3. CASE Source(e) # n
    <3>1. PICK k \in Nodes : Linked(n, k) /\ Reaches(k, Source(e))
      BY <2>3
    <3>2. Reaches(k, Target(e))
      BY <2>1, <3>1, ReachesOn
    <3>. QED BY <2>1, <3>1, <3>2
  <2>. QED BY <2>2, <2>3
<1>2. S \in SUBSET Nodes /\ n \in S
  OBVIOUS
<1>. HIDE DEF S
<1>3. m \in S
  BY <1>1, <1>2, ClosedReaches
<1>. QED BY <1>3 DEF S

LEMMA LeastNumber ==
  ASSUME NEW S \in SUBSET Nat, S # {}
  PROVE  \E i \in S : \A j \in S : i <= j
<1>1. PICK m \in S : \A j \in S : ~(<<j, m>> \in OpToRel(<, Nat))
  BY NatLessThanWellFounded, WFMin
<1>2. ASSUME NEW j \in S
      PROVE  m <= j
  <2>1. j \in Nat /\ m \in Nat /\ ~(j < m)
    BY <1>1 DEF OpToRel
  <2>. QED BY <2>1
<1>. QED BY <1>2

(* The nodes of a cycle reach one another. *)
LEMMA CycleReaches ==
  ASSUME Typed, NEW c \in Seq(Nodes), IsCycle(c), NEW i \in DOMAIN c
  PROVE  Reaches(c[1], c[i]) /\ Reaches(c[i], c[1])
<1>1. /\ Len(c) \in Nat \ {0} /\ DOMAIN c = 1 .. Len(c) /\ i \in 1 .. Len(c)
      /\ \A j \in 1 .. Len(c) : c[j] \in Nodes
      /\ \A j \in 1 .. Len(c) - 1 : Reaches(c[j], c[j + 1])
      /\ Reaches(c[Len(c)], c[1])
  BY ReachesLinked DEF IsCycle
<1>2. Reaches(c[1], c[i])
  <2>. DEFINE bad == {j \in 1 .. Len(c) : ~Reaches(c[1], c[j])}
  <2>1. SUFFICES ASSUME bad # {} PROVE FALSE
    BY <1>1
  <2>2. bad \in SUBSET Nat
    BY <1>1
  <2>3. PICK j \in bad : \A k \in bad : j <= k
    BY <2>1, <2>2, LeastNumber
  <2>4. j \in 1 .. Len(c) /\ ~Reaches(c[1], c[j])
    OBVIOUS
  <2>5. j # 1
    BY <2>4, ReachesSelf
  <2>6. j - 1 \in 1 .. Len(c) - 1 /\ j - 1 \in 1 .. Len(c) /\ ~(j <= j - 1) /\ (j - 1) + 1 = j
    BY <1>1, <2>4, <2>5
  <2>7. Reaches(c[1], c[j - 1])
    BY <2>3, <2>6
  <2>8. Reaches(c[j - 1], c[j])
    BY <1>1, <2>6
  <2>. QED BY <2>4, <2>7, <2>8, ReachesOn
<1>3. Reaches(c[i], c[1])
  <2>. DEFINE bad == {j \in 0 .. Len(c) - 1 : ~Reaches(c[Len(c) - j], c[1])}
  <2>1. SUFFICES ASSUME bad # {} PROVE FALSE
    <3>1. Len(c) - i \in 0 .. Len(c) - 1 /\ Len(c) - (Len(c) - i) = i
      BY <1>1
    <3>. QED BY <3>1
  <2>2. bad \in SUBSET Nat
    BY <1>1
  <2>3. PICK j \in bad : \A k \in bad : j <= k
    BY <2>1, <2>2, LeastNumber
  <2>4. j \in 0 .. Len(c) - 1 /\ ~Reaches(c[Len(c) - j], c[1])
    OBVIOUS
  <2>5. j # 0
    BY <1>1, <2>4
  <2>6. /\ j - 1 \in 0 .. Len(c) - 1 /\ ~(j <= j - 1)
        /\ Len(c) - j \in 1 .. Len(c) - 1 /\ (Len(c) - j) + 1 = Len(c) - (j - 1)
    BY <1>1, <2>4, <2>5
  <2>7. Reaches(c[Len(c) - (j - 1)], c[1])
    BY <2>3, <2>6
  <2>8. Reaches(c[Len(c) - j], c[(Len(c) - j) + 1])
    BY <1>1, <2>6
  <2>9. Reaches(c[Len(c) - j], c[Len(c) - (j - 1)])
    BY <2>6, <2>8
  <2>. QED BY <2>4, <2>7, <2>9, ReachesOn
<1>. QED BY <1>2, <1>3

(* A cycle lies on a cycle, in one component. *)
LEMMA CycleOnCycle ==
  ASSUME Typed, NEW c \in Seq(Nodes), IsCycle(c)
  PROVE  /\ c[1] \in Nodes /\ c[1] \in OnCycle
         /\ NodesOf(c) \subseteq StrongComponent(c[1])
<1>1. Len(c) \in Nat \ {0} /\ DOMAIN c = 1 .. Len(c) /\ \A j \in 1 .. Len(c) : c[j] \in Nodes
  BY DEF IsCycle
<1>2. \A i \in 1 .. Len(c) : Reaches(c[1], c[i]) /\ Reaches(c[i], c[1])
  BY <1>1, CycleReaches
<1>3. NodesOf(c) \subseteq StrongComponent(c[1])
  BY <1>1, <1>2 DEF NodesOf, StrongComponent
<1>4. c[1] \in Nodes
  BY <1>1
<1>5. CASE Len(c) = 1
  <2>1. Linked(c[1], c[1]) /\ Reaches(c[1], c[1])
    BY <1>5, ReachesSelf DEF IsCycle
  <2>. QED BY <1>3, <1>4, <2>1 DEF OnCycle
<1>6. CASE Len(c) # 1
  <2>1. 1 \in 1 .. Len(c) - 1 /\ 2 \in 1 .. Len(c) /\ 1 + 1 = 2
    BY <1>1, <1>6
  <2>2. Linked(c[1], c[2]) /\ Reaches(c[2], c[1]) /\ c[2] \in Nodes
    BY <2>1, <1>1, <1>2 DEF IsCycle
  <2>. QED BY <1>3, <1>4, <2>2 DEF OnCycle
<1>. QED BY <1>5, <1>6
-----------------------------------------------------------------------------
(* What the sweeps have in common.  Collecting follows the edges           *)
(* backwards, so near and far change places.                               *)

Near(e) == IF phase = "collect" THEN Target(e) ELSE Source(e)

Aligned(s) == \A i \in DOMAIN s : \A e \in s[i].left : Near(e) = s[i].node

Chained(s) ==
  \A i, j \in DOMAIN s : i <= j =>
    IF phase = "collect" THEN Reaches(s[j].node, s[i].node)
                         ELSE Reaches(s[i].node, s[j].node)

ToVisit(s, e) == \E i \in DOMAIN s : s[i].node = Near(e) /\ e \in s[i].left

(* Every edge of a visited node leads to one, or its turn is still to come. *)
Followed(s, S) == \A e \in edges : Near(e) \in S => Far(e) \in S \/ ToVisit(s, e)

Search(s, S) == Aligned(s) /\ Simple(s) /\ Chained(s) /\ Followed(s, S)

LEMMA VisitedLeft ==
  ASSUME Typed, stack # <<>>, NEW e
  PROVE  /\ Visited(e)[Len(stack)].left = Top.left \ {e}
         /\ \A i \in 1 .. Len(stack) - 1 : Visited(e)[i] = stack[i]
<1>1. Len(stack) \in Nat \ {0} /\ DOMAIN stack = 1 .. Len(stack) /\ stack \in Seq(Calls)
  BY TopCall DEF Typed, Calls
<1>. DEFINE top == [Top EXCEPT !.left = @ \ {e}]
<1>2. top.left = Top.left \ {e}
  BY TopCall DEF Calls
<1>3. Visited(e) = [stack EXCEPT ![Len(stack)] = top]
  BY DEF Visited, Top
<1>4. Len(stack) \in DOMAIN stack /\ Visited(e)[Len(stack)] = top
  BY <1>1, <1>3
<1>5. ASSUME NEW i \in 1 .. Len(stack) - 1
      PROVE  Visited(e)[i] = stack[i]
  <2>1. Len(stack) \in Nat
    BY <1>1
  <2>2. i \in 1 .. Len(stack) /\ i # Len(stack)
    BY <2>1
  <2>. QED BY <1>1, <1>3, <2>2
<1>. QED BY <1>2, <1>4, <1>5

LEMMA DeeperStack ==
  ASSUME Typed, stack # <<>>, NEW e, NEW n \in Nodes
  PROVE  LET deeper == Append(Visited(e), Call(n)) IN
         /\ Len(deeper) = Len(stack) + 1 /\ DOMAIN deeper = 1 .. Len(stack) + 1
         /\ \A i \in 1 .. Len(stack) :
              deeper[i] = Visited(e)[i] /\ deeper[i].node = stack[i].node
         /\ deeper[Len(stack) + 1] = Call(n)
<1>. DEFINE s == Visited(e)
            c == Call(n)
            deeper == Append(s, c)
<1>1. Len(stack) \in Nat \ {0} /\ DOMAIN stack = 1 .. Len(stack)
  BY TopCall
<1>2. /\ s \in Seq(Calls) /\ Len(s) = Len(stack) /\ DOMAIN s = DOMAIN stack
      /\ \A i \in DOMAIN stack : s[i].node = stack[i].node
      /\ c \in Calls
  BY VisitedStack, CallTyped
<1>. HIDE DEF s, c
<1>3. /\ Len(deeper) = Len(stack) + 1 /\ DOMAIN deeper = 1 .. Len(stack) + 1
      /\ \A i \in 1 .. Len(stack) : deeper[i] = s[i]
      /\ deeper[Len(stack) + 1] = c
  BY <1>1, <1>2
<1>. QED BY <1>1, <1>2, <1>3 DEF s, c

LEMMA PoppedCalls ==
  ASSUME Typed, stack # <<>>
  PROVE  LET popped == SubSeq(stack, 1, Len(stack) - 1) IN
         /\ Len(popped) = Len(stack) - 1 /\ DOMAIN popped = 1 .. Len(stack) - 1
         /\ \A i \in 1 .. Len(stack) - 1 : popped[i] = stack[i]
<1>1. Len(stack) \in Nat \ {0} /\ DOMAIN stack = 1 .. Len(stack) /\ stack \in Seq(Calls)
  BY TopCall DEF Typed, Calls
<1>. QED BY <1>1

LEMMA EmptySearch ==
  ASSUME NEW s, s = <<>>, NEW S, stack = <<>>, Followed(stack, S) \/ S = {}
  PROVE  Search(s, S)
<1>1. DOMAIN s = {}
  OBVIOUS
<1>2. Aligned(s) /\ Simple(s) /\ Chained(s) /\ Followed(s, S)
  BY <1>1 DEF Aligned, Simple, Chained, Followed, ToVisit
<1>. QED BY <1>2 DEF Search

LEMMA FirstSearch ==
  ASSUME Typed, stack = <<>>, NEW n \in Nodes, NEW S, Followed(stack, S)
  PROVE  Search(<<Call(n)>>, S \cup {n})
<1>. DEFINE c == Call(n)
            s == <<c>>
<1>1. c.node = n /\ c.left = Leaving(n)
  BY DEF Call
<1>. HIDE DEF c
<1>2. DOMAIN s = {1} /\ s[1] = c
  OBVIOUS
<1>. HIDE DEF s
<1>3. \A e \in edges : e \in Leaving(n) <=> Near(e) = n
  BY DEF Leaving, Near
<1>4. Aligned(s)
  BY <1>1, <1>2, <1>3 DEF Aligned, Leaving
<1>5. Simple(s) /\ Chained(s)
  BY <1>2, ReachesSelf DEF Simple, Chained
<1>6. Followed(s, S \cup {n})
  <2>. SUFFICES ASSUME NEW e \in edges, Near(e) \in S \cup {n}
                PROVE  Far(e) \in S \/ ToVisit(s, e)
    BY DEF Followed
  <2>1. CASE Near(e) = n
    BY <1>1, <1>2, <1>3, <2>1 DEF ToVisit
  <2>2. CASE Near(e) \in S
    <3>1. ~ToVisit(stack, e)
      BY DEF ToVisit
    <3>. QED BY <2>2, <3>1 DEF Followed
  <2>. QED BY <2>1, <2>2
<1>. QED BY <1>4, <1>5, <1>6 DEF Search, s, c

LEMMA VisitedSearch ==
  ASSUME Typed, stack # <<>>, NEW e \in Top.left, NEW S, Far(e) \in S, Search(stack, S)
  PROVE  Search(Visited(e), S)
<1>. DEFINE s == Visited(e)
<1>1. Len(stack) \in Nat \ {0} /\ DOMAIN stack = 1 .. Len(stack) /\ Top = stack[Len(stack)]
  BY TopCall
<1>2. /\ DOMAIN s = DOMAIN stack /\ Simple(s)
      /\ \A i \in DOMAIN stack : s[i].node = stack[i].node /\ s[i].left \subseteq stack[i].left
      /\ s[Len(stack)].left = Top.left \ {e}
      /\ \A i \in 1 .. Len(stack) - 1 : s[i] = stack[i]
  BY VisitedStack, VisitedWalk, VisitedLeft DEF Search
<1>. HIDE DEF s
<1>3. Aligned(s) /\ Chained(s)
  BY <1>2 DEF Search, Aligned, Chained
<1>4. ASSUME NEW f \in edges, Near(f) \in S, Far(f) \notin S
      PROVE  ToVisit(s, f)
  <2>1. PICK i \in DOMAIN stack : stack[i].node = Near(f) /\ f \in stack[i].left
    BY <1>4 DEF Search, Followed, ToVisit
  <2>2. i = Len(stack) \/ i \in 1 .. Len(stack) - 1
    BY <1>1
  <2>3. f \in s[i].left
    BY <1>1, <1>2, <1>4, <2>1, <2>2
  <2>. QED BY <1>2, <2>1, <2>3 DEF ToVisit
<1>5. Followed(s, S)
  BY <1>4 DEF Followed
<1>. QED BY <1>2, <1>3, <1>5 DEF Search, s

LEMMA DeeperSearch ==
  ASSUME Typed, stack # <<>>, NEW e \in Top.left, NEW S, Far(e) \notin S,
         Within(stack, S), Search(stack, S)
  PROVE  Search(Append(Visited(e), Call(Far(e))), S \cup {Far(e)})
<1>. DEFINE n == Len(stack)
            m == Far(e)
            v == Visited(e)
            s == Append(v, Call(m))
<1>1. n \in Nat \ {0} /\ DOMAIN stack = 1 .. n /\ Top = stack[n] /\ e \in edges
  BY TopCall
<1>2. m \in Nodes /\ Call(m).node = m /\ Call(m).left = Leaving(m)
  BY <1>1, EdgeEnds DEF Call
<1>3. /\ \A i \in 1 .. n : v[i].left \subseteq stack[i].left
      /\ v[n].left = Top.left \ {e}
      /\ \A i \in 1 .. n - 1 : v[i] = stack[i]
  BY <1>1, VisitedStack, VisitedLeft
<1>4. /\ DOMAIN s = 1 .. n + 1
      /\ \A i \in 1 .. n : s[i] = v[i] /\ s[i].node = stack[i].node
      /\ s[n + 1].node = m /\ s[n + 1].left = Leaving(m)
  BY <1>2, DeeperStack
<1>5. Near(e) = stack[n].node
  BY <1>1 DEF Search, Aligned
<1>6. \A i \in 1 .. n + 1 : i \in 1 .. n \/ i = n + 1
  BY <1>1
<1>7. n \in 1 .. n /\ n + 1 \in 1 .. n + 1 /\ 1 .. n \subseteq 1 .. n + 1
  BY <1>1
<1>. HIDE DEF n, m, v, s
<1>8. \A f \in edges : f \in Leaving(m) <=> Near(f) = m
  BY DEF Leaving, Near
<1>9. Aligned(s)
  <2>. SUFFICES ASSUME NEW i \in 1 .. n + 1, NEW f \in s[i].left
                PROVE  Near(f) = s[i].node
    BY <1>4 DEF Aligned
  <2>1. CASE i = n + 1
    BY <2>1, <1>4, <1>8 DEF Leaving
  <2>2. CASE i \in 1 .. n
    <3>1. f \in stack[i].left
      BY <2>2, <1>3, <1>4
    <3>. QED BY <3>1, <2>2, <1>1, <1>4 DEF Search, Aligned
  <2>. QED BY <1>6, <2>1, <2>2
<1>10. Simple(s)
  <2>1. \A i \in 1 .. n : s[i].node # m
    BY <1>1, <1>4 DEF Within, m
  <2>2. \A i, j \in 1 .. n : s[i].node = s[j].node => i = j
    BY <1>1, <1>4 DEF Search, Simple
  <2>. QED BY <1>4, <1>6, <2>1, <2>2 DEF Simple
<1>11. IF phase = "collect" THEN Reaches(m, stack[n].node) ELSE Reaches(stack[n].node, m)
  BY <1>1, <1>5, ReachesEdge DEF Near, Far, m
<1>12. Chained(s)
  <2>. DEFINE Leads(x, y) == IF phase = "collect" THEN Reaches(y, x) ELSE Reaches(x, y)
  <2>. SUFFICES ASSUME NEW i \in 1 .. n + 1, NEW j \in 1 .. n + 1, i <= j
                PROVE  Leads(s[i].node, s[j].node)
    BY <1>4 DEF Chained
  <2>1. \A k, l \in 1 .. n : k <= l => Leads(stack[k].node, stack[l].node)
    BY <1>1 DEF Search, Chained
  <2>2. CASE j \in 1 .. n
    <3>1. i \in 1 .. n
      BY <1>1, <2>2
    <3>. QED BY <1>4, <2>1, <2>2, <3>1
  <2>3. CASE j = n + 1 /\ i = n + 1
    BY <2>3, ReachesSelf
  <2>4. CASE j = n + 1 /\ i \in 1 .. n
    <3>1. Leads(stack[i].node, stack[n].node)
      <4>1. i <= n
        BY <1>1, <2>4
      <4>. QED BY <1>7, <2>1, <2>4, <4>1
    <3>2. Leads(stack[i].node, m)
      BY <1>11, <3>1, ReachesOn
    <3>. QED BY <1>4, <2>4, <3>2
  <2>. QED BY <1>6, <2>2, <2>3, <2>4
<1>13. Followed(s, S \cup {m})
  <2>. SUFFICES ASSUME NEW f \in edges, Near(f) \in S \cup {m}, Far(f) \notin S, Far(f) # m
                PROVE  ToVisit(s, f)
    BY DEF Followed
  <2>1. CASE Near(f) = m
    BY <2>1, <1>4, <1>7, <1>8 DEF ToVisit
  <2>2. CASE Near(f) \in S
    <3>1. PICK i \in DOMAIN stack : stack[i].node = Near(f) /\ f \in stack[i].left
      BY <2>2 DEF Search, Followed, ToVisit
    <3>2. f # e
      BY DEF m
    <3>3. i = n \/ i \in 1 .. n - 1
      BY <1>1
    <3>4. f \in v[i].left
      BY <1>1, <1>3, <3>1, <3>2, <3>3
    <3>. QED BY <1>1, <1>4, <1>7, <3>1, <3>4 DEF ToVisit
  <2>. QED BY <2>1, <2>2
<1>. QED BY <1>9, <1>10, <1>12, <1>13 DEF Search, s, m, v

LEMMA PoppedSearch ==
  ASSUME Typed, stack # <<>>, Top.left = {}, NEW S, Search(stack, S)
  PROVE  Search(SubSeq(stack, 1, Len(stack) - 1), S)
<1>. DEFINE n == Len(stack)
            s == SubSeq(stack, 1, n - 1)
<1>1. n \in Nat \ {0} /\ DOMAIN stack = 1 .. n /\ Top = stack[n]
  BY TopCall
<1>2. DOMAIN s = 1 .. n - 1 /\ \A i \in 1 .. n - 1 : s[i] = stack[i]
  BY PoppedCalls
<1>. HIDE DEF n, s
<1>3. 1 .. n - 1 \subseteq 1 .. n /\ \A i \in 1 .. n : i = n \/ i \in 1 .. n - 1
  BY <1>1
<1>4. Aligned(s) /\ Simple(s) /\ Chained(s)
  BY <1>1, <1>2, <1>3 DEF Search, Aligned, Simple, Chained
<1>5. Followed(s, S)
  <2>. SUFFICES ASSUME NEW f \in edges, Near(f) \in S, Far(f) \notin S
                PROVE  ToVisit(s, f)
    BY DEF Followed
  <2>1. PICK i \in DOMAIN stack : stack[i].node = Near(f) /\ f \in stack[i].left
    BY DEF Search, Followed, ToVisit
  <2>2. i \in 1 .. n - 1
    BY <1>1, <1>3, <2>1
  <2>. QED BY <1>2, <2>1, <2>2 DEF ToVisit
<1>. QED BY <1>4, <1>5 DEF Search, n, s
-----------------------------------------------------------------------------
(* The invariant behind ComponentsExact: what each sweep has established   *)
(* of the nodes that it is done with.                                      *)

On(s, n) == \E i \in DOMAIN s : s[i].node = n

(* No listed cycle lies in the component of n. *)
Clean(list, n) == \A i \in DOMAIN list : ~(NodesOf(list[i]) \subseteq StrongComponent(n))

(* has_cycle, back_edges: as long as no cycle of its component is listed,  *)
(* the edges of a node that stay in the component lead to nodes that are   *)
(* done, but for the path and the edges to come; and a node that is done   *)
(* lies on no cycle.                                                       *)
Settled(s, S, list) ==
  \A e \in edges :
    Source(e) \in S /\ Clean(list, Source(e)) /\ Reaches(Target(e), Source(e)) =>
      \/ Target(e) \in S /\ ~On(s, Target(e))
      \/ \E i \in DOMAIN s :
           /\ s[i].node = Source(e)
           /\ e \in s[i].left \/ (i # Len(s) /\ s[i + 1].node = Target(e))
Acyclic(s, S, list) ==
  \A n \in S : ~On(s, n) /\ Clean(list, n) => n \notin OnCycle
Decided(s, S, list) == Settled(s, S, list) /\ Acyclic(s, S, list)

(* finish: of all that a finished node reaches, a node of its component is *)
(* finished last, unless one is still open.                                *)
LaterSame(fin, u, r) ==
  \E p, q \in DOMAIN fin : fin[p] = r /\ p <= q /\ Same(fin[q], u)
Finishing(s, S, fin) ==
  /\ \A n : n \in S <=> n \in NodesOf(fin) \/ On(s, n)
  /\ \A n \in NodesOf(fin) : ~On(s, n)
  /\ Distinct(fin)
  /\ \A u \in NodesOf(fin), r \in Nodes : Reaches(u, r) =>
       LaterSame(fin, u, r) \/ \E i \in DOMAIN s : Same(s[i].node, u)
Ordered(fin) ==
  /\ NodesOf(fin) = Nodes /\ Distinct(fin)
  /\ \A u, r \in Nodes : Reaches(u, r) => LaterSame(fin, u, r)

(* collect: components are complete, except for the one of the open calls, *)
(* which is a part of one; what finished after its root is in the others.  *)
Component(c) == \E n \in Nodes : c = StrongComponent(n)
Current(s, comps, fin, c) ==
  /\ c \in comps /\ Within(s, c)
  /\ \A n \in c : Same(n, s[1].node)
  /\ \A d \in comps \ {c} : Component(d) /\ s[1].node \notin d
  /\ \A p, q \in DOMAIN fin : fin[p] = s[1].node /\ p < q =>
       \E d \in comps \ {c} : fin[q] \in d
Collecting(s, S, comps, fin) ==
  /\ S = UNION comps
  /\ s = <<>> => \A c \in comps : Component(c)
  /\ s # <<>> => \E c \in comps : Current(s, comps, fin, c)
Collected(comps) == comps = {StrongComponent(n) : n \in Nodes}

(* The answers. *)
Answered(yes) == yes <=> OnCycle # {}
Unearthed(list) == \A n \in OnCycle : ~Clean(list, n)

ExactInv ==
  /\ IInv
  /\ Sweeping => Search(stack, seen)
  /\ phase \in {"has_cycle", "back_edges"} => Decided(stack, seen, cycles)
  /\ phase = "has_cycle" => ~cyclic /\ finished = <<>>
  /\ phase \in {"has_cycle", "finish"} => components = {}
  /\ phase \in {"has_cycle", "finish", "collect"} => cycles = <<>>
  /\ phase = "finish" => Finishing(stack, seen, finished)
  /\ phase \in {"collect", "enumerate", "analyzed"} => Ordered(finished)
  /\ phase = "collect" => Collecting(stack, seen, components, finished)
  /\ phase \in {"enumerate", "analyzed"} => Collected(components)
  /\ phase \in {"finish", "collect", "enumerate", "analyzed"} => Answered(cyclic)
  /\ phase = "built" => Unearthed(cycles)

(* What a step has to establish. *)
LEMMA NewExact ==
  ASSUME edges' = edges, IInv',
         Sweeping' => (stack' = <<>> /\ seen' = {}) \/ (phase' = phase /\ Search(stack', seen')),
         phase' \in {"has_cycle", "back_edges"} => Decided(stack', seen', cycles'),
         phase' = "has_cycle" => ~cyclic' /\ finished' = <<>>,
         phase' \in {"has_cycle", "finish"} => components' = {},
         phase' \in {"has_cycle", "finish", "collect"} => cycles' = <<>>,
         phase' = "finish" => Finishing(stack', seen', finished'),
         phase' \in {"collect", "enumerate", "analyzed"} => Ordered(finished'),
         phase' = "collect" => Collecting(stack', seen', components', finished'),
         phase' \in {"enumerate", "analyzed"} => Collected(components'),
         phase' \in {"finish", "collect", "enumerate", "analyzed"} => Answered(cyclic'),
         phase' = "built" => Unearthed(cycles')
  PROVE  ExactInv'
<1>1. \A n, m : Reaches(n, m)' <=> Reaches(n, m)
  BY DEF Reaches, Closed
<1>2. \A n : StrongComponent(n)' = StrongComponent(n)
  BY <1>1 DEF StrongComponent
<1>3. OnCycle' = OnCycle
  BY <1>1 DEF OnCycle, Linked
<1>4. \A n, m : Same(n, m)' <=> Same(n, m)
  BY <1>1 DEF Same
<1>5. Sweeping' => Search(stack, seen)'
  <2>1. CASE stack' = <<>> /\ seen' = {}
    <3>1. DOMAIN stack' = {}
      BY <2>1
    <3>. QED BY <2>1, <3>1 DEF Search, Aligned, Simple, Chained, Followed
  <2>2. CASE phase' = phase /\ Search(stack', seen')
    BY <1>1, <2>2 DEF Search, Aligned, Simple, Chained, Followed, ToVisit, Near, Far
  <2>. QED BY <2>1, <2>2
<1>6. phase' \in {"has_cycle", "back_edges"} => Decided(stack, seen, cycles)'
  BY <1>1, <1>3, <1>2 DEF Decided, Settled, Acyclic, Clean, On
<1>7. phase' = "finish" => Finishing(stack, seen, finished)'
  BY <1>1, <1>4 DEF Finishing, LaterSame, On
<1>8. phase' \in {"collect", "enumerate", "analyzed"} => Ordered(finished)'
  BY <1>1, <1>4 DEF Ordered, LaterSame
<1>9. phase' = "collect" => Collecting(stack, seen, components, finished)'
  BY <1>2, <1>4 DEF Collecting, Current, Component, Within
<1>10. phase' \in {"enumerate", "analyzed"} => Collected(components)'
  BY <1>2 DEF Collected
<1>11. phase' = "built" => Unearthed(cycles)'
  BY <1>2, <1>3 DEF Unearthed, Clean
<1>12. Answered(cyclic') => Answered(cyclic)'
  BY <1>3 DEF Answered
<1>. QED BY <1>12, <1>5, <1>6, <1>7, <1>8, <1>9, <1>10, <1>11 DEF ExactInv
-----------------------------------------------------------------------------
(* has_cycle and back_edges *)

LEMMA FirstDecided ==
  ASSUME Typed, phase # "collect", stack = <<>>, NEW n \in Nodes, n \notin seen,
         Decided(stack, seen, cycles)
  PROVE  Decided(<<Call(n)>>, seen \cup {n}, cycles)
<1>. DEFINE c == Call(n)
            s == <<c>>
            S == seen \cup {n}
<1>1. c.node = n /\ \A e \in edges : Source(e) = n => e \in c.left
  BY DEF Call, Leaving
<1>. HIDE DEF c
<1>2. DOMAIN s = {1} /\ s[1] = c /\ \A m : On(s, m) <=> m = n
  BY <1>1 DEF On
<1>3. \A m : ~On(stack, m)
  BY DEF On
<1>. HIDE DEF s
<1>4. Settled(s, S, cycles)
  <2>. SUFFICES ASSUME NEW e \in edges, Source(e) \in S, Clean(cycles, Source(e)),
                       Reaches(Target(e), Source(e))
                PROVE  \/ Target(e) \in S /\ ~On(s, Target(e))
                       \/ \E i \in DOMAIN s : s[i].node = Source(e) /\ e \in s[i].left
    BY DEF Settled
  <2>1. CASE Source(e) = n
    BY <1>1, <1>2, <2>1
  <2>2. CASE Source(e) # n
    <3>1. DOMAIN stack = {}
      OBVIOUS
    <3>2. Target(e) \in seen
      BY <2>2, <3>1 DEF Decided, Settled
    <3>. QED BY <1>2, <3>2
  <2>. QED BY <2>1, <2>2
<1>5. Acyclic(s, S, cycles)
  BY <1>2, <1>3 DEF Decided, Acyclic
<1>. QED BY <1>4, <1>5 DEF Decided, s, c

(* Only the edge taken is no longer to come.  Either its component is no   *)
(* longer clean, or it leads to a node that is done.                       *)
LEMMA VisitedDecided ==
  ASSUME Typed, stack # <<>>, NEW e \in Top.left, Outgoing(stack), NEW list,
         \A n : Clean(list, n) => Clean(cycles, n),
         ~Clean(list, Source(e)) \/ (Target(e) \in seen /\ ~On(stack, Target(e))),
         Decided(stack, seen, cycles)
  PROVE  Decided(Visited(e), seen, list)
<1>. DEFINE s == Visited(e)
<1>1. Len(stack) \in Nat \ {0} /\ DOMAIN stack = 1 .. Len(stack) /\ Top = stack[Len(stack)]
  BY TopCall
<1>2. /\ DOMAIN s = DOMAIN stack /\ Len(s) = Len(stack)
      /\ \A i \in DOMAIN stack : s[i].node = stack[i].node /\ s[i].left \subseteq stack[i].left
      /\ s[Len(stack)].left = Top.left \ {e}
      /\ \A i \in 1 .. Len(stack) - 1 : s[i] = stack[i]
  BY VisitedStack, VisitedLeft
<1>. HIDE DEF s
<1>3. \A n : On(s, n) <=> On(stack, n)
  BY <1>2 DEF On
<1>4. Settled(s, seen, list)
  <2>. SUFFICES ASSUME NEW f \in edges, Source(f) \in seen, Clean(list, Source(f)),
                       Reaches(Target(f), Source(f)),
                       ~(Target(f) \in seen /\ ~On(s, Target(f)))
                PROVE  \E i \in DOMAIN s :
                         /\ s[i].node = Source(f)
                         /\ f \in s[i].left \/ (i # Len(s) /\ s[i + 1].node = Target(f))
    BY DEF Settled
  <2>1. f # e
    BY <1>3
  <2>2. PICK i \in DOMAIN stack :
          /\ stack[i].node = Source(f)
          /\ f \in stack[i].left \/ (i # Len(stack) /\ stack[i + 1].node = Target(f))
    BY <1>3 DEF Decided, Settled
  <2>3. CASE f \in stack[i].left
    <3>1. i = Len(stack) \/ i \in 1 .. Len(stack) - 1
      BY <1>1
    <3>2. f \in s[i].left
      BY <1>1, <1>2, <2>1, <2>3, <3>1
    <3>. QED BY <1>2, <2>2, <3>2
  <2>4. CASE i # Len(stack) /\ stack[i + 1].node = Target(f)
    <3>1. i + 1 \in DOMAIN stack
      BY <1>1, <2>4
    <3>. QED BY <1>2, <2>2, <2>4, <3>1
  <2>. QED BY <2>2, <2>3, <2>4
<1>5. Acyclic(s, seen, list)
  BY <1>3 DEF Decided, Acyclic
<1>. QED BY <1>4, <1>5 DEF Decided, s

LEMMA DeeperDecided ==
  ASSUME Typed, phase # "collect", stack # <<>>, NEW e \in Top.left, Outgoing(stack),
         Target(e) \notin seen, Within(stack, seen), Decided(stack, seen, cycles)
  PROVE  Decided(Append(Visited(e), Call(Target(e))), seen \cup {Target(e)}, cycles)
<1>. DEFINE n == Len(stack)
            m == Target(e)
            v == Visited(e)
            s == Append(v, Call(m))
            S == seen \cup {m}
<1>1. n \in Nat \ {0} /\ DOMAIN stack = 1 .. n /\ Top = stack[n] /\ e \in edges
      /\ Source(e) = stack[n].node
  BY TopCall DEF Outgoing
<1>2. m \in Nodes /\ Call(m).node = m /\ Call(m).left = Leaving(m)
      /\ \A f \in edges : Source(f) = m => f \in Leaving(m)
  BY <1>1, EdgeEnds DEF Call, Leaving
<1>3. /\ v[n].left = Top.left \ {e}
      /\ \A i \in 1 .. n - 1 : v[i] = stack[i]
  BY <1>1, VisitedLeft
<1>4. /\ DOMAIN s = 1 .. n + 1 /\ Len(s) = n + 1
      /\ \A i \in 1 .. n : s[i] = v[i] /\ s[i].node = stack[i].node
      /\ s[n + 1].node = m /\ s[n + 1].left = Leaving(m)
  BY <1>2, DeeperStack
<1>. HIDE DEF n, m, v, s
<1>5. /\ \A i \in 1 .. n + 1 : i \in 1 .. n \/ i = n + 1
      /\ n \in 1 .. n /\ n + 1 \in 1 .. n + 1 /\ 1 .. n \subseteq 1 .. n + 1
      /\ n # n + 1
  BY <1>1
<1>6. \A k : On(s, k) <=> On(stack, k) \/ k = m
  BY <1>1, <1>4, <1>5 DEF On
<1>7. Settled(s, S, cycles)
  <2>. SUFFICES ASSUME NEW f \in edges, Source(f) \in S, Clean(cycles, Source(f)),
                       Reaches(Target(f), Source(f)),
                       ~(Target(f) \in S /\ ~On(s, Target(f)))
                PROVE  \E i \in DOMAIN s :
                         /\ s[i].node = Source(f)
                         /\ f \in s[i].left \/ (i # Len(s) /\ s[i + 1].node = Target(f))
    BY DEF Settled
  <2>1. CASE Source(f) = m
    BY <2>1, <1>2, <1>4, <1>5
  <2>2. CASE Source(f) # m /\ f = e
    BY <2>2, <1>1, <1>4, <1>5 DEF m
  <2>3. CASE Source(f) # m /\ f # e
    <3>1. PICK i \in DOMAIN stack :
            /\ stack[i].node = Source(f)
            /\ f \in stack[i].left \/ (i # n /\ stack[i + 1].node = Target(f))
      BY <1>6, <2>3 DEF Decided, Settled, n, m
    <3>2. i \in 1 .. n /\ (i = n \/ i \in 1 .. n - 1) /\ i # n + 1
      BY <1>1
    <3>3. CASE f \in stack[i].left
      <4>1. f \in s[i].left
        BY <1>1, <1>3, <1>4, <2>3, <3>2, <3>3
      <4>. QED BY <1>4, <1>5, <3>1, <3>2, <4>1
    <3>4. CASE i # n /\ stack[i + 1].node = Target(f)
      <4>1. i + 1 \in 1 .. n
        BY <1>1, <3>2, <3>4
      <4>. QED BY <1>4, <1>5, <3>1, <3>2, <3>4, <4>1
    <3>. QED BY <3>1, <3>3, <3>4
  <2>. QED BY <2>1, <2>2, <2>3
<1>8. Acyclic(s, S, cycles)
  BY <1>6 DEF Decided, Acyclic
<1>. QED BY <1>7, <1>8 DEF Decided, s, v, m

(* The call returns: from its node no path leads back to it. *)
LEMMA PoppedDecided ==
  ASSUME Typed, stack # <<>>, Top.left = {}, Simple(stack), Within(stack, seen),
         Decided(stack, seen, cycles)
  PROVE  Decided(SubSeq(stack, 1, Len(stack) - 1), seen, cycles)
<1>. DEFINE n == Len(stack)
            t == Top.node
            s == SubSeq(stack, 1, n - 1)
<1>1. n \in Nat \ {0} /\ DOMAIN stack = 1 .. n /\ Top = stack[n] /\ t \in Nodes
      /\ stack[n].node = t /\ stack[n].left = {} /\ n \in DOMAIN stack
  BY TopCall
<1>2. DOMAIN s = 1 .. n - 1 /\ Len(s) = n - 1 /\ \A i \in 1 .. n - 1 : s[i] = stack[i]
  BY PoppedCalls
<1>. HIDE DEF n, s
<1>3. /\ 1 .. n - 1 \subseteq 1 .. n
      /\ \A i \in 1 .. n : i = n \/ i \in 1 .. n - 1
      /\ \A i \in 1 .. n - 1 : i # n /\ (i # n - 1 => i + 1 \in 1 .. n - 1) /\ i + 1 \in 1 .. n
      /\ n - 1 + 1 = n
  BY <1>1
<1>4. t \in seen /\ On(stack, t) /\ ~On(s, t) /\ \A m : On(stack, m) <=> On(s, m) \/ m = t
  <2>1. t \in seen /\ On(stack, t)
    BY <1>1 DEF Within, On
  <2>2. \A i \in 1 .. n - 1 : stack[i].node # t
    BY <1>1, <1>3 DEF Simple
  <2>3. ~On(s, t)
    BY <1>2, <2>2 DEF On
  <2>4. \A m : On(stack, m) <=> On(s, m) \/ m = t
    BY <1>1, <1>2, <1>3 DEF On
  <2>. QED BY <2>1, <2>3, <2>4
<1>. HIDE DEF t
<1>5. Settled(s, seen, cycles)
  <2>. SUFFICES ASSUME NEW f \in edges, Source(f) \in seen, Clean(cycles, Source(f)),
                       Reaches(Target(f), Source(f)),
                       ~(Target(f) \in seen /\ ~On(s, Target(f)))
                PROVE  \E i \in DOMAIN s :
                         /\ s[i].node = Source(f)
                         /\ f \in s[i].left \/ (i # Len(s) /\ s[i + 1].node = Target(f))
    BY DEF Settled
  <2>1. PICK i \in DOMAIN stack :
          /\ stack[i].node = Source(f)
          /\ f \in stack[i].left \/ (i # n /\ stack[i + 1].node = Target(f))
    BY <1>4 DEF Decided, Settled, n
  <2>2. i \in 1 .. n - 1 /\ s[i].node = Source(f)
    BY <1>1, <1>2, <1>3, <2>1
  <2>3. CASE f \in stack[i].left
    BY <1>2, <2>2, <2>3
  <2>4. CASE stack[i + 1].node = Target(f)
    <3>1. i # n - 1
      BY <1>1, <1>3, <1>4, <2>2, <2>4
    <3>2. i + 1 \in 1 .. n - 1 /\ s[i + 1].node = Target(f)
      BY <1>2, <1>3, <2>2, <2>4, <3>1
    <3>. QED BY <1>2, <2>2, <3>1, <3>2
  <2>. QED BY <2>1, <2>3, <2>4
<1>6. ASSUME Clean(cycles, t)
      PROVE  t \notin OnCycle
  <2>. DEFINE D == {z \in Nodes : z \in seen /\ ~On(stack, z) /\ Same(z, t)}
              C == D \cup {z \in Nodes : ~Reaches(z, t)}
  <2>1. ASSUME NEW e \in edges, Source(e) = t \/ Source(e) \in D, Reaches(Target(e), t)
        PROVE  Target(e) \in D
    <3>1. Target(e) \in Nodes /\ Source(e) \in Nodes
      BY EdgeEnds
    <3>2. Same(Source(e), t)
      BY <2>1, ReachesSelf DEF Same
    <3>3. Reaches(Target(e), Source(e)) /\ Same(Target(e), t)
      BY <2>1, <3>2, ReachesOn, ReachesEdge DEF Same
    <3>4. Source(e) \in seen /\ Clean(cycles, Source(e))
      BY <1>1, <1>4, <1>6, <2>1, <3>1, <3>2, SameClasses DEF Clean
    <3>5. ASSUME NEW i \in DOMAIN stack, stack[i].node = Source(e)
          PROVE  ~(e \in stack[i].left \/ (i # n /\ stack[i + 1].node = Target(e)))
      <4>1. Source(e) = t
        BY <2>1, <3>5 DEF On
      <4>2. i = n
        BY <1>1, <3>5, <4>1 DEF Simple
      <4>. QED BY <1>1, <4>2
    <3>6. Target(e) \in seen /\ ~On(stack, Target(e))
      BY <3>3, <3>4, <3>5 DEF Decided, Settled, n
    <3>. QED BY <3>1, <3>3, <3>6
  <2>2. Closed(C)
    <3>. SUFFICES ASSUME NEW e \in edges, Source(e) \in C
                  PROVE  Target(e) \in C
      BY DEF Closed
    <3>1. Target(e) \in Nodes /\ Reaches(Source(e), Target(e))
      BY EdgeEnds, ReachesEdge
    <3>2. CASE ~Reaches(Target(e), t)
      BY <3>1, <3>2
    <3>3. CASE Reaches(Target(e), t)
      <4>1. Reaches(Source(e), t)
        BY <3>1, <3>3, ReachesOn
      <4>2. Source(e) \in D
        BY <4>1
      <4>. QED BY <2>1, <3>3, <4>2
    <3>. QED BY <3>2, <3>3
  <2>3. C \in SUBSET Nodes /\ D \subseteq C
    OBVIOUS
  <2>4. t \notin C
    BY <1>4, ReachesSelf
  <2>5. SUFFICES ASSUME NEW m \in Nodes, Linked(t, m), Reaches(m, t)
                 PROVE  FALSE
    BY DEF OnCycle
  <2>6. m \in D
    <3>1. PICK e \in edges : Source(e) = t /\ Target(e) = m
      BY <2>5 DEF Linked
    <3>. HIDE DEF D
    <3>. QED BY <2>1, <2>5, <3>1
  <2>. HIDE DEF C, D
  <2>7. t \in C
    BY <2>2, <2>3, <2>5, <2>6, ClosedReaches
  <2>. QED BY <2>4, <2>7
<1>7. Acyclic(s, seen, cycles)
  <2>. SUFFICES ASSUME NEW m \in seen, ~On(s, m), Clean(cycles, m)
                PROVE  m \notin OnCycle
    BY DEF Acyclic
  <2>1. CASE m = t
    BY <1>6, <2>1
  <2>2. CASE m # t
    BY <1>4, <2>2 DEF Decided, Acyclic
  <2>. QED BY <2>1, <2>2
<1>. QED BY <1>5, <1>7 DEF Decided, s, n

(* The edge closes a cycle in the component of the node on top. *)
LEMMA LoopInComponent ==
  ASSUME Typed, phase # "collect", stack # <<>>, NEW e \in Top.left, Outgoing(stack),
         Chained(stack), NEW i \in DOMAIN stack, Path[i] = Target(e)
  PROVE  /\ Source(e) = Top.node /\ Source(e) \in OnCycle
         /\ NodesOf(Loop(i)) \subseteq StrongComponent(Source(e))
<1>. DEFINE n == Len(stack)
<1>1. n \in Nat \ {0} /\ DOMAIN stack = 1 .. n /\ Top = stack[n] /\ e \in edges
      /\ Source(e) = Top.node /\ n \in DOMAIN stack
  BY TopCall DEF Outgoing
<1>2. /\ Path \in Seq(Nodes) /\ Len(Path) = n
      /\ \A j \in 1 .. n : Path[j] = stack[j].node /\ Path[j] \in Nodes
  BY <1>1, PathNodes
<1>. HIDE DEF n
<1>3. \A j, k \in 1 .. n : j <= k => Reaches(Path[j], Path[k])
  BY <1>1, <1>2 DEF Chained
<1>4. Source(e) = Path[n] /\ Reaches(Source(e), Path[i]) /\ i \in 1 .. n
  BY <1>1, <1>2, ReachesEdge
<1>5. \A j \in 1 .. n : i <= j => Path[j] \in StrongComponent(Source(e))
  <2>. SUFFICES ASSUME NEW j \in 1 .. n, i <= j
                PROVE  Reaches(Source(e), Path[j]) /\ Reaches(Path[j], Source(e))
    BY <1>2 DEF StrongComponent
  <2>1. Reaches(Path[i], Path[j]) /\ Reaches(Path[j], Path[n])
    BY <1>1, <1>3, <1>4
  <2>. QED BY <1>4, <2>1, ReachesOn
<1>6. Source(e) \in OnCycle
  <2>1. Reaches(Target(e), Source(e))
    BY <1>1, <1>3, <1>4
  <2>2. Linked(Source(e), Target(e)) /\ Target(e) \in Nodes /\ Source(e) \in Nodes
    BY <1>1, EdgeEnds DEF Linked
  <2>. QED BY <2>1, <2>2 DEF OnCycle
<1>7. NodesOf(Loop(i)) \subseteq StrongComponent(Source(e))
  <2>1. DOMAIN Loop(i) = 1 .. n - i + 1 /\ \A j \in 1 .. n - i + 1 : Loop(i)[j] = Path[i + j - 1]
    BY <1>1, <1>2, <1>4 DEF Loop
  <2>2. \A j \in 1 .. n - i + 1 : i + j - 1 \in 1 .. n /\ i <= i + j - 1
    BY <1>1, <1>4
  <2>. QED BY <1>5, <2>1, <2>2 DEF NodesOf
<1>. QED BY <1>1, <1>6, <1>7

LEMMA WithCycleClean ==
  ASSUME SoundList(cycles), NEW c, NEW n
  PROVE  Clean(WithCycle(c), n) => Clean(cycles, n) /\ ~(NodesOf(c) \subseteq StrongComponent(n))
<1>1. Len(cycles) \in Nat /\ DOMAIN cycles = 1 .. Len(cycles)
  BY DEF SoundList
<1>2. CASE Listed(c)
  BY <1>2 DEF WithCycle, Listed, Clean
<1>3. CASE ~Listed(c)
  <2>. DEFINE m == Len(cycles)
              list == Append(cycles, c)
  <2>1. /\ DOMAIN list = 1 .. m + 1 /\ \A i \in 1 .. m : list[i] = cycles[i]
        /\ list[m + 1] = c
    BY <1>1 DEF SoundList
  <2>. HIDE DEF list, m
  <2>2. 1 .. m \subseteq 1 .. m + 1 /\ m + 1 \in 1 .. m + 1
    BY <1>1 DEF m
  <2>3. Clean(list, n) => Clean(cycles, n) /\ ~(NodesOf(c) \subseteq StrongComponent(n))
    BY <1>1, <2>1, <2>2 DEF Clean, m
  <2>. QED BY <1>3, <2>3 DEF WithCycle, list
<1>. QED BY <1>2, <1>3
-----------------------------------------------------------------------------
(* finish *)

(* A call opens at a node that is not finished. *)
LEMMA OneMoreOpen ==
  ASSUME NEW s, NEW t, NEW S, NEW fin, NEW n, Finishing(s, S, fin),
         \A m : On(t, m) <=> On(s, m) \/ m = n,
         n \notin NodesOf(fin)
  PROVE  Finishing(t, S \cup {n}, fin)
<1>1. ASSUME NEW u, NEW i \in DOMAIN s, Same(s[i].node, u)
      PROVE  \E j \in DOMAIN t : Same(t[j].node, u)
  <2>1. On(t, s[i].node)
    BY <1>1 DEF On
  <2>. QED BY <1>1, <2>1 DEF On
<1>2. \A u \in NodesOf(fin), r \in Nodes : Reaches(u, r) =>
        LaterSame(fin, u, r) \/ \E i \in DOMAIN t : Same(t[i].node, u)
  BY <1>1 DEF Finishing
<1>3. \A m : m \in S \cup {n} <=> m \in NodesOf(fin) \/ On(t, m)
  BY DEF Finishing
<1>4. \A m \in NodesOf(fin) : ~On(t, m)
  BY DEF Finishing
<1>. QED BY <1>2, <1>3, <1>4 DEF Finishing

LEMMA VisitedOn ==
  ASSUME Typed, stack # <<>>, NEW e
  PROVE  \A m : On(Visited(e), m) <=> On(stack, m)
BY VisitedStack DEF On

LEMMA DeeperOn ==
  ASSUME Typed, stack # <<>>, NEW e, NEW n \in Nodes
  PROVE  \A m : On(Append(Visited(e), Call(n)), m) <=> On(stack, m) \/ m = n
<1>. DEFINE s == Append(Visited(e), Call(n))
            k == Len(stack)
<1>1. /\ k \in Nat /\ DOMAIN stack = 1 .. k /\ Call(n).node = n
  BY TopCall DEF Call
<1>2. /\ DOMAIN s = 1 .. k + 1 /\ \A i \in 1 .. k : s[i].node = stack[i].node
      /\ s[k + 1].node = n
  BY <1>1, DeeperStack
<1>. HIDE DEF s, k
<1>3. /\ \A i \in 1 .. k + 1 : i \in 1 .. k \/ i = k + 1
      /\ 1 .. k \subseteq 1 .. k + 1 /\ k + 1 \in 1 .. k + 1
  BY <1>1
<1>4. \A m : On(s, m) <=> On(stack, m) \/ m = n
  BY <1>1, <1>2, <1>3 DEF On
<1>. QED BY <1>4 DEF s

LEMMA FirstOn ==
  ASSUME NEW n
  PROVE  \A m : On(<<Call(n)>>, m) <=> m = n
<1>. DEFINE c == Call(n)
            s == <<c>>
<1>1. c.node = n
  BY DEF Call
<1>. HIDE DEF c
<1>2. DOMAIN s = {1} /\ s[1] = c
  OBVIOUS
<1>. QED BY <1>1, <1>2 DEF On, c

LEMMA PoppedOn ==
  ASSUME Typed, stack # <<>>, Simple(stack)
  PROVE  LET popped == SubSeq(stack, 1, Len(stack) - 1) IN
         /\ \A m : On(stack, m) <=> On(popped, m) \/ m = Top.node
         /\ ~On(popped, Top.node)
<1>. DEFINE n == Len(stack)
            t == Top.node
            s == SubSeq(stack, 1, n - 1)
<1>1. n \in Nat \ {0} /\ DOMAIN stack = 1 .. n /\ stack[n].node = t /\ n \in DOMAIN stack
  BY TopCall
<1>2. DOMAIN s = 1 .. n - 1 /\ \A i \in 1 .. n - 1 : s[i] = stack[i]
  BY PoppedCalls
<1>. HIDE DEF n, s, t
<1>3. /\ 1 .. n - 1 \subseteq 1 .. n
      /\ \A i \in 1 .. n : i = n \/ i \in 1 .. n - 1
      /\ \A i \in 1 .. n - 1 : i # n
  BY <1>1
<1>4. \A m : On(stack, m) <=> On(s, m) \/ m = t
  BY <1>1, <1>2, <1>3 DEF On
<1>5. ~On(s, t)
  BY <1>1, <1>2, <1>3 DEF On, Simple
<1>. QED BY <1>4, <1>5 DEF s, t, n

(* A node finishes: unless a call below is in its component, all that it   *)
(* reaches is finished by now, and it is the last of its component.        *)
LEMMA PoppedFinishing ==
  ASSUME Typed, phase = "finish", stack # <<>>, Top.left = {}, Search(stack, seen),
         Finishing(stack, seen, finished)
  PROVE  Finishing(SubSeq(stack, 1, Len(stack) - 1), seen, Append(finished, Top.node))
<1>. DEFINE n == Len(stack)
            t == Top.node
            s == SubSeq(stack, 1, n - 1)
            fin == Append(finished, t)
            k == Len(finished)
<1>1. n \in Nat \ {0} /\ DOMAIN stack = 1 .. n /\ Top = stack[n] /\ t \in Nodes
      /\ stack[n].node = t /\ n \in DOMAIN stack
  BY TopCall
<1>2. /\ \A m : On(stack, m) <=> On(s, m) \/ m = t
      /\ ~On(s, t)
  BY PoppedOn DEF Search
<1>3. Search(s, seen)
  BY PoppedSearch
<1>4. k \in Nat /\ DOMAIN finished = 1 .. k /\ finished \in Seq(Nodes)
  BY DEF Typed
<1>5. /\ DOMAIN fin = 1 .. k + 1 /\ \A i \in 1 .. k : fin[i] = finished[i]
      /\ fin[k + 1] = t
  BY <1>1, <1>4
<1>6. DOMAIN s = 1 .. n - 1 /\ \A i \in 1 .. n - 1 : s[i] = stack[i]
  BY PoppedCalls
<1>. HIDE DEF n, t, s, fin, k
<1>7. /\ \A i \in 1 .. k + 1 : i \in 1 .. k \/ i = k + 1
      /\ 1 .. k \subseteq 1 .. k + 1 /\ k + 1 \in 1 .. k + 1
      /\ \A i \in 1 .. k + 1 : i <= k + 1
      /\ \A i \in 1 .. k : i # k + 1
  BY <1>4
<1>8. \A m : m \in NodesOf(fin) <=> m \in NodesOf(finished) \/ m = t
  BY <1>4, <1>5, <1>7 DEF NodesOf
<1>9. t \notin NodesOf(finished)
  BY <1>2 DEF Finishing
<1>10. Distinct(fin)
  <2>1. \A i \in 1 .. k : finished[i] # t
    BY <1>4, <1>9 DEF NodesOf
  <2>2. \A i, j \in 1 .. k : finished[i] = finished[j] => i = j
    BY <1>4 DEF Finishing, Distinct
  <2>. QED BY <1>5, <1>7, <2>1, <2>2 DEF Distinct
<1>11. \A m : m \in seen <=> m \in NodesOf(fin) \/ On(s, m)
  BY <1>2, <1>8 DEF Finishing
<1>12. \A m \in NodesOf(fin) : ~On(s, m)
  BY <1>2, <1>8 DEF Finishing
<1>13. \A u, r : LaterSame(finished, u, r) => LaterSame(fin, u, r)
  BY <1>4, <1>5, <1>7 DEF LaterSame
<1>14. ASSUME NEW u \in NodesOf(fin), NEW r \in Nodes, Reaches(u, r),
              \A i \in DOMAIN s : ~Same(s[i].node, u)
       PROVE  LaterSame(fin, u, r)
  <2>1. u \in Nodes
    <3>1. \A i \in DOMAIN finished : finished[i] \in Nodes
      BY <1>4
    <3>. QED BY <1>1, <1>8, <3>1 DEF NodesOf
  <2>2. CASE Same(t, u)
    <3>. DEFINE Z == {z \in Nodes : z \in NodesOf(fin) /\ Reaches(t, z)}
    <3>1. Closed(Z)
      <4>. SUFFICES ASSUME NEW e \in edges, Source(e) \in Z
                    PROVE  Target(e) \in Z
        BY DEF Closed
      <4>1. Target(e) \in Nodes /\ Reaches(t, Source(e)) /\ Reaches(t, Target(e))
        BY EdgeEnds, ReachesEdge, ReachesOn
      <4>2. ~ToVisit(s, e)
        BY <1>12 DEF ToVisit, Near, On
      <4>3. Target(e) \in seen
        <5>1. Source(e) \in seen
          BY <1>11
        <5>. QED BY <1>3, <4>2, <5>1 DEF Search, Followed, Near, Far
      <4>4. ASSUME NEW i \in DOMAIN s, s[i].node = Target(e)
            PROVE  FALSE
        <5>1. i \in 1 .. n /\ n \in 1 .. n /\ i <= n /\ stack[i].node = Target(e)
          BY <1>1, <1>6, <4>4
        <5>2. Reaches(Target(e), t)
          BY <1>1, <5>1 DEF Search, Chained
        <5>3. Same(s[i].node, u)
          BY <2>2, <4>1, <4>4, <5>2, SameOn DEF Same
        <5>. QED BY <1>14, <5>3
      <4>5. Target(e) \in NodesOf(fin)
        BY <1>11, <4>3, <4>4 DEF On
      <4>. QED BY <4>1, <4>5
    <3>2. t \in Z /\ Z \in SUBSET Nodes
      BY <1>1, <1>8, ReachesSelf
    <3>3. Reaches(t, r)
      BY <1>14, <2>2, ReachesOn DEF Same
    <3>. HIDE DEF Z
    <3>4. r \in Z
      BY <3>1, <3>2, <3>3, ClosedReaches
    <3>5. r \in NodesOf(fin)
      BY <3>4 DEF Z
    <3>6. PICK p \in 1 .. k + 1 : fin[p] = r
      BY <1>5, <3>5 DEF NodesOf
    <3>. QED BY <1>5, <1>7, <2>2, <3>6 DEF LaterSame
  <2>3. CASE ~Same(t, u)
    <3>1. u \in NodesOf(finished)
      BY <1>8, <2>3, ReachesSelf DEF Same
    <3>2. \A i \in DOMAIN stack : ~Same(stack[i].node, u)
      <4>. TAKE i \in DOMAIN stack
      <4>1. i = n \/ i \in 1 .. n - 1
        BY <1>1
      <4>. QED BY <1>1, <1>6, <1>14, <2>3, <4>1
    <3>3. LaterSame(finished, u, r)
      BY <1>14, <3>1, <3>2 DEF Finishing
    <3>. QED BY <1>13, <3>3
  <2>. QED BY <2>2, <2>3
<1>. QED BY <1>10, <1>11, <1>12, <1>14 DEF Finishing, s, fin, t, n

(* Everything is finished: in every component, one node is last. *)
LEMMA AllFinished ==
  ASSUME Typed, stack = <<>>, Finishing(stack, Nodes, finished)
  PROVE  Ordered(finished)
<1>1. DOMAIN stack = {}
  OBVIOUS
<1>2. NodesOf(finished) = Nodes
  BY <1>1 DEF Finishing, On
<1>. QED BY <1>1, <1>2 DEF Finishing, Ordered

-----------------------------------------------------------------------------
(* collect *)

(* The root is the last finished node that is not in a component yet. *)
LEMMA FirstCollecting ==
  ASSUME Typed, phase = "collect", stack = <<>>, NEW n \in Nodes, NextRoot(n),
         Ordered(finished), Collecting(stack, seen, components, finished)
  PROVE  Collecting(<<Call(n)>>, seen \cup {n}, components \cup {{n}}, finished)
<1>. DEFINE c == Call(n)
            s == <<c>>
            comps == components \cup {{n}}
<1>1. c.node = n
  BY DEF Call
<1>. HIDE DEF c
<1>2. DOMAIN s = {1} /\ s[1] = c /\ s # <<>>
  OBVIOUS
<1>. HIDE DEF s
<1>3. /\ n \notin seen /\ seen = UNION components /\ \A d \in components : Component(d)
  BY DEF NextRoot, Collecting
<1>4. seen \cup {n} = UNION comps
  BY <1>3
<1>5. \A d \in comps \ {{n}} : d \in components /\ Component(d) /\ n \notin d
  BY <1>3
<1>6. ASSUME NEW p \in DOMAIN finished, NEW q \in DOMAIN finished, finished[p] = n, p < q
      PROVE  \E d \in comps \ {{n}} : finished[q] \in d
  <2>1. PICK i \in DOMAIN finished :
          finished[i] = n /\ \A j \in i + 1 .. Len(finished) : finished[j] \in seen
    BY DEF NextRoot
  <2>2. i = p
    BY <1>6, <2>1 DEF Ordered, Distinct
  <2>3. DOMAIN finished = 1 .. Len(finished) /\ Len(finished) \in Nat
    BY DEF Typed
  <2>4. q \in i + 1 .. Len(finished)
    BY <1>6, <2>2, <2>3
  <2>5. PICK d \in components : finished[q] \in d
    BY <1>3, <2>1, <2>4
  <2>6. d # {n}
    BY <1>3
  <2>. QED BY <2>5, <2>6
<1>7. Current(s, comps, finished, {n})
  <2>1. Within(s, {n}) /\ s[1].node = n /\ \A m \in {n} : Same(m, n)
    BY <1>1, <1>2, ReachesSelf DEF Within, Same
  <2>2. {n} \in comps
    OBVIOUS
  <2>. HIDE DEF comps
  <2>. QED BY <1>5, <1>6, <2>1, <2>2 DEF Current
<1>. HIDE DEF comps
<1>8. {n} \in comps
  BY DEF comps
<1>. QED BY <1>2, <1>4, <1>7, <1>8 DEF Collecting, s, c, comps

(* A step on the stack above the root. *)
LEMMA SameCollecting ==
  ASSUME NEW s, NEW t, NEW S, NEW comps, NEW fin, s # <<>>, t # <<>>,
         t[1].node = s[1].node, \A c : Within(s, c) => Within(t, c),
         Collecting(s, S, comps, fin)
  PROVE  Collecting(t, S, comps, fin)
BY DEF Collecting, Current

(* An edge of a component that leads out of what is collected: its source  *)
(* is in the component, or a later node of its own would be in another.    *)
LEMMA DeeperCollecting ==
  ASSUME Typed, phase = "collect", stack # <<>>, NEW e \in Top.left, Source(e) \notin seen,
         Search(stack, seen), Ordered(finished),
         Collecting(stack, seen, components, finished)
  PROVE  Collecting(Append(Visited(e), Call(Source(e))), seen \cup {Source(e)},
                    {IF Top.node \in c THEN c \cup {Source(e)} ELSE c : c \in components},
                    finished)
<1>. DEFINE n == Len(stack)
            w == Source(e)
            s == Append(Visited(e), Call(w))
            root == stack[1].node
            grown(c) == IF Top.node \in c THEN c \cup {w} ELSE c
            comps == {grown(c) : c \in components}
<1>1. /\ n \in Nat \ {0} /\ DOMAIN stack = 1 .. n /\ Top = stack[n] /\ e \in edges
      /\ 1 \in 1 .. n /\ n \in 1 .. n /\ 1 <= n
  BY TopCall
<1>2. w \in Nodes /\ root \in Nodes /\ Target(e) = Top.node
  <2>1. stack \in Seq(Calls)
    BY DEF Typed, Calls
  <2>2. stack[1] \in Calls
    BY <1>1, <2>1
  <2>. QED BY <1>1, <2>2, EdgeEnds DEF Search, Aligned, Near, Calls
<1>3. Call(w).node = w
  BY DEF Call
<1>4. /\ DOMAIN s = 1 .. n + 1 /\ \A i \in 1 .. n : s[i].node = stack[i].node
      /\ s[n + 1].node = w /\ Len(s) = n + 1
  BY <1>2, <1>3, DeeperStack
<1>5. PICK c \in components : Current(stack, components, finished, c)
  BY DEF Collecting
<1>6. seen = UNION components
  BY DEF Collecting
<1>. HIDE DEF n, w, s, root
<1>7. s # <<>> /\ s[1].node = root
  <2>1. Len(s) # 0
    BY <1>1, <1>4
  <2>. QED BY <1>1, <1>4, <2>1 DEF root
<1>8. Top.node \in c /\ \A d \in components \ {c} : Component(d) /\ root \notin d /\ Top.node \notin d
  <2>1. Top.node \in c /\ Same(Top.node, root)
    BY <1>1, <1>5 DEF Current, Within, root
  <2>2. ASSUME NEW d \in components \ {c}
        PROVE  Component(d) /\ root \notin d /\ Top.node \notin d
    <3>1. Component(d) /\ root \notin d
      BY <1>5 DEF Current, root
    <3>2. PICK k \in Nodes : d = StrongComponent(k)
      BY <3>1 DEF Component
    <3>3. Top.node \in Nodes
      BY TopCall
    <3>. QED BY <1>2, <2>1, <3>1, <3>2, <3>3, SameClasses
  <2>. QED BY <2>1, <2>2
<1>9. Reaches(w, root)
  <2>1. Reaches(w, Top.node)
    BY <1>1, <1>2, ReachesEdge DEF w
  <2>2. Reaches(Top.node, root)
    BY <1>1 DEF Search, Chained, root
  <2>. QED BY <2>1, <2>2, ReachesOn
<1>10. Same(w, root)
  <2>1. PICK p \in DOMAIN finished, q \in DOMAIN finished :
          finished[p] = root /\ p <= q /\ Same(finished[q], w)
    BY <1>2, <1>9 DEF Ordered, LaterSame
  <2>2. p \in Nat /\ q \in Nat
    BY DEF Typed
  <2>3. CASE p = q
    BY <2>1, <2>3 DEF Same
  <2>4. CASE p < q
    <3>1. PICK d \in components \ {c} : finished[q] \in d
      BY <1>5, <2>1, <2>4 DEF Current, root
    <3>2. PICK k \in Nodes : d = StrongComponent(k)
      BY <1>8 DEF Component
    <3>3. finished[q] \in Nodes
      BY DEF Typed
    <3>4. w \in d
      <4>1. Same(finished[q], k) /\ Same(w, finished[q])
        BY <1>2, <2>1, <3>1, <3>2, <3>3, SameClasses
      <4>2. Same(w, k)
        BY <4>1, SameOn
      <4>. QED BY <1>2, <3>2, <4>2, SameClasses
    <3>. QED BY <1>6, <3>4 DEF w
  <2>. QED BY <2>1, <2>2, <2>3, <2>4
<1>11. comps = (components \ {c}) \cup {c \cup {w}}
  BY <1>8
<1>. HIDE DEF comps
<1>12. seen \cup {w} = UNION comps
  BY <1>6, <1>11
<1>13. \A d \in comps \ {c \cup {w}} : d \in components \ {c}
  BY <1>11
<1>14. \A d \in components \ {c} : d \in comps \ {c \cup {w}}
  <2>1. \A d \in components \ {c} : d # c \cup {w}
    BY <1>8
  <2>. QED BY <1>11, <2>1
<1>15. Current(s, comps, finished, c \cup {w})
  <2>1. Within(s, c \cup {w})
    <3>1. \A i \in 1 .. n : s[i].node \in c
      BY <1>1, <1>4, <1>5 DEF Current, Within
    <3>2. \A i \in 1 .. n + 1 : i \in 1 .. n \/ i = n + 1
      BY <1>1
    <3>. QED BY <1>4, <3>1, <3>2 DEF Within
  <2>2. \A m \in c \cup {w} : Same(m, root)
    BY <1>5, <1>10 DEF Current, root
  <2>3. \A d \in comps \ {c \cup {w}} : Component(d) /\ root \notin d
    BY <1>8, <1>13
  <2>4. ASSUME NEW p \in DOMAIN finished, NEW q \in DOMAIN finished, finished[p] = root, p < q
        PROVE  \E d \in comps \ {c \cup {w}} : finished[q] \in d
    BY <1>5, <1>14, <2>4 DEF Current, root
  <2>5. c \cup {w} \in comps
    BY <1>11
  <2>. QED BY <1>7, <2>1, <2>2, <2>3, <2>4, <2>5 DEF Current
<1>16. c \cup {w} \in comps
  BY <1>11
<1>17. Collecting(s, seen \cup {w}, comps, finished)
  BY <1>7, <1>12, <1>15, <1>16 DEF Collecting
<1>. QED BY <1>17 DEF s, w, comps

(* The root is done: nothing outside what is seen leads into it, so its    *)
(* component is complete.                                                  *)
LEMMA PoppedCollecting ==
  ASSUME Typed, phase = "collect", stack # <<>>, Top.left = {}, Search(stack, seen),
         Collecting(stack, seen, components, finished)
  PROVE  Collecting(SubSeq(stack, 1, Len(stack) - 1), seen, components, finished)
<1>. DEFINE n == Len(stack)
            s == SubSeq(stack, 1, n - 1)
            root == stack[1].node
<1>1. n \in Nat \ {0} /\ DOMAIN stack = 1 .. n /\ 1 \in 1 .. n
  BY TopCall
<1>2. DOMAIN s = 1 .. n - 1 /\ Len(s) = n - 1 /\ \A i \in 1 .. n - 1 : s[i] = stack[i]
  BY PoppedCalls
<1>3. Search(s, seen)
  BY PoppedSearch
<1>. HIDE DEF n, s
<1>4. PICK c \in components : Current(stack, components, finished, c)
  BY DEF Collecting
<1>5. CASE n = 1
  <2>1. DOMAIN s = {}
    BY <1>2, <1>5
  <2>2. s = <<>>
    <3>1. Len(s) = 0
      BY <1>2, <1>5
    <3>2. s \in Seq(Calls)
      BY PoppedStack DEF s, n
    <3>. QED BY <3>1, <3>2
  <2>3. root \in c /\ root \in Nodes /\ c \subseteq Nodes /\ seen = UNION components
    <3>1. root \in c /\ c \subseteq Nodes
      BY <1>1, <1>4 DEF Current, Within, Typed
    <3>. QED BY <3>1 DEF Collecting
  <2>4. StrongComponent(root) \subseteq c
    <3>. DEFINE C == Nodes \ seen
    <3>1. Closed(C)
      <4>. SUFFICES ASSUME NEW e \in edges, Source(e) \in C
                    PROVE  Target(e) \in C
        BY DEF Closed
      <4>1. Target(e) \in Nodes
        BY EdgeEnds
      <4>2. ~ToVisit(s, e)
        BY <2>1 DEF ToVisit
      <4>. QED BY <1>3, <4>1, <4>2 DEF Search, Followed, Near, Far
    <3>2. SUFFICES ASSUME NEW w \in StrongComponent(root)
                   PROVE  w \in c
      OBVIOUS
    <3>3. w \in Nodes /\ Reaches(w, root) /\ Same(w, root)
      BY DEF StrongComponent, Same
    <3>4. w \in seen
      <4>1. root \notin C /\ C \in SUBSET Nodes
        BY <2>3
      <4>. HIDE DEF C
      <4>2. w \notin C
        BY <3>1, <3>3, <4>1, ClosedReaches
      <4>. QED BY <3>3, <4>2 DEF C
    <3>5. PICK d \in components : w \in d
      BY <2>3, <3>4
    <3>6. CASE d # c
      <4>1. Component(d) /\ root \notin d
        BY <1>4, <3>6 DEF Current
      <4>2. PICK k \in Nodes : d = StrongComponent(k)
        BY <4>1 DEF Component
      <4>. QED BY <2>3, <3>3, <3>5, <4>1, <4>2, SameClasses
    <3>. QED BY <3>5, <3>6
  <2>5. c \subseteq StrongComponent(root)
    BY <1>4, <2>3 DEF Current, StrongComponent, Same
  <2>6. \A d \in components : Component(d)
    <3>1. Component(c)
      <4>1. c = StrongComponent(root)
        BY <2>4, <2>5
      <4>. QED BY <2>3, <4>1 DEF Component
    <3>2. \A d \in components \ {c} : Component(d)
      BY <1>4 DEF Current
    <3>. QED BY <3>1, <3>2
  <2>. QED BY <2>2, <2>3, <2>6 DEF Collecting, s, n
<1>6. CASE n # 1
  <2>1. 1 \in 1 .. n - 1 /\ s # <<>>
    <3>1. Len(s) # 0 /\ 1 \in 1 .. n - 1
      BY <1>1, <1>2, <1>6
    <3>. QED BY <3>1
  <2>2. s[1].node = stack[1].node
    BY <1>2, <2>1
  <2>3. \A d : Within(stack, d) => Within(s, d)
    BY PoppedStack DEF s, n
  <2>4. Collecting(s, seen, components, finished)
    BY <2>1, <2>2, <2>3, SameCollecting
  <2>. QED BY <2>4 DEF s, n
<1>. QED BY <1>5, <1>6

LEMMA AllCollected ==
  ASSUME Typed, stack = <<>>, Collecting(stack, Nodes, components, finished)
  PROVE  Collected(components)
<1>1. Nodes = UNION components /\ \A c \in components : Component(c)
  BY DEF Collecting
<1>2. ASSUME NEW n \in Nodes
      PROVE  StrongComponent(n) \in components
  <2>1. PICK c \in components : n \in c
    BY <1>1
  <2>2. PICK k \in Nodes : c = StrongComponent(k)
    BY <1>1 DEF Component
  <2>3. StrongComponent(n) = c
    BY <2>1, <2>2, SameClasses
  <2>. QED BY <2>3
<1>. QED BY <1>1, <1>2 DEF Component, Collected
-----------------------------------------------------------------------------
(* The invariant, action by action. *)

LEMMA ExactTyped ==
  ASSUME ExactInv
  PROVE  IInv /\ Typed /\ SoundList(cycles)
BY SoundState DEF ExactInv

LEMMA InitExact == Init => ExactInv
<1>. SUFFICES ASSUME Init PROVE ExactInv
  OBVIOUS
<1>1. IInv
  BY InitInv
<1>2. /\ stack = <<>> /\ seen = {} /\ finished = <<>> /\ components = {}
      /\ cycles = <<>> /\ ~cyclic /\ phase \in {"has_cycle", "back_edges"}
  BY DEF Init
<1>3. Search(stack, seen)
  BY <1>2, EmptySearch
<1>4. Decided(stack, seen, cycles)
  BY <1>2 DEF Decided, Settled, Acyclic
<1>. QED BY <1>1, <1>2, <1>3, <1>4 DEF ExactInv

LEMMA BeginExact ==
  ASSUME ExactInv, NEW n \in Nodes, Begin(n)
  PROVE  ExactInv'
<1>1. /\ Typed /\ Sweeping /\ stack = <<>> /\ NextRoot(n) /\ n \notin seen
      /\ stack' = <<Call(n)>> /\ seen' = seen \cup {n}
      /\ edges' = edges /\ phase' = phase /\ finished' = finished /\ cyclic' = cyclic
      /\ cycles' = cycles
      /\ components' = IF phase = "collect" THEN components \cup {{n}} ELSE components
  BY ExactTyped DEF Begin, NextRoot
<1>2. IInv'
  BY ExactTyped, BeginInv
<1>3. Search(stack', seen')
  <2>1. Followed(stack, seen)
    BY <1>1 DEF ExactInv, Search
  <2>. QED BY <1>1, <2>1, FirstSearch
<1>4. phase \in {"has_cycle", "back_edges"} => Decided(stack', seen', cycles')
  BY <1>1, FirstDecided DEF ExactInv
<1>5. phase = "finish" => Finishing(stack', seen', finished')
  <2>1. \A m : On(<<Call(n)>>, m) <=> On(stack, m) \/ m = n
    <3>1. \A m : ~On(stack, m)
      BY <1>1 DEF On
    <3>. QED BY <3>1, FirstOn
  <2>2. phase = "finish" => n \notin NodesOf(finished) /\ Finishing(stack, seen, finished)
    BY <1>1 DEF ExactInv, Finishing
  <2>. QED BY <1>1, <2>1, <2>2, OneMoreOpen
<1>6. phase = "collect" => Collecting(stack', seen', components', finished')
  BY <1>1, FirstCollecting DEF ExactInv
<1>. QED BY <1>1, <1>2, <1>3, <1>4, <1>5, <1>6, NewExact DEF ExactInv, Sweeping

LEMMA DescendExact ==
  ASSUME ExactInv, NEW e \in edges, Descend(e)
  PROVE  ExactInv'
<1>1. /\ Typed /\ IInv /\ Sweeping /\ stack # <<>> /\ e \in Top.left /\ Far(e) \notin seen
      /\ stack' = Append(Visited(e), Call(Far(e))) /\ seen' = seen \cup {Far(e)}
      /\ edges' = edges /\ phase' = phase /\ finished' = finished /\ cyclic' = cyclic
      /\ cycles' = cycles /\ Search(stack, seen) /\ Within(stack, seen)
  BY ExactTyped DEF Descend, ExactInv, IInv
<1>2. IInv'
  BY ExactTyped, DescendInv
<1>3. Search(stack', seen')
  BY <1>1, DeeperSearch
<1>4. phase \in {"has_cycle", "back_edges"} => Decided(stack', seen', cycles')
  <2>. SUFFICES ASSUME phase \in {"has_cycle", "back_edges"}
                PROVE  Decided(stack', seen', cycles')
    OBVIOUS
  <2>1. Far(e) = Target(e) /\ phase # "collect" /\ Outgoing(stack)
    BY <1>1 DEF Far, IInv
  <2>. QED BY <1>1, <2>1, DeeperDecided DEF ExactInv
<1>5. phase = "finish" => Finishing(stack', seen', finished')
  <2>1. Far(e) \in Nodes
    BY <1>1, EdgeEnds
  <2>2. \A m : On(stack', m) <=> On(stack, m) \/ m = Far(e)
    BY <1>1, <2>1, DeeperOn
  <2>3. phase = "finish" => Far(e) \notin NodesOf(finished) /\ Finishing(stack, seen, finished)
    BY <1>1 DEF ExactInv, Finishing
  <2>. QED BY <1>1, <2>2, <2>3, OneMoreOpen
<1>6. phase = "collect" => Collecting(stack', seen', components', finished')
  <2>. SUFFICES ASSUME phase = "collect"
                PROVE  Collecting(stack', seen', components', finished')
    OBVIOUS
  <2>1. /\ Far(e) = Source(e)
        /\ components' = {IF Top.node \in c THEN c \cup {Far(e)} ELSE c : c \in components}
    BY DEF Far, Descend
  <2>. QED BY <1>1, <2>1, DeeperCollecting DEF ExactInv
<1>7. phase # "collect" => components' = components
  BY DEF Descend
<1>. QED BY <1>1, <1>2, <1>3, <1>4, <1>5, <1>6, <1>7, NewExact DEF ExactInv, Sweeping

LEMMA MeetOpenExact ==
  ASSUME ExactInv, NEW e \in edges, MeetOpen(e)
  PROVE  ExactInv'
<1>1. /\ Typed /\ IInv /\ SoundList(cycles) /\ Sweeping /\ stack # <<>> /\ e \in Top.left
      /\ phase \in {"has_cycle", "back_edges"} /\ phase # "collect"
      /\ edges' = edges /\ finished' = finished /\ components' = components
      /\ Outgoing(stack) /\ Search(stack, seen)
  BY ExactTyped DEF MeetOpen, ExactInv, IInv, Sweeping
<1>2. IInv'
  BY ExactTyped, MeetOpenInv
<1>3. PICK i \in DOMAIN stack :
        /\ Path[i] = Target(e)
        /\ IF phase = "has_cycle"
           THEN cyclic' = TRUE /\ phase' = "finish" /\ stack' = <<>> /\ seen' = {}
                /\ cycles' = cycles
           ELSE cycles' = WithCycle(Loop(i)) /\ stack' = Visited(e)
                /\ cyclic' = cyclic /\ phase' = phase /\ seen' = seen
  BY DEF MeetOpen
<1>4. Source(e) \in OnCycle /\ NodesOf(Loop(i)) \subseteq StrongComponent(Source(e))
  BY <1>1, <1>3, LoopInComponent DEF Search
<1>5. CASE phase = "has_cycle"
  <2>1. /\ cyclic' = TRUE /\ phase' = "finish" /\ stack' = <<>> /\ seen' = {}
        /\ cycles' = <<>> /\ components' = {} /\ finished' = <<>>
    BY <1>1, <1>3, <1>5 DEF ExactInv
  <2>2. Answered(cyclic')
    BY <1>4, <2>1 DEF Answered
  <2>3. Finishing(stack', seen', finished')
    <3>1. DOMAIN stack' = {} /\ DOMAIN finished' = {}
      BY <2>1
    <3>. QED BY <2>1, <3>1 DEF Finishing, On, NodesOf, Distinct
  <2>. QED BY <1>1, <1>2, <2>1, <2>2, <2>3, NewExact
<1>6. CASE phase = "back_edges"
  <2>1. /\ cycles' = WithCycle(Loop(i)) /\ stack' = Visited(e) /\ phase' = phase
        /\ seen' = seen
    BY <1>3, <1>6
  <2>2. \A n : Clean(cycles', n) =>
                 Clean(cycles, n) /\ ~(NodesOf(Loop(i)) \subseteq StrongComponent(n))
    BY <1>1, <2>1, WithCycleClean
  <2>3. Decided(stack, seen, cycles)
    BY <1>6 DEF ExactInv
  <2>4. Decided(Visited(e), seen, cycles')
    <3>1. ~Clean(cycles', Source(e)) /\ \A n : Clean(cycles', n) => Clean(cycles, n)
      BY <1>4, <2>2
    <3>. QED BY <1>1, <2>3, <3>1, VisitedDecided
  <2>5. Search(Visited(e), seen)
    <3>1. Far(e) = Target(e) /\ Far(e) \in seen
      <4>1. stack[i].node = Target(e)
        BY <1>1, <1>3, PathNodes
      <4>. QED BY <1>1, <1>3, <4>1 DEF Far, IInv, Within
    <3>. QED BY <1>1, <3>1, VisitedSearch
  <2>. QED BY <1>1, <1>2, <1>6, <2>1, <2>4, <2>5, NewExact DEF ExactInv
<1>. QED BY <1>1, <1>5, <1>6

LEMMA MeetSeenExact ==
  ASSUME ExactInv, NEW e \in edges, MeetSeen(e)
  PROVE  ExactInv'
<1>1. /\ Typed /\ IInv /\ Sweeping /\ stack # <<>> /\ e \in Top.left /\ Far(e) \in seen
      /\ stack' = Visited(e) /\ seen' = seen
      /\ edges' = edges /\ phase' = phase /\ finished' = finished /\ cyclic' = cyclic
      /\ cycles' = cycles /\ components' = components /\ Search(stack, seen)
  BY ExactTyped DEF MeetSeen, ExactInv, IInv
<1>2. IInv'
  BY ExactTyped, MeetSeenInv
<1>3. Search(stack', seen')
  BY <1>1, VisitedSearch
<1>4. phase \in {"has_cycle", "back_edges"} => Decided(stack', seen', cycles')
  <2>. SUFFICES ASSUME phase \in {"has_cycle", "back_edges"}
                PROVE  Decided(stack', seen', cycles')
    OBVIOUS
  <2>1. Target(e) \in seen /\ Outgoing(stack)
    BY <1>1 DEF Far, IInv
  <2>2. ~On(stack, Target(e))
    <3>1. Target(e) \notin NodesOf(Path)
      BY DEF MeetSeen
    <3>. QED BY <1>1, <3>1, PathNodes DEF NodesOf, On
  <2>3. \A n : Clean(cycles, n) => Clean(cycles, n)
    OBVIOUS
  <2>. QED BY <1>1, <2>1, <2>2, <2>3, VisitedDecided DEF ExactInv
<1>5. phase = "finish" => Finishing(stack', seen', finished')
  <2>. SUFFICES ASSUME phase = "finish"
                PROVE  Finishing(stack', seen', finished')
    OBVIOUS
  <2>1. Finishing(stack, seen, finished)
    BY DEF ExactInv
  <2>2. \A m : On(Visited(e), m) <=> On(stack, m)
    BY <1>1, VisitedOn
  <2>3. \A u, j : j \in DOMAIN stack /\ Same(stack[j].node, u) =>
                    \E i \in DOMAIN Visited(e) : Same(Visited(e)[i].node, u)
    BY <1>1, VisitedStack
  <2>. QED BY <1>1, <2>1, <2>2, <2>3 DEF Finishing
<1>6. phase = "collect" => Collecting(stack', seen', components', finished')
  <2>1. Visited(e) # <<>> /\ Visited(e)[1].node = stack[1].node
    <3>1. Len(stack) \in Nat \ {0} /\ 1 \in DOMAIN stack /\ Len(Visited(e)) = Len(stack)
      BY <1>1, TopCall, VisitedStack
    <3>2. Visited(e) # <<>>
      BY <3>1
    <3>. QED BY <1>1, <3>1, <3>2, VisitedStack
  <2>2. \A c : Within(stack, c) => Within(Visited(e), c)
    BY <1>1, VisitedWalk
  <2>. QED BY <1>1, <2>1, <2>2, SameCollecting DEF ExactInv
<1>. QED BY <1>1, <1>2, <1>3, <1>4, <1>5, <1>6, NewExact DEF ExactInv, Sweeping

(* What happens to the list of cycles, or in the enumeration, changes      *)
(* nothing of this.                                                        *)
LEMMA EnumerateExact ==
  ASSUME ExactInv, IInv', edges' = edges, phase = "enumerate",
         phase' \in {"enumerate", "analyzed"}, finished' = finished,
         components' = components, cyclic' = cyclic
  PROVE  ExactInv'
<1>1. ~Sweeping'
  BY DEF Sweeping
<1>. QED BY <1>1, NewExact DEF ExactInv

LEMMA ReturnExact ==
  ASSUME ExactInv, Return
  PROVE  ExactInv'
<1>. DEFINE popped == SubSeq(stack, 1, Len(stack) - 1)
<1>1. /\ Typed /\ IInv /\ stack # <<>> /\ Top.left = {} /\ stack' = popped
      /\ seen' = seen /\ edges' = edges /\ phase' = phase /\ cyclic' = cyclic
      /\ cycles' = cycles /\ components' = components
      /\ finished' = IF phase = "finish" THEN Append(finished, Top.node) ELSE finished
  BY ExactTyped DEF Return
<1>2. IInv'
  BY ExactTyped, ReturnInv
<1>3. CASE Sweeping
  <2>1. Search(stack, seen) /\ Within(stack, seen)
    BY <1>3 DEF ExactInv, IInv
  <2>2. Search(popped, seen)
    BY <1>1, <2>1, PoppedSearch
  <2>3. phase \in {"has_cycle", "back_edges"} => Decided(popped, seen, cycles)
    BY <1>1, <2>1, PoppedDecided DEF ExactInv, Search
  <2>4. phase = "finish" => Finishing(popped, seen, Append(finished, Top.node))
    BY <1>1, <2>1, PoppedFinishing DEF ExactInv
  <2>5. phase = "collect" => Collecting(popped, seen, components, finished)
    BY <1>1, <2>1, PoppedCollecting DEF ExactInv
  <2>. HIDE DEF popped
  <2>. QED BY <1>1, <1>2, <1>3, <2>2, <2>3, <2>4, <2>5, NewExact DEF ExactInv, Sweeping
<1>4. CASE ~Sweeping
  <2>1. ~Sweeping'
    BY <1>1, <1>4 DEF Sweeping
  <2>. HIDE DEF popped
  <2>. QED BY <1>1, <1>2, <1>4, <2>1, NewExact DEF ExactInv, Sweeping
<1>. QED BY <1>3, <1>4

LEMMA EndSweepExact ==
  ASSUME ExactInv, EndSweep
  PROVE  ExactInv'
<1>1. /\ Typed /\ SoundList(cycles) /\ stack = <<>> /\ seen = Nodes /\ stack' = <<>> /\ seen' = {}
      /\ edges' = edges /\ finished' = finished /\ components' = components
      /\ cyclic' = cyclic /\ cycles' = cycles
  BY ExactTyped DEF EndSweep
<1>2. IInv'
  BY ExactTyped, EndSweepInv
<1>3. \A n : ~On(stack, n)
  <2>1. DOMAIN stack = {}
    BY <1>1
  <2>. QED BY <2>1 DEF On
<1>4. DOMAIN stack' = {}
  BY <1>1
<1>5. CASE phase = "has_cycle"
  <2>1. phase' = "finish" /\ cycles' = <<>> /\ finished' = <<>> /\ components' = {} /\ ~cyclic'
    BY <1>1, <1>5 DEF EndSweep, ExactInv
  <2>2. OnCycle = {}
    <3>1. \A n : Clean(cycles, n)
      <4>1. DOMAIN cycles = {}
        BY <1>1, <2>1
      <4>. QED BY <4>1 DEF Clean
    <3>. QED BY <1>1, <1>3, <1>5, <3>1 DEF ExactInv, Decided, Acyclic, OnCycle
  <2>3. Answered(cyclic')
    BY <2>1, <2>2 DEF Answered
  <2>4. Finishing(stack', seen', finished')
    <3>1. DOMAIN finished' = {}
      BY <2>1
    <3>. QED BY <1>1, <1>4, <2>1, <3>1 DEF Finishing, On, NodesOf, Distinct
  <2>. QED BY <1>1, <1>2, <2>1, <2>3, <2>4, NewExact
<1>6. CASE phase = "finish"
  <2>1. phase' = "collect" /\ cycles' = <<>> /\ components' = {} /\ Answered(cyclic')
    BY <1>1, <1>6 DEF EndSweep, ExactInv
  <2>2. Ordered(finished')
    BY <1>1, <1>6, AllFinished DEF ExactInv
  <2>3. Collecting(stack', seen', components', finished')
    BY <1>1, <2>1 DEF Collecting
  <2>. QED BY <1>1, <1>2, <2>1, <2>2, <2>3, NewExact
<1>7. CASE phase = "collect"
  <2>1. phase' = "enumerate" /\ ~Sweeping' /\ Answered(cyclic') /\ Ordered(finished')
    BY <1>1, <1>7 DEF EndSweep, ExactInv, Sweeping
  <2>2. Collected(components')
    BY <1>1, <1>7, AllCollected DEF ExactInv
  <2>. QED BY <1>1, <1>2, <2>1, <2>2, NewExact
<1>8. CASE phase = "back_edges"
  <2>1. phase' = "built" /\ ~Sweeping'
    BY <1>8 DEF EndSweep, Sweeping
  <2>2. Unearthed(cycles')
    BY <1>1, <1>3, <1>8 DEF ExactInv, Decided, Acyclic, Unearthed, OnCycle
  <2>. QED BY <1>1, <1>2, <2>1, <2>2, NewExact
<1>. QED BY <1>5, <1>6, <1>7, <1>8 DEF EndSweep, Sweeping

LEMMA NextExact == ExactInv /\ [Next]_vars => ExactInv'
<1>. SUFFICES ASSUME ExactInv, [Next]_vars PROVE ExactInv'
  OBVIOUS
<1>1. IInv /\ IInv'
  BY ExactTyped, NextInv
<1>2. ASSUME NEW n \in Nodes, Begin(n) PROVE ExactInv'
  BY <1>2, BeginExact
<1>3. ASSUME NEW n \in Nodes, BeginAt(n) PROVE ExactInv'
  BY <1>1, <1>3, EnumerateExact DEF BeginAt
<1>4. ASSUME NEW e \in edges, Descend(e) \/ MeetOpen(e) \/ MeetSeen(e) PROVE ExactInv'
  BY <1>4, DescendExact, MeetOpenExact, MeetSeenExact
<1>5. ASSUME NEW e \in edges, Close(e) \/ Extend(e) PROVE ExactInv'
  BY <1>1, <1>5, EnumerateExact DEF Close, Extend
<1>6. CASE Return
  BY <1>6, ReturnExact
<1>7. CASE EndSweep
  BY <1>7, EndSweepExact
<1>8. CASE BreakOff \/ Analyzed
  BY <1>1, <1>8, EnumerateExact DEF BreakOff, Analyzed
<1>9. CASE UNCHANGED vars
  BY <1>1, <1>9, NewExact DEF vars, ExactInv, Sweeping
<1>. QED BY <1>2, <1>3, <1>4, <1>5, <1>6, <1>7, <1>8, <1>9 DEF Next

(* A component of two nodes, or an edge of a node to itself. *)
LEMMA CandidatesOnCycle ==
  ASSUME Typed, NodesOf(finished) = Nodes, Collected(components)
  PROVE  Candidates = OnCycle
<1>1. IsFiniteSet(Nodes)
  <2>1. Len(finished) \in Nat /\ DOMAIN finished = 1 .. Len(finished)
    BY DEF Typed
  <2>2. IsFiniteSet(1 .. Len(finished))
    <3>1. 1 \in Int /\ Len(finished) \in Int
      BY <2>1
    <3>. QED BY <3>1, FS_Interval
  <2>3. finished \in Surjection(1 .. Len(finished), Nodes)
    <3>1. finished \in [1 .. Len(finished) -> Nodes]
      BY <2>1 DEF Typed
    <3>. QED BY <2>1, <3>1 DEF Surjection, NodesOf
  <2>. QED BY <2>2, <2>3, FS_Surjection
<1>2. ASSUME NEW n \in Nodes, NEW m \in StrongComponent(n), m # n
      PROVE  n \in OnCycle /\ n \in Candidates
  <2>1. m \in Nodes /\ Reaches(n, m) /\ Reaches(m, n)
    BY DEF StrongComponent
  <2>2. PICK k \in Nodes : Linked(n, k) /\ Reaches(k, m)
    BY <1>2, <2>1, FirstStep
  <2>3. n \in OnCycle
    BY <2>1, <2>2, ReachesOn DEF OnCycle
  <2>4. /\ StrongComponent(n) \in components /\ n \in StrongComponent(n)
        /\ StrongComponent(n) \subseteq Nodes
    BY SameClasses DEF Collected, StrongComponent
  <2>5. Cardinality(StrongComponent(n)) > 1
    <3>1. {n, m} \subseteq StrongComponent(n) /\ IsFiniteSet(StrongComponent(n))
      BY <1>1, <2>4, FS_Subset
    <3>2. Cardinality({n, m}) <= Cardinality(StrongComponent(n))
      BY <3>1, FS_Subset
    <3>3. Cardinality({n, m}) = 2
      <4>1. IsFiniteSet({n}) /\ Cardinality({n}) = 1
        BY FS_Singleton
      <4>2. Cardinality({n} \cup {m}) = Cardinality({n}) + 1
        BY <1>2, <4>1, FS_AddElement
      <4>3. {n} \cup {m} = {n, m}
        OBVIOUS
      <4>. QED BY <4>1, <4>2, <4>3
    <3>4. Cardinality(StrongComponent(n)) \in Nat
      BY <3>1, FS_CardinalityType
    <3>. QED BY <3>2, <3>3, <3>4
  <2>6. n \in Candidates
    BY <2>4, <2>5 DEF Candidates
  <2>. QED BY <2>3, <2>6
<1>3. ASSUME NEW n \in Candidates
      PROVE  n \in OnCycle
  <2>1. CASE \E e \in edges : Source(e) = n /\ Target(e) = n
    <3>1. n \in Nodes /\ Linked(n, n) /\ Reaches(n, n)
      BY <2>1, EdgeEnds, ReachesSelf DEF Linked
    <3>. QED BY <3>1 DEF OnCycle
  <2>2. CASE \E c \in components : Cardinality(c) > 1 /\ n \in c
    <3>1. PICK k \in Nodes : n \in StrongComponent(k) /\ Cardinality(StrongComponent(k)) > 1
      BY <2>2 DEF Collected
    <3>2. n \in Nodes /\ StrongComponent(n) = StrongComponent(k)
      BY <3>1, SameClasses DEF StrongComponent
    <3>3. StrongComponent(n) # {n}
      BY <3>1, <3>2, FS_Singleton
    <3>4. PICK m \in StrongComponent(n) : m # n
      BY <3>2, <3>3, SameClasses
    <3>. QED BY <1>2, <3>2, <3>4
  <2>. QED BY <2>1, <2>2 DEF Candidates
<1>4. ASSUME NEW n \in OnCycle
      PROVE  n \in Candidates
  <2>1. PICK m \in Nodes : Linked(n, m) /\ Reaches(m, n)
    BY DEF OnCycle
  <2>2. n \in Nodes /\ Reaches(n, m)
    BY <2>1, ReachesLinked DEF OnCycle
  <2>3. CASE m = n
    <3>1. \E e \in edges : Source(e) = n /\ Target(e) = n
      BY <2>1, <2>3 DEF Linked
    <3>. QED BY <2>2, <3>1 DEF Candidates
  <2>4. CASE m # n
    <3>1. m \in StrongComponent(n)
      BY <2>1, <2>2 DEF StrongComponent
    <3>. QED BY <1>2, <2>2, <2>4, <3>1
  <2>. QED BY <2>3, <2>4
<1>. QED BY <1>3, <1>4

(* ComponentsExact: the two passes find the classes of nodes that reach    *)
(* one another, _has_cycle answers as they do, and _find_all_cycles sets   *)
(* out from exactly the nodes that a cycle visits.                         *)
THEOREM ComponentsAreClasses == Spec => []ComponentsExact
<1>1. ExactInv => ComponentsExact
  <2>. SUFFICES ASSUME ExactInv, phase \in {"enumerate", "analyzed"}
                PROVE  /\ components = {StrongComponent(n) : n \in Nodes}
                       /\ cyclic <=> OnCycle # {}
                       /\ Candidates = OnCycle
    BY DEF ComponentsExact
  <2>1. Typed /\ Ordered(finished) /\ Collected(components) /\ Answered(cyclic)
    BY ExactTyped DEF ExactInv
  <2>. QED BY <2>1, CandidatesOnCycle DEF Ordered, Collected, Answered
<1>. QED BY <1>1, InitExact, NextExact, PTL DEF Spec
-----------------------------------------------------------------------------
(* CyclesListed.  While a search from some start is open, a cycle through  *)
(* that start that is not listed yet has its beginning on the stack, as    *)
(* far as some call whose loop still has the edge that goes on with it.    *)

ShortCycle(s) == s \in Seq(Nodes) /\ IsCycle(s) /\ Len(s) <= MaxCycleSize
Onward(s, k) == IF k = Len(s) THEN s[1] ELSE s[k + 1]
Follows(t, s, k) == k <= Len(s) /\ \A i \in 1 .. k : s[i] = t[i].node

Pending(t, s) ==
  \E k \in DOMAIN t : Follows(t, s, k) /\ \E e \in t[k].left : Target(e) = Onward(s, k)

(* Of the cycles that do not begin at one of the nodes of S. *)
Covered(t, S, list) ==
  \A s \in Seq(Nodes) : ShortCycle(s) /\ s[1] \notin S =>
    Pending(t, s) \/ \E i \in DOMAIN list : NodesOf(list[i]) = NodesOf(s)

AllShort(list) == \A i \in DOMAIN list : Len(list[i]) <= MaxCycleSize

Capped(t, list, left) ==
  limit # None =>
    /\ Len(list) <= limit
    /\ t # <<>> => Len(list) + left <= limit /\ (list = <<>> => left > 0)

Enumerating ==
  /\ limit = None \/ cycles = <<>> => Covered(stack, starts, cycles)
  /\ Len(stack) <= MaxCycleSize
  /\ AllShort(cycles)
  /\ Capped(stack, cycles, room)

ListingInv ==
  /\ ExactInv
  /\ phase \in {"enumerate", "analyzed"} => Enumerating
  /\ phase = "analyzed" => stack = <<>> /\ (starts = {} \/ Full)

(* What a step has to establish. *)
LEMMA NewListing ==
  ASSUME edges' = edges, limit' = limit, ExactInv',
         phase' \in {"enumerate", "analyzed"} =>
           /\ limit = None \/ cycles' = <<>> => Covered(stack', starts', cycles')
           /\ Len(stack') <= MaxCycleSize
           /\ AllShort(cycles')
           /\ Capped(stack', cycles', room'),
         phase' = "analyzed" => stack' = <<>> /\ (starts' = {} \/ Full')
  PROVE  ListingInv'
<1>1. \A s : IsCycle(s)' <=> IsCycle(s)
  BY DEF IsCycle, Linked, Distinct
<1>2. Covered(stack', starts', cycles') => Covered(stack, starts, cycles)'
  BY <1>1 DEF Covered, ShortCycle, Pending, Follows
<1>3. Capped(stack', cycles', room') => Capped(stack, cycles, room)'
  BY DEF Capped
<1>4. phase' \in {"enumerate", "analyzed"} => Enumerating'
  BY <1>2, <1>3 DEF Enumerating, AllShort
<1>. QED BY <1>4 DEF ListingInv

LEMMA NextNumber ==
  ASSUME NEW k \in Nat, NEW l \in Nat, k <= l, k # l
  PROVE  k + 1 <= l
OBVIOUS

LEMMA FirstPending ==
  ASSUME Typed, phase # "collect", NEW s \in Seq(Nodes), IsCycle(s), NEW n \in Nodes, s[1] = n
  PROVE  Pending(<<Call(n)>>, s)
<1>. DEFINE c == Call(n)
            t == <<c>>
<1>1. c.node = n /\ \A e \in edges : Source(e) = n => e \in c.left
  BY DEF Call, Leaving
<1>. HIDE DEF c
<1>2. DOMAIN t = {1} /\ t[1] = c
  OBVIOUS
<1>. HIDE DEF t
<1>3. Len(s) \in Nat \ {0} /\ 1 .. 1 = {1}
  BY DEF IsCycle
<1>4. Follows(t, s, 1)
  BY <1>1, <1>2, <1>3 DEF Follows
<1>5. Linked(s[1], Onward(s, 1))
  <2>1. CASE Len(s) = 1
    BY <2>1 DEF Onward, IsCycle
  <2>2. CASE Len(s) # 1
    <3>1. Len(s) \in Nat /\ 1 <= Len(s)
      BY <1>3
    <3>2. 1 + 1 <= Len(s)
      BY <2>2, <3>1, NextNumber
    <3>3. 1 \in 1 .. Len(s) - 1
      BY <3>1, <3>2
    <3>. QED BY <2>2, <3>3 DEF Onward, IsCycle
  <2>. QED BY <2>1, <2>2
<1>6. \E e \in t[1].left : Target(e) = Onward(s, 1)
  BY <1>1, <1>2, <1>5 DEF Linked
<1>. QED BY <1>2, <1>4, <1>6 DEF Pending, t, c

(* The edge taken is the one that goes on with a cycle, or it stays *)
(* pending.                                                         *)
LEMMA VisitedPending ==
  ASSUME Typed, stack # <<>>, NEW e \in Top.left, NEW s, Pending(stack, s)
  PROVE  Pending(Visited(e), s)
         \/ (Follows(stack, s, Len(stack)) /\ Target(e) = Onward(s, Len(stack)))
<1>. DEFINE n == Len(stack)
            v == Visited(e)
<1>1. n \in Nat \ {0} /\ DOMAIN stack = 1 .. n /\ Top = stack[n]
  BY TopCall
<1>2. /\ DOMAIN v = DOMAIN stack
      /\ \A i \in DOMAIN stack : v[i].node = stack[i].node
      /\ v[n].left = Top.left \ {e}
      /\ \A i \in 1 .. n - 1 : v[i] = stack[i]
  BY VisitedStack, VisitedLeft
<1>. HIDE DEF n, v
<1>3. PICK k \in DOMAIN stack :
        Follows(stack, s, k) /\ \E f \in stack[k].left : Target(f) = Onward(s, k)
  BY DEF Pending
<1>4. PICK f \in stack[k].left : Follows(stack, s, k) /\ Target(f) = Onward(s, k)
  BY <1>3
<1>5. Follows(v, s, k)
  <2>1. \A i \in 1 .. k : i \in 1 .. n
    BY <1>1
  <2>. QED BY <1>1, <1>2, <1>4, <2>1 DEF Follows
<1>6. k = n \/ k \in 1 .. n - 1
  BY <1>1
<1>7. CASE f \in v[k].left
  BY <1>2, <1>4, <1>5, <1>7 DEF Pending, v
<1>8. CASE f \notin v[k].left
  <2>1. k = n /\ f = e
    BY <1>1, <1>2, <1>4, <1>6, <1>8
  <2>. QED BY <1>4, <2>1 DEF n
<1>. QED BY <1>7, <1>8

LEMMA DeeperPending ==
  ASSUME Typed, phase # "collect", stack # <<>>, NEW e, NEW m \in Nodes, NEW s \in Seq(Nodes),
         \/ Pending(Visited(e), s)
         \/ /\ IsCycle(s) /\ Follows(stack, s, Len(stack))
            /\ Len(stack) # Len(s) /\ s[Len(stack) + 1] = m
  PROVE  Pending(Append(Visited(e), Call(m)), s)
<1>. DEFINE n == Len(stack)
            v == Visited(e)
            t == Append(v, Call(m))
<1>1. n \in Nat \ {0} /\ DOMAIN stack = 1 .. n /\ DOMAIN v = 1 .. n
      /\ \A i \in 1 .. n : v[i].node = stack[i].node
  BY TopCall, VisitedStack
<1>2. Call(m).node = m /\ \A f \in edges : Source(f) = m => f \in Call(m).left
  BY DEF Call, Leaving
<1>3. /\ DOMAIN t = 1 .. n + 1
      /\ \A i \in 1 .. n : t[i] = v[i]
      /\ t[n + 1] = Call(m)
  BY DeeperStack
<1>. HIDE DEF n, v, t
<1>4. /\ \A i \in 1 .. n + 1 : i \in 1 .. n \/ i = n + 1
      /\ 1 .. n \subseteq 1 .. n + 1 /\ n + 1 \in 1 .. n + 1
      /\ \A k \in 1 .. n : \A i \in 1 .. k : i \in 1 .. n
  BY <1>1
<1>5. CASE Pending(v, s)
  <2>1. PICK k \in 1 .. n :
          Follows(v, s, k) /\ \E f \in v[k].left : Target(f) = Onward(s, k)
    BY <1>1, <1>5 DEF Pending
  <2>2. PICK f \in v[k].left : Follows(v, s, k) /\ Target(f) = Onward(s, k)
    BY <2>1
  <2>3. Follows(t, s, k) /\ f \in t[k].left /\ k \in DOMAIN t
    BY <1>3, <1>4, <2>2 DEF Follows
  <2>. QED BY <2>2, <2>3 DEF Pending, t, v
<1>6. CASE IsCycle(s) /\ Follows(stack, s, n) /\ n # Len(s) /\ s[n + 1] = m
  <2>1. Len(s) \in Nat /\ n + 1 <= Len(s)
    BY <1>1, <1>6 DEF Follows
  <2>2. Follows(t, s, n + 1)
    <3>1. \A i \in 1 .. n : s[i] = t[i].node
      BY <1>1, <1>3, <1>6 DEF Follows
    <3>. QED BY <1>2, <1>3, <1>4, <1>6, <2>1, <3>1 DEF Follows
  <2>3. Linked(m, Onward(s, n + 1))
    <3>1. CASE n + 1 = Len(s)
      <4>1. Linked(s[Len(s)], s[1])
        BY <1>6 DEF IsCycle
      <4>. QED BY <1>6, <3>1, <4>1 DEF Onward
    <3>2. CASE n + 1 # Len(s)
      <4>1. n + 1 \in 1 .. Len(s) - 1
        BY <1>1, <2>1, <3>2
      <4>2. Linked(s[n + 1], s[(n + 1) + 1])
        BY <1>6, <4>1 DEF IsCycle
      <4>. QED BY <1>6, <3>2, <4>2 DEF Onward
    <3>. QED BY <3>1, <3>2
  <2>4. \E f \in t[n + 1].left : Target(f) = Onward(s, n + 1)
    BY <1>2, <1>3, <2>3 DEF Linked
  <2>5. n + 1 \in DOMAIN t
    BY <1>3, <1>4
  <2>. QED BY <2>2, <2>4, <2>5 DEF Pending, t, v
<1>. QED BY <1>5, <1>6 DEF n, v

LEMMA PoppedPending ==
  ASSUME Typed, stack # <<>>, Top.left = {}, NEW s, Pending(stack, s)
  PROVE  Pending(SubSeq(stack, 1, Len(stack) - 1), s)
<1>. DEFINE n == Len(stack)
            t == SubSeq(stack, 1, n - 1)
<1>1. n \in Nat \ {0} /\ DOMAIN stack = 1 .. n /\ Top = stack[n]
  BY TopCall
<1>2. DOMAIN t = 1 .. n - 1 /\ \A i \in 1 .. n - 1 : t[i] = stack[i]
  BY PoppedCalls
<1>. HIDE DEF n, t
<1>3. PICK k \in DOMAIN stack :
        Follows(stack, s, k) /\ \E f \in stack[k].left : Target(f) = Onward(s, k)
  BY DEF Pending
<1>4. PICK f \in stack[k].left : Follows(stack, s, k) /\ Target(f) = Onward(s, k)
  BY <1>3
<1>5. k \in 1 .. n - 1
  <2>1. k # n
    BY <1>1, <1>4
  <2>. QED BY <1>1, <2>1
<1>6. \A i \in 1 .. k : i \in 1 .. n - 1
  BY <1>1, <1>5
<1>7. Follows(t, s, k)
  BY <1>2, <1>4, <1>5, <1>6 DEF Follows
<1>. QED BY <1>2, <1>4, <1>5, <1>7 DEF Pending, t, n

-----------------------------------------------------------------------------
(* Action by action. *)

LEMMA BeginAtListing ==
  ASSUME ListingInv, NEW n \in Nodes, BeginAt(n), ExactInv'
  PROVE  ListingInv'
<1>1. /\ Typed /\ phase = "enumerate" /\ stack = <<>> /\ n \in starts /\ ~Full
      /\ starts' = starts \ {n} /\ stack' = <<Call(n)>> /\ edges' = edges /\ limit' = limit
      /\ phase' = phase /\ cycles' = cycles /\ Enumerating
      /\ room' = IF limit = None THEN 0 ELSE limit - Len(cycles)
  BY ExactTyped DEF ListingInv, BeginAt
<1>2. ASSUME Covered(stack, starts, cycles)
      PROVE  Covered(stack', starts', cycles')
  <2>. SUFFICES ASSUME NEW s \in Seq(Nodes), ShortCycle(s), s[1] \notin starts',
                       \A i \in DOMAIN cycles : NodesOf(cycles[i]) # NodesOf(s)
                PROVE  Pending(stack', s)
    BY <1>1 DEF Covered
  <2>1. ~Pending(stack, s)
    BY <1>1 DEF Pending
  <2>2. s[1] = n
    BY <1>1, <1>2, <2>1 DEF Covered
  <2>. QED BY <1>1, <2>2, FirstPending DEF ShortCycle
<1>3. Len(stack') <= MaxCycleSize
  BY <1>1, SizeAssumption
<1>4. Capped(stack', cycles', room')
  <2>1. limit # None => limit \in Nat /\ Len(cycles) \in Nat /\ Len(cycles) < limit
    BY <1>1, LimitsAssumption DEF Typed, Full
  <2>. QED BY <1>1, <2>1 DEF Capped
<1>. QED BY <1>1, <1>2, <1>3, <1>4, NewListing DEF Enumerating

(* The path is listed, and no other cycle goes on along this edge. *)
LEMMA CloseListing ==
  ASSUME ListingInv, NEW e \in edges, Close(e), ExactInv'
  PROVE  ListingInv'
<1>1. /\ Typed /\ SoundList(cycles) /\ phase = "enumerate" /\ stack # <<>> /\ e \in Top.left
      /\ ~Exhausted /\ Target(e) = Path[1]
      /\ starts' = starts /\ stack' = Visited(e) /\ edges' = edges /\ limit' = limit
      /\ phase' = phase /\ cycles' = WithCycle(Path) /\ Enumerating
      /\ room' = IF limit = None THEN 0 ELSE room - 1
  BY ExactTyped DEF ListingInv, Close
<1>. DEFINE n == Len(stack)
<1>2. /\ n \in Nat \ {0} /\ DOMAIN stack = 1 .. n /\ Len(Path) = n /\ DOMAIN Path = 1 .. n
      /\ \A i \in 1 .. n : Path[i] = stack[i].node
      /\ Len(cycles) \in Nat /\ DOMAIN cycles = 1 .. Len(cycles)
      /\ Path \in Seq(Nodes)
  BY <1>1, TopCall, PathNodes DEF Typed
<1>3. /\ cycles' # <<>>
      /\ \E i \in DOMAIN cycles' : NodesOf(cycles'[i]) = NodesOf(Path)
      /\ \A i \in DOMAIN cycles : i \in DOMAIN cycles' /\ cycles'[i] = cycles[i]
      /\ \A i \in DOMAIN cycles' : i \in DOMAIN cycles \/ cycles'[i] = Path
      /\ Len(cycles') <= Len(cycles) + 1
  <2>1. CASE Listed(Path)
    <3>1. cycles' = cycles
      BY <1>1, <2>1 DEF WithCycle
    <3>2. PICK i \in DOMAIN cycles : NodesOf(cycles[i]) = NodesOf(Path)
      BY <2>1 DEF Listed
    <3>. QED BY <1>2, <3>1, <3>2
  <2>2. CASE ~Listed(Path)
    <3>. DEFINE p == Path
                list == Append(cycles, p)
                k == Len(cycles)
    <3>1. cycles' = list
      BY <1>1, <2>2 DEF WithCycle
    <3>. HIDE DEF p
    <3>2. /\ DOMAIN list = 1 .. k + 1 /\ Len(list) = k + 1
          /\ \A i \in 1 .. k : list[i] = cycles[i]
          /\ list[k + 1] = p
      BY <1>1, <1>2 DEF SoundList
    <3>. HIDE DEF list, k
    <3>3. /\ k \in Nat /\ k + 1 \in 1 .. k + 1 /\ 1 .. k \subseteq 1 .. k + 1
          /\ \A i \in 1 .. k + 1 : i \in 1 .. k \/ i = k + 1
      BY <1>2 DEF k
    <3>4. list # <<>>
      <4>1. Len(list) # 0
        BY <3>2, <3>3
      <4>. QED BY <4>1
    <3>5. DOMAIN cycles = 1 .. k
      BY <1>2 DEF k
    <3>6. /\ \E i \in DOMAIN list : NodesOf(list[i]) = NodesOf(p)
          /\ \A i \in DOMAIN cycles : i \in DOMAIN list /\ list[i] = cycles[i]
          /\ \A i \in DOMAIN list : i \in DOMAIN cycles \/ list[i] = p
          /\ Len(list) <= k + 1
      BY <3>2, <3>3, <3>5
    <3>. QED BY <3>1, <3>4, <3>6 DEF p, k
  <2>. QED BY <2>1, <2>2
<1>. HIDE DEF n
<1>4. ASSUME Covered(stack, starts, cycles)
      PROVE  Covered(stack', starts', cycles')
  <2>. SUFFICES ASSUME NEW s \in Seq(Nodes), ShortCycle(s), s[1] \notin starts,
                       \A i \in DOMAIN cycles' : NodesOf(cycles'[i]) # NodesOf(s)
                PROVE  Pending(Visited(e), s)
    BY <1>1 DEF Covered
  <2>1. Pending(stack, s)
    BY <1>3, <1>4 DEF Covered
  <2>2. SUFFICES ASSUME Follows(stack, s, n), Target(e) = Onward(s, n)
                 PROVE  FALSE
    BY <1>1, <2>1, VisitedPending DEF n
  <2>3. /\ Len(s) \in Nat /\ n <= Len(s) /\ DOMAIN s = 1 .. Len(s)
        /\ \A i \in 1 .. n : s[i] = Path[i]
    BY <1>2, <2>2 DEF Follows
  <2>4. CASE n = Len(s)
    <3>1. NodesOf(s) = NodesOf(Path)
      BY <1>2, <2>3, <2>4 DEF NodesOf
    <3>. QED BY <1>3, <3>1
  <2>5. CASE n # Len(s)
    <3>1. n \in Nat /\ n >= 1 /\ Len(s) \in Nat /\ n <= Len(s)
      BY <1>2, <2>3
    <3>2. n \in Nat /\ n >= 1 /\ Len(s) \in Nat /\ n + 1 <= Len(s)
      BY <2>5, <3>1, NextNumber
    <3>3. 1 \in 1 .. Len(s) /\ n + 1 \in 1 .. Len(s) /\ n + 1 # 1 /\ 1 \in 1 .. n
      BY <3>2
    <3>4. 1 \in DOMAIN s /\ n + 1 \in DOMAIN s /\ n + 1 # 1 /\ 1 \in 1 .. n
      BY <2>3, <3>3
    <3>5. s[n + 1] = s[1]
      BY <1>1, <2>2, <2>3, <2>5, <3>4 DEF Onward
    <3>. QED BY <3>4, <3>5 DEF ShortCycle, IsCycle, Distinct
  <2>. QED BY <2>4, <2>5
<1>5. limit = None \/ cycles' = <<>> => Covered(stack', starts', cycles')
  BY <1>1, <1>3, <1>4 DEF Enumerating
<1>6. Len(stack') <= MaxCycleSize
  BY <1>1, VisitedStack DEF Enumerating
<1>7. AllShort(cycles')
  BY <1>1, <1>2, <1>3 DEF Enumerating, AllShort, n
<1>8. Capped(stack', cycles', room')
  <2>. SUFFICES ASSUME limit # None
                PROVE  Len(cycles') <= limit /\ Len(cycles') + room' <= limit
    BY <1>3 DEF Capped
  <2>1. room \in Nat \ {0} /\ limit \in Nat /\ room' = room - 1
    BY <1>1, LimitsAssumption DEF Typed, Exhausted
  <2>2. Len(cycles) + room <= limit
    BY <1>1 DEF Enumerating, Capped
  <2>3. Len(cycles') \in Nat
    BY ExactTyped DEF ExactInv, IInv, CyclesSound, Typed
  <2>. QED BY <1>2, <1>3, <2>1, <2>2, <2>3
<1>. QED BY <1>1, <1>5, <1>6, <1>7, <1>8, NewListing

(* A cycle that goes on along this edge, over a node that the path does    *)
(* not have, is short enough to go on.                                     *)
LEMMA ExtendListing ==
  ASSUME ListingInv, NEW e \in edges, Extend(e), ExactInv'
  PROVE  ListingInv'
<1>1. /\ Typed /\ phase = "enumerate" /\ stack # <<>> /\ e \in Top.left
      /\ Target(e) # Path[1]
      /\ stack' = IF Target(e) \in NodesOf(Path) \/ TooLong
                  THEN Visited(e)
                  ELSE Append(Visited(e), Call(Target(e)))
      /\ starts' = starts /\ edges' = edges /\ limit' = limit
      /\ phase' = phase /\ cycles' = cycles /\ room' = room /\ Enumerating
  BY ExactTyped DEF ListingInv, Extend
<1>. DEFINE n == Len(stack)
<1>2. /\ n \in Nat \ {0} /\ DOMAIN stack = 1 .. n /\ DOMAIN Path = 1 .. n
      /\ \A i \in 1 .. n : Path[i] = stack[i].node
      /\ Target(e) \in Nodes /\ MaxCycleSize \in Nat
  BY <1>1, TopCall, PathNodes, EdgeEnds, SizeAssumption
<1>. HIDE DEF n
<1>3. ASSUME NEW s \in Seq(Nodes), ShortCycle(s), Follows(stack, s, n), Target(e) = Onward(s, n)
      PROVE  n # Len(s) /\ s[n + 1] = Target(e) /\ Target(e) \notin NodesOf(Path) /\ ~TooLong
  <2>1. /\ Len(s) \in Nat /\ n <= Len(s) /\ Len(s) <= MaxCycleSize /\ DOMAIN s = 1 .. Len(s)
        /\ \A i \in 1 .. n : s[i] = Path[i]
    BY <1>2, <1>3 DEF Follows, ShortCycle
  <2>2. n # Len(s)
    <3>1. 1 \in 1 .. n
      BY <1>2
    <3>. QED BY <1>1, <1>3, <2>1, <3>1 DEF Onward
  <2>3. s[n + 1] = Target(e)
    BY <1>3, <2>2 DEF Onward
  <2>4. n \in Nat /\ n >= 1 /\ Len(s) \in Nat /\ n <= Len(s)
    BY <1>2, <2>1
  <2>5. n \in Nat /\ n >= 1 /\ Len(s) \in Nat /\ n + 1 <= Len(s)
    BY <2>2, <2>4, NextNumber
  <2>6. n + 1 \in 1 .. Len(s) /\ \A i \in 1 .. n : i \in 1 .. Len(s) /\ i # n + 1
    BY <2>5
  <2>7. ~(n >= MaxCycleSize)
    BY <1>2, <2>1, <2>5
  <2>8. n + 1 \in DOMAIN s /\ ~TooLong /\ \A i \in 1 .. n : i \in DOMAIN s /\ i # n + 1
    BY <2>1, <2>6, <2>7 DEF TooLong, n
  <2>9. \A i \in 1 .. n : s[i] # Target(e)
    BY <1>3, <2>3, <2>8 DEF ShortCycle, IsCycle, Distinct
  <2>. QED BY <1>2, <2>1, <2>2, <2>3, <2>8, <2>9 DEF NodesOf
<1>4. ASSUME Covered(stack, starts, cycles)
      PROVE  Covered(stack', starts', cycles')
  <2>. SUFFICES ASSUME NEW s \in Seq(Nodes), ShortCycle(s), s[1] \notin starts,
                       \A i \in DOMAIN cycles : NodesOf(cycles[i]) # NodesOf(s)
                PROVE  Pending(stack', s)
    BY <1>1 DEF Covered
  <2>1. Pending(stack, s)
    BY <1>4 DEF Covered
  <2>2. \/ Pending(Visited(e), s)
        \/ Follows(stack, s, n) /\ Target(e) = Onward(s, n)
    BY <1>1, <2>1, VisitedPending DEF n
  <2>3. CASE Target(e) \in NodesOf(Path) \/ TooLong
    BY <1>1, <1>3, <2>2, <2>3
  <2>4. CASE ~(Target(e) \in NodesOf(Path) \/ TooLong)
    <3>1. Pending(Append(Visited(e), Call(Target(e))), s)
      <4>1. CASE Pending(Visited(e), s)
        BY <1>1, <1>2, <4>1, DeeperPending
      <4>2. CASE Follows(stack, s, n) /\ Target(e) = Onward(s, n)
        <5>1. IsCycle(s) /\ n # Len(s) /\ s[n + 1] = Target(e)
          BY <1>3, <4>2 DEF ShortCycle
        <5>. QED BY <1>1, <1>2, <4>2, <5>1, DeeperPending DEF n
      <4>. QED BY <2>2, <4>1, <4>2
    <3>. QED BY <1>1, <2>4, <3>1
  <2>. QED BY <2>3, <2>4
<1>5. Len(stack') <= MaxCycleSize
  <2>1. CASE Target(e) \in NodesOf(Path) \/ TooLong
    BY <1>1, <2>1, VisitedStack DEF Enumerating
  <2>2. CASE ~(Target(e) \in NodesOf(Path) \/ TooLong)
    <3>1. Len(Append(Visited(e), Call(Target(e)))) = n + 1
      BY <1>1, <1>2, DeeperStack DEF n
    <3>2. n + 1 <= MaxCycleSize
      BY <1>2, <2>2 DEF TooLong, n
    <3>. QED BY <1>1, <2>2, <3>1, <3>2
  <2>. QED BY <2>1, <2>2
<1>6. Capped(stack', cycles', room')
  BY <1>1 DEF Enumerating, Capped
<1>. QED BY <1>1, <1>4, <1>5, <1>6, NewListing DEF Enumerating

LEMMA ReturnListing ==
  ASSUME ListingInv, Return, ExactInv'
  PROVE  ListingInv'
<1>. DEFINE popped == SubSeq(stack, 1, Len(stack) - 1)
<1>1. /\ Typed /\ stack # <<>> /\ Top.left = {} /\ stack' = popped
      /\ starts' = starts /\ edges' = edges /\ limit' = limit /\ phase' = phase
      /\ cycles' = cycles /\ room' = room
      /\ phase \in {"enumerate", "analyzed"} => Enumerating
  BY ExactTyped DEF ListingInv, Return
<1>2. Covered(stack, starts, cycles) => Covered(popped, starts, cycles)
  BY <1>1, PoppedPending DEF Covered
<1>3. Enumerating => Len(popped) <= MaxCycleSize
  BY <1>1, TopCall, PoppedCalls, SizeAssumption DEF Enumerating
<1>. HIDE DEF popped
<1>4. Capped(stack, cycles, room) => Capped(popped, cycles, room)
  BY <1>1 DEF Capped
<1>5. phase # "analyzed"
  BY <1>1 DEF ListingInv
<1>. QED BY <1>1, <1>2, <1>3, <1>4, <1>5, NewListing DEF Enumerating

(* Nothing is listed yet, and no search has begun: all the cycles begin at *)
(* one of the starts.                                                      *)
LEMMA EndSweepListing ==
  ASSUME ListingInv, EndSweep, ExactInv'
  PROVE  ListingInv'
<1>1. /\ Typed /\ stack = <<>> /\ seen = Nodes /\ stack' = <<>> /\ edges' = edges
      /\ limit' = limit /\ cycles' = cycles /\ phase' # "analyzed"
      /\ phase' = "enumerate" => phase = "collect"
      /\ starts' = IF phase = "collect" /\ cyclic THEN Candidates ELSE {}
  BY ExactTyped DEF ListingInv, EndSweep, Sweeping
<1>2. CASE phase = "collect"
  <2>1. cycles = <<>> /\ Ordered(finished) /\ Answered(cyclic) /\ Collected(components)
    BY <1>1, <1>2, AllCollected DEF ListingInv, ExactInv
  <2>2. Candidates = OnCycle
    BY <1>1, <2>1, CandidatesOnCycle DEF Ordered
  <2>3. OnCycle \subseteq starts'
    BY <1>1, <1>2, <2>1, <2>2 DEF Answered
  <2>4. Covered(stack', starts', cycles')
    BY <1>1, <2>3, CycleOnCycle DEF Covered, ShortCycle
  <2>5. Len(stack') <= MaxCycleSize
    BY <1>1, SizeAssumption
  <2>6. AllShort(cycles') /\ Capped(stack', cycles', room')
    <3>1. DOMAIN cycles' = {} /\ Len(cycles') = 0
      BY <1>1, <2>1
    <3>2. limit # None => limit \in Nat
      BY <1>1, LimitsAssumption DEF Typed
    <3>. QED BY <1>1, <3>1, <3>2 DEF AllShort, Capped
  <2>. QED BY <1>1, <2>4, <2>5, <2>6, NewListing
<1>3. CASE phase # "collect"
  BY <1>1, <1>3, NewListing
<1>. QED BY <1>2, <1>3

(* Enough paths: something is listed by now. *)
LEMMA BreakOffListing ==
  ASSUME ListingInv, BreakOff, ExactInv'
  PROVE  ListingInv'
<1>1. /\ Typed /\ stack # <<>> /\ stack' = <<>> /\ limit # None /\ room = 0
      /\ edges' = edges /\ limit' = limit /\ phase = "enumerate" /\ phase' = phase
      /\ cycles' = cycles /\ Enumerating
  BY ExactTyped DEF ListingInv, BreakOff, Exhausted
<1>2. cycles # <<>> /\ Capped(stack', cycles', room')
  BY <1>1 DEF Enumerating, Capped
<1>3. Len(stack') <= MaxCycleSize
  BY <1>1, SizeAssumption
<1>. QED BY <1>1, <1>2, <1>3, NewListing DEF Enumerating

LEMMA InitListing == Init => ListingInv
BY InitExact DEF Init, ListingInv

LEMMA NextListing == ListingInv /\ [Next]_vars => ListingInv'
<1>. SUFFICES ASSUME ListingInv, [Next]_vars PROVE ListingInv'
  OBVIOUS
<1>1. ExactInv /\ ExactInv'
  BY NextExact DEF ListingInv
<1>2. ASSUME NEW n \in Nodes, Begin(n) PROVE ListingInv'
  BY <1>1, <1>2, NewListing DEF Begin, Sweeping
<1>3. ASSUME NEW n \in Nodes, BeginAt(n) PROVE ListingInv'
  BY <1>1, <1>3, BeginAtListing
<1>4. ASSUME NEW e \in edges, Descend(e) \/ MeetOpen(e) \/ MeetSeen(e) PROVE ListingInv'
  BY <1>1, <1>4, NewListing DEF Descend, MeetOpen, MeetSeen, Sweeping
<1>5. ASSUME NEW e \in edges, Close(e) \/ Extend(e) PROVE ListingInv'
  BY <1>1, <1>5, CloseListing, ExtendListing
<1>6. CASE Return
  BY <1>1, <1>6, ReturnListing
<1>7. CASE EndSweep
  BY <1>1, <1>7, EndSweepListing
<1>8. CASE BreakOff
  BY <1>1, <1>8, BreakOffListing
<1>9. CASE Analyzed
  <2>1. /\ edges' = edges /\ limit' = limit /\ stack = <<>> /\ stack' = stack
        /\ starts' = starts /\ cycles' = cycles /\ room' = room /\ phase = "enumerate"
        /\ starts = {} \/ Full
    BY <1>9 DEF Analyzed
  <2>2. Full' <=> Full
    BY <2>1 DEF Full
  <2>. QED BY <1>1, <2>1, <2>2, NewListing DEF ListingInv, Enumerating
<1>10. CASE UNCHANGED vars
  <2>1. Full' <=> Full
    BY <1>10 DEF Full, vars
  <2>. QED BY <1>1, <1>10, <2>1, NewListing DEF vars, ListingInv, Enumerating
<1>. QED BY <1>2, <1>3, <1>4, <1>5, <1>6, <1>7, <1>8, <1>9, <1>10 DEF Next

(* CyclesListed: an exhaustive search lists every set of nodes that a      *)
(* short enough cycle visits and no other; one with a cap lists no more,   *)
(* but something if there is something; and what the builder lists leaves  *)
(* no component with a cycle without one of its own.                       *)
THEOREM CyclesAreListed == Spec => []CyclesListed
<1>1. ASSUME ListingInv, phase = "analyzed"
      PROVE  LET short == CycleSets(MaxCycleSize) IN
             IF limit = None THEN ListedSets = short
             ELSE Len(cycles) <= limit /\ (limit > 0 /\ short # {} => cycles # <<>>)
  <2>. DEFINE short == CycleSets(MaxCycleSize)
  <2>1. /\ Typed /\ SoundList(cycles) /\ Enumerating /\ stack = <<>>
        /\ starts = {} \/ Full
        /\ MaxCycleSize \in Nat
    BY <1>1, ExactTyped, SizeAssumption DEF ListingInv
  <2>2. DOMAIN stack = {}
    BY <2>1
  <2>3. ASSUME NEW c \in short, starts = {}, limit = None \/ cycles = <<>>
        PROVE  c \in ListedSets
    <3>1. PICK j \in 1 .. MaxCycleSize :
            \E s \in [1 .. j -> Nodes] : IsCycle(s) /\ c = NodesOf(s)
      BY DEF CycleSets
    <3>2. PICK s \in [1 .. j -> Nodes] : IsCycle(s) /\ c = NodesOf(s)
      BY <3>1
    <3>3. s \in Seq(Nodes) /\ Len(s) = j /\ Len(s) <= MaxCycleSize
      BY <2>1, <3>2
    <3>4. ~Pending(stack, s)
      BY <2>2 DEF Pending
    <3>5. ShortCycle(s) /\ s[1] \notin starts
      BY <2>3, <3>2, <3>3 DEF ShortCycle
    <3>6. PICK i \in DOMAIN cycles : NodesOf(cycles[i]) = NodesOf(s)
      BY <2>1, <2>3, <3>3, <3>4, <3>5 DEF Enumerating, Covered
    <3>. QED BY <3>2, <3>6 DEF ListedSets
  <2>4. ASSUME NEW c \in ListedSets
        PROVE  c \in short
    <3>1. PICK i \in DOMAIN cycles : c = NodesOf(cycles[i])
      BY DEF ListedSets
    <3>2. cycles[i] \in Seq(Nodes)
      <4>1. cycles \in Seq(Seq(Nodes))
        BY <2>1 DEF SoundList
      <4>. QED BY <3>1, <4>1
    <3>3. cycles[i] \in Seq(Nodes) /\ IsCycle(cycles[i]) /\ Len(cycles[i]) <= MaxCycleSize
      BY <2>1, <3>1, <3>2 DEF SoundList, Enumerating, AllShort
    <3>4. Len(cycles[i]) \in 1 .. MaxCycleSize /\ cycles[i] \in [1 .. Len(cycles[i]) -> Nodes]
      BY <2>1, <3>3 DEF IsCycle
    <3>. QED BY <3>1, <3>3, <3>4 DEF CycleSets
  <2>. HIDE DEF short
  <2>5. CASE limit = None
    <3>1. starts = {}
      BY <2>1, <2>5 DEF Full
    <3>. QED BY <2>3, <2>4, <2>5, <3>1 DEF short
  <2>6. CASE limit # None
    <3>1. limit \in Nat
      <4>1. limit \in Limits
        BY <2>1 DEF Typed
      <4>. QED BY <2>6, <4>1, LimitsAssumption
    <3>2. Len(cycles) <= limit /\ limit \in Nat
      BY <2>1, <2>6, <3>1 DEF Enumerating, Capped
    <3>3. ASSUME limit > 0, short # {}, cycles = <<>>
          PROVE  FALSE
      <4>1. Len(cycles) = 0 /\ DOMAIN cycles = {}
        BY <3>3
      <4>2. starts = {}
        BY <2>1, <3>2, <3>3, <4>1 DEF Full
      <4>3. PICK c \in short : c \in ListedSets
        BY <2>3, <3>3, <4>2
      <4>. QED BY <4>1, <4>3 DEF ListedSets
    <3>. QED BY <2>6, <3>2, <3>3 DEF short
  <2>. QED BY <2>5, <2>6
<1>2. ASSUME ListingInv, phase = "built"
      PROVE  \A n \in OnCycle : \E c \in ListedSets : c \subseteq StrongComponent(n)
  BY <1>2 DEF ListingInv, ExactInv, Unearthed, Clean, ListedSets
<1>3. ListingInv => CyclesListed
  BY <1>1, <1>2 DEF CyclesListed
<1>. QED BY <1>3, InitListing, NextListing, PTL DEF Spec
=============================================================================
