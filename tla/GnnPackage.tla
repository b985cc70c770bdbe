------------------------------ MODULE GnnPackage ------------------------------
(***************************************************************************)
(* The package of a run: what GNNPackageBuilder.build (gnn/package.py) may  *)
(* leave in its directory, and what GNNValidator (gnn/validator.py) makes   *)
(* of it.  A failed section is swallowed and its file stays as it was or    *)
(* is left incomplete; only the checksums tell.                             *)
(***************************************************************************)
EXTENDS FiniteSets

CONSTANTS
  Sections,  \* best-effort files: state_space.json and others, the diagrams
  Required,  \* those that validation asks for
  Nothing    \* no file, no artifact

ASSUME PackageAssumption ==
  Required \subseteq Sections /\ {"model", "blanket"} \cap Sections = {}

(* A file by what it was written from: whole; a short record of what could *)
(* not be written; or broken off, perhaps with a record behind.            *)
File(of, form) == [of |-> of, form |-> form]
Whole(x) == File(x, "whole")
Forms == {"whole", "record", "broken"}

(* The model must be written; the Markov blanket, or a placeholder.        *)
Mandatory == {"model", "blanket"}
PackageFiles == Mandatory \cup Sections

NoSums == [f \in {} |-> Nothing]
NoPackage == [files |-> [f \in PackageFiles |-> Nothing], sums |-> NoSums]

(* A section is entered in the checksums after it has been written.        *)
SectionEnds == {"entered", "written", "broken", "kept"}
Section(old, p, end) == CASE end \in {"entered", "written"} -> Whole(p)
                          [] end = "broken"                 -> File(p, "broken")
                          [] OTHER                          -> old

BuiltFiles(old, p, ends, blanket) == [f \in PackageFiles |->
  CASE f = "model"   -> Whole(p)
    [] f = "blanket" -> File(p, blanket)
    [] OTHER         -> Section(old.files[f], p, ends[f])]

(* What build may leave over an old package when it returns.               *)
Build(old, p, ends, blanket) ==
  LET files   == BuiltFiles(old, p, ends, blanket)
      entered == Mandatory \cup {s \in Sections : ends[s] = "entered"}
  IN  [files |-> files, sums |-> [f \in entered |-> files[f]]]
Builds(old, p) ==
  {Build(old, p, ends, blanket) :
     ends \in [Sections -> SectionEnds], blanket \in {"whole", "record"}}

(* It raises if the model, the placeholder or the manifest fails.  The     *)
(* manifest is written last: until then the old one stays.                 *)
AbandonedBuilds(old, p) ==
  {[old EXCEPT !.files["model"] = m] : m \in {old.files["model"], File(p, "broken")}}
  \cup
  {[files |-> BuiltFiles(old, p, ends, blanket), sums |-> sums] :
     ends \in [Sections -> SectionEnds], blanket \in Forms, sums \in {old.sums, NoSums}}

Listed(package) == Mandatory \cup Required \subseteq DOMAIN package.sums
Matching(package) == \A f \in DOMAIN package.sums : package.files[f] = package.sums[f]

(* Mutant: a required file without a checksum is not an error.             *)
CertifiesMatching(package) == DOMAIN package.sums # {} /\ Matching(package)
Certifies(package) == Listed(package) /\ Matching(package)
=============================================================================
