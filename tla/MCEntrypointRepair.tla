------------------------- MODULE MCEntrypointRepair -------------------------
(* Small instances of EntrypointRepair for TLC. *)
EXTENDS EntrypointRepair

CONSTANTS o1, o2, o3

MCBytes == {"prior", "selected", "other"}
MCValid == {"selected", "other"}
(* set-id bits are dropped by mode & 0o777 *)
MCModes == {"rw", "setid"}
MCSanitized == [m \in MCModes |-> "rw"]

(* Every call repairs the same drift. *)
SameSource  == [o \in Ops |-> "selected"]
SameCurrent == [o \in Ops |-> "prior"]

(* o2 is approved to replace what o1 publishes. *)
ChainSource  == [o \in Ops |-> IF o = o2 THEN "other" ELSE "selected"]
ChainCurrent == [o \in Ops |-> IF o = o2 THEN "selected" ELSE "prior"]

(* Supporting documents: executable files are refused. *)
DocModes == {"rw", "rwx"}
DocSanitized == [m \in DocModes |-> m]
=============================================================================
