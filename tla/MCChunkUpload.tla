---------------------------- MODULE MCChunkUpload ----------------------------
(* Small instances of ChunkUpload: a bounded number of requests and        *)
(* clean-ups, any number of them at the same time, in one of two settings: *)
(* clients that send different chunks and cancel, to a server that         *)
(* crashes; or clients that send any chunk and complete, to one that does  *)
(* not.                                                                    *)
EXTENDS ChunkUpload, TLC

CONSTANTS u1, u2, MaxPartRequests, MaxRequests

VARIABLES
  setting,   \* "parts" or "complete"
  begun      \* requests and clean-ups begun so far

mcVars == <<vars, setting, begun>>

Begins ==
  Cardinality({u \in Uploaders : up[u].pc = "idle" /\ up'[u].pc # "idle"})
    + Cardinality({c \in Completers : cp[c].pc = "idle" /\ cp'[c].pc # "idle"})
    + Cardinality({r \in Removers \ Completers : rm[r].pc = "idle" /\ rm'[r].pc # "idle"})
Count(max) == begun' = begun + Begins /\ begun' <= max

InParts ==
  /\ \A u, v \in Uploaders :
       u # v /\ up'[u].pc # "idle" /\ up'[v].pc # "idle" => up'[u].idx # up'[v].idx
  /\ \A c \in Completers : cp'[c].pc = "idle"
InComplete == crashes' = 0 /\ \A r \in Cancelers : rm'[r].pc = "idle"

MCInit == Init /\ setting \in {"parts", "complete"} /\ begun = 0
MCNext ==
  /\ Next /\ UNCHANGED setting
  /\ \/ setting = "parts" /\ InParts /\ Count(MaxPartRequests)
     \/ setting = "complete" /\ InComplete /\ Count(MaxRequests)
MCSpec == MCInit /\ [][MCNext]_mcVars

UploaderSymmetry == Permutations(Uploaders)
=============================================================================
