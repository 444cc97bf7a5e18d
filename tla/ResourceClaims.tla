---------------------------- MODULE ResourceClaims ----------------------------
(***************************************************************************)
(* Resource claims of tool calls (packages/agent/src/tool-resource-claims).*)
(*                                                                         *)
(* Before a batch of tool calls is scheduled every call is resolved to     *)
(* either "exclusive" (it may share the batch with nothing that runs at    *)
(* the same time) or to a list of claims, each a resource with a read or a *)
(* write access.  A call without claims (a parallel-safe tool) conflicts   *)
(* with exclusive calls only.                                              *)
(*                                                                         *)
(* Resource abstracts the pair of kind and key.  Overlap abstracts         *)
(* pathClaimsOverlap for paths (a directory overlaps what is below it, two *)
(* names of one inode overlap) and key equality for the other kinds.  It   *)
(* is not transitive: a directory overlaps two files that do not overlap.  *)
(***************************************************************************)
EXTENDS Naturals

CONSTANTS Resource, Overlap

ASSUME OverlapAssumption ==
  /\ Overlap \subseteq Resource \X Resource
  /\ \A r \in Resource : <<r, r>> \in Overlap
  /\ \A r, s \in Resource : <<r, s>> \in Overlap => <<s, r>> \in Overlap

\* normalizeCustomClaims turns an access "exclusive" into an exclusive
\* resolution, so a resolved claim only ever reads or writes.
Access == {"read", "write"}

Claim == [res : Resource, access : Access]

Resolution == [exclusive : BOOLEAN, claims : SUBSET Claim]

claimsConflict(left, right) ==
  /\ <<left.res, right.res>> \in Overlap
  /\ left.access = "write" \/ right.access = "write"

resolutionsConflict(left, right) ==
  \/ left.exclusive
  \/ right.exclusive
  \/ \E c \in left.claims, d \in right.claims : claimsConflict(c, d)

===============================================================================
