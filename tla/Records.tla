------------------------------- MODULE Records --------------------------------
(***************************************************************************)
(* What is kept of memories and read back: turns of a conversation,        *)
(* versions of a memory, the pages of the audit log and the verification   *)
(* of provenance over it, the log's partitions, AUTO's cache and one       *)
(* recall.  The six share no state, so that a behaviour exercises one:     *)
(* nothing one of them does is read by another.                            *)
(***************************************************************************)
EXTENDS Conversations, MemoVersions, AuditReads, AuditPartitions, AutoRouter, RecallPath

VARIABLE focus      \* which of the six

vars == <<focus, conversationVars, versionVars, readVars, partitionVars, routerVars, recallVars>>

\* A part out of focus starts in one of its ways.
Init ==
    /\ focus \in {"conversation", "versions", "log", "partitions", "router", "recall"}
    /\ ConversationInit /\ VersionInit /\ ReadInit /\ PartitionInit /\ RouterInit /\ RecallInit
    /\ focus # "conversation" => conv.cadence = CHOOSE n \in Cadences : TRUE
    /\ focus # "partitions" => today = CHOOSE m \in Installed : TRUE
    /\ focus # "router" => ~edges

Next ==
    /\ UNCHANGED focus
    /\ \/ /\ focus = "conversation" /\ ConversationNext
          /\ UNCHANGED <<versionVars, readVars, partitionVars, routerVars, recallVars>>
       \/ /\ focus = "versions" /\ VersionNext
          /\ UNCHANGED <<conversationVars, readVars, partitionVars, routerVars, recallVars>>
       \/ /\ focus = "log" /\ ReadNext
          /\ UNCHANGED <<conversationVars, versionVars, partitionVars, routerVars, recallVars>>
       \/ /\ focus = "partitions" /\ PartitionNext
          /\ UNCHANGED <<conversationVars, versionVars, readVars, routerVars, recallVars>>
       \/ /\ focus = "router" /\ RouterNext
          /\ UNCHANGED <<conversationVars, versionVars, readVars, partitionVars, recallVars>>
       \/ /\ focus = "recall" /\ RecallNext
          /\ UNCHANGED <<conversationVars, versionVars, readVars, partitionVars, routerVars>>

Spec == Init /\ [][Next]_vars
==============================================================================
