---------------------------- MODULE PacketExchange ----------------------------
(***************************************************************************)
(* What the scheduler promises its sources and sinks, without locks,       *)
(* queues, reference counts or threads.                                    *)
(*                                                                         *)
(* A packet is free, or being filled by its source, or shared with the     *)
(* sinks that were subscribed to the source at one moment of its           *)
(* publication.  Each of them is given the packet once.  The packet is     *)
(* free again when the last of them is done, and not before.               *)
(***************************************************************************)
CONSTANTS Sources, Packets, Sinks, SourceOf

VARIABLES status,      \* per source and packet: free, filling or shared
          due,         \* per source and packet: sinks still to be given it
          reading,     \* per source and packet: sinks that may read it
          subscribed   \* per source: its subscribed sinks

vars == <<status, due, reading, subscribed>>

Status == {"free", "filling", "shared"}

Init ==
  /\ status = [s \in Sources |-> [p \in Packets |-> "free"]]
  /\ due = [s \in Sources |-> [p \in Packets |-> {}]]
  /\ reading = [s \in Sources |-> [p \in Packets |-> {}]]
  /\ subscribed = [s \in Sources |-> {}]

Acquire(s, p) ==
  /\ status[s][p] = "free"
  /\ status' = [status EXCEPT ![s][p] = "filling"]
  /\ UNCHANGED <<due, reading, subscribed>>

Publish(s, p) ==
  /\ status[s][p] = "filling"
  /\ status' = [status EXCEPT ![s][p] = "shared"]
  /\ due' = [due EXCEPT ![s][p] = subscribed[s]]
  /\ UNCHANGED <<reading, subscribed>>

Give(s, p, k) ==
  /\ k \in due[s][p]
  /\ due' = [due EXCEPT ![s][p] = @ \ {k}]
  /\ reading' = [reading EXCEPT ![s][p] = @ \cup {k}]
  /\ UNCHANGED <<status, subscribed>>

IsLast(s, p, k) == due[s][p] = {} /\ reading[s][p] = {k}

Done(s, p, k) ==
  /\ k \in reading[s][p]
  /\ reading' = [reading EXCEPT ![s][p] = @ \ {k}]
  /\ status' = IF IsLast(s, p, k)
                 THEN [status EXCEPT ![s][p] = "free"]
                 ELSE status
  /\ UNCHANGED <<due, subscribed>>

\* Published to nobody.
Reclaim(s, p) ==
  /\ status[s][p] = "shared"
  /\ due[s][p] = {} /\ reading[s][p] = {}
  /\ status' = [status EXCEPT ![s][p] = "free"]
  /\ UNCHANGED <<due, reading, subscribed>>

Join(k) ==
  /\ k \notin subscribed[SourceOf[k]]
  /\ subscribed' = [subscribed EXCEPT ![SourceOf[k]] = @ \cup {k}]
  /\ UNCHANGED <<status, due, reading>>

Leave(k) ==
  /\ k \in subscribed[SourceOf[k]]
  /\ subscribed' = [subscribed EXCEPT ![SourceOf[k]] = @ \ {k}]
  /\ UNCHANGED <<status, due, reading>>

Next ==
  \/ \E s \in Sources, p \in Packets :
       \/ Acquire(s, p) \/ Publish(s, p) \/ Reclaim(s, p)
       \/ \E k \in Sinks : Give(s, p, k) \/ Done(s, p, k)
  \/ \E k \in Sinks : Join(k) \/ Leave(k)

Spec == Init /\ [][Next]_vars

-----------------------------------------------------------------------------

\* The variables stay in their ranges: only a shared packet concerns any sink,
\* and no sink is given it while it still reads it.
TypeOK ==
  /\ status \in [Sources -> [Packets -> Status]]
  /\ due \in [Sources -> [Packets -> SUBSET Sinks]]
  /\ reading \in [Sources -> [Packets -> SUBSET Sinks]]
  /\ subscribed \in [Sources -> SUBSET Sinks]
  /\ \A s \in Sources, p \in Packets :
       /\ status[s][p] # "shared" => due[s][p] = {} /\ reading[s][p] = {}
       /\ due[s][p] \cap reading[s][p] = {}
=============================================================================
