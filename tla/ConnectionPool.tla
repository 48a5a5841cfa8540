--------------------------- MODULE ConnectionPool ---------------------------
(***************************************************************************)
(* The pool of connections, shared by main, which dials and removes, and   *)
(* the listening goroutine, which accepts.  Every method of the pool locks *)
(* it, but Add locks it twice, once to look and once to append; the        *)
(* pointer it returns into the slice is followed after the lock is gone,   *)
(* and main reads the length of the slice without the lock.                *)
(*                                                                         *)
(* A step is one critical section, one channel operation or one unlocked   *)
(* read.  The slice is modelled with its backing arrays, because a pointer *)
(* into one of them outlives Remove and later appends.                     *)
(***************************************************************************)
EXTENDS Integers, Sequences, FiniteSets, Functions

CONSTANTS
  IPs,                 \* hosts
  Ids,                 \* bound: connections (an address and a channel each)
  host,                \* the host at the other end of each connection
  Tracker,             \* trackerInfo.IPs
  MaximumDownloaders,  \* how many connections main wants
  EndCapacity,         \* capacity of the ConnectionEnded channel
  NoId                 \* no connection

ASSUME NumbersAssumption ==
  MaximumDownloaders \in Nat \ {0} /\ EndCapacity \in Nat \ {0}
ASSUME NamesAssumption ==
  /\ IsFiniteSet(Ids) /\ Ids # {} /\ NoId \notin Ids
  /\ host \in [Ids -> IPs]
  /\ Tracker \in Seq(IPs)

VARIABLES
  memory,     \* memory[k]: the backing array of capacity k
  cap, len,   \* the slice connections.peers
  blacklist,  \* hosts blacklisted less than a minute ago
  outgoing,   \* the connections that main dialled
  running,    \* connections whose goroutine has not finished
  channel,    \* whose unchoke channel each running goroutine reads
  ended,      \* channel ConnectionEnded
  complete,   \* PiecesDone has reached the number of pieces
  pc,         \* where main and the listener are
  conn,       \* the connection each of them is adding
  pointer,    \* what its Add returned: an array and an index
  toRemove,   \* main: the ended connections it has drained
  launch      \* main: launchClients' parameter and its two counters

slice == <<memory, cap, len>>
connVars == <<outgoing, running, channel, ended>>
vars == <<slice, blacklist, connVars, complete, pc, conn, pointer, toRemove, launch>>

Threads == {"main", "listener"}
Capacities == 1..(2 * Cardinality(Ids))

peers == SubSeq(memory[cap], 1, len)
Pool == Range(peers)
IsOpen(h) == \E c \in Pool : host[c] = h
Slot(t) == memory[pointer[t][1]][pointer[t][2]]

NoPointer == <<0, 0>>
NoLaunch == [requested |-> 0, launched |-> 0, at |-> 1]

(* A name that nothing refers to any more.                                 *)
Fresh(c) ==
  /\ c \notin Pool \cup running \cup Range(ended) \cup Range(toRemove)
  /\ \A t \in Threads : c # conn[t] /\ (pointer[t] # NoPointer => c # Slot(t))

(* Main is in its first launchClients, unless every piece was on disk, and *)
(* the listener listens.                                                   *)
Init ==
  /\ memory = [k \in Capacities |-> [i \in 1..k |-> NoId]]
  /\ cap = 1 /\ len = 0
  /\ blacklist = {}
  /\ outgoing = {} /\ running = {} /\ ended = <<>>
  /\ channel = [c \in Ids |-> NoId]
  /\ complete \in BOOLEAN
  /\ pc = [t \in Threads |-> IF t = "listener" THEN "accept"
                              ELSE IF complete THEN "select" ELSE "consider"]
  /\ conn = [t \in Threads |-> NoId]
  /\ pointer = [t \in Threads |-> NoPointer]
  /\ toRemove = <<>>
  /\ launch = IF complete THEN NoLaunch
              ELSE [NoLaunch EXCEPT !.requested = MaximumDownloaders]

Goto(t, l) == pc' = [pc EXCEPT ![t] = l]

-----------------------------------------------------------------------------
(* connections.Add and what its callers do with the result.                *)

(* A socket exists: its address is a pointer that identifies it.           *)
Open(t, c) ==
  /\ Fresh(c)
  /\ conn' = [conn EXCEPT ![t] = c]
  /\ Goto(t, "check")

(* launchClients has tried a host and counts.  Variant: it does not stop   *)
(* when it has as many as it was asked for.                                *)
CountAttempt(count) ==
  /\ Goto("main", IF count > launch.requested THEN "panicked" ELSE "consider")
  /\ launch' = [launch EXCEPT !.launched = count, !.at = @ + 1]

AfterAttempt(count) ==
  IF count = launch.requested
  THEN Goto("main", "select") /\ launch' = NoLaunch
  ELSE CountAttempt(count)

(* Add's IsOpen: a second connection to a host is refused (and its socket  *)
(* is never closed).                                                       *)
CheckOpen(t) ==
  /\ pc[t] = "check"
  /\ IF ~IsOpen(host[conn[t]])
     THEN Goto(t, "append") /\ UNCHANGED <<conn, launch>>
     ELSE /\ conn' = [conn EXCEPT ![t] = NoId]
          /\ IF t = "main" THEN AfterAttempt(launch.launched)
             ELSE Goto(t, "accept") /\ UNCHANGED launch
  /\ UNCHANGED <<slice, blacklist, connVars, complete, pointer, toRemove>>

(* Add's second critical section: the slice grows in place, or moves to an *)
(* array of twice the capacity and leaves the old one to the collector     *)
(* unless a pointer holds it.  A pointer to the last slot is returned.     *)
AppendSlot(t) ==
  /\ pc[t] = "append"
  /\ LET k == IF len < cap THEN cap ELSE 2 * cap
         free == {cap} \ {k, pointer["main"][1], pointer["listener"][1]}
     IN  /\ memory' = [a \in Capacities |->
              IF a = k
              THEN [i \in 1..k |-> IF i <= len THEN memory[cap][i]
                                   ELSE IF i = len + 1 THEN conn[t] ELSE memory[k][i]]
              ELSE IF a \in free THEN [i \in 1..a |-> NoId] ELSE memory[a]]
         /\ cap' = k
         /\ len' = len + 1
         /\ pointer' = [pointer EXCEPT ![t] = <<k, len + 1>>]
  /\ Goto(t, "spawn")
  /\ UNCHANGED <<blacklist, connVars, complete, conn, toRemove, launch>>

(* The caller follows the pointer and starts the goroutine.                *)
StartGoroutine(t) ==
  /\ pc[t] = "spawn"
  /\ running' = running \cup {conn[t]}
  /\ channel' = [channel EXCEPT ![conn[t]] = Slot(t)]
  /\ conn' = [conn EXCEPT ![t] = NoId]
  /\ pointer' = [pointer EXCEPT ![t] = NoPointer]
  /\ UNCHANGED <<slice, blacklist, ended, complete, toRemove>>

Seed ==
  /\ StartGoroutine("listener")
  /\ Goto("listener", "accept")
  /\ UNCHANGED <<outgoing, launch>>

Leech ==
  /\ StartGoroutine("main")
  /\ outgoing' = outgoing \cup {conn["main"]}
  /\ AfterAttempt(launch.launched + 1)

(* The listener accepts whoever connects, blacklisted or not.              *)
Accept(c) ==
  /\ pc["listener"] = "accept"
  /\ Open("listener", c)
  /\ UNCHANGED <<slice, blacklist, connVars, complete, pointer, toRemove, launch>>

(* A goroutine ends, in the handshake or later, and says so.               *)
EndConnection(c) ==
  /\ c \in running
  /\ Len(ended) < EndCapacity
  /\ running' = running \ {c}
  /\ channel' = [channel EXCEPT ![c] = NoId]
  /\ ended' = Append(ended, c)
  /\ UNCHANGED <<slice, blacklist, outgoing, complete, pc, conn, pointer, toRemove, launch>>

(* connectionBlacklistDuration has passed.                                 *)
Expire(h) ==
  /\ h \in blacklist
  /\ blacklist' = blacklist \ {h}
  /\ UNCHANGED <<slice, connVars, complete, pc, conn, pointer, toRemove, launch>>

-----------------------------------------------------------------------------
(* One iteration of main's loop.                                           *)

(* Anything wakes main; it may be the last piece.                          *)
Select ==
  /\ pc["main"] = "select"
  /\ complete' \in {complete, TRUE}
  /\ Goto("main", "drain")
  /\ UNCHANGED <<slice, blacklist, connVars, conn, pointer, toRemove, launch>>

(* updateOnlineConnections: every ended connection blacklists its host ... *)
Drain ==
  /\ pc["main"] = "drain"
  /\ IF ended = <<>>
     THEN Goto("main", "remove") /\ UNCHANGED <<ended, toRemove, blacklist>>
     ELSE /\ ended' = Tail(ended)
          /\ toRemove' = Append(toRemove, Head(ended))
          /\ blacklist' = blacklist \cup {host[Head(ended)]}
          /\ UNCHANGED pc
  /\ UNCHANGED <<slice, outgoing, running, channel, complete, conn, pointer, launch>>

(* ... and leaves the pool: the last slot takes its place.  Variant: the   *)
(* slice is only cut.                                                      *)
CutOff(c) ==
  /\ len' = len - 1
  /\ UNCHANGED <<memory, cap>>

Remove(c) ==
  /\ \E i \in 1..len :
       /\ memory[cap][i] = c
       /\ memory' = [memory EXCEPT ![cap][i] = memory[cap][len]]
  /\ len' = len - 1
  /\ UNCHANGED cap

RemoveEnded ==
  /\ pc["main"] = "remove" /\ toRemove # <<>>
  /\ Remove(Head(toRemove))
  /\ toRemove' = Tail(toRemove)
  /\ outgoing' = outgoing \ {Head(toRemove)}
  /\ UNCHANGED <<blacklist, running, channel, ended, complete, pc, conn, pointer, launch>>

(* The length is compared without the lock ...  Variant: main connects as  *)
(* many as it may have at all.                                             *)
AllDownloaders == MaximumDownloaders
MissingDownloaders == MaximumDownloaders - len

Compare ==
  /\ pc["main"] = "remove" /\ toRemove = <<>>
  /\ IF ~complete /\ len < MaximumDownloaders
     THEN /\ Goto("main", "count")
          /\ launch' = [NoLaunch EXCEPT !.requested = MissingDownloaders]
     ELSE Goto("main", "select") /\ UNCHANGED launch
  /\ UNCHANGED <<slice, blacklist, connVars, complete, conn, pointer, toRemove>>

(* ... and read again for the parameter of launchClients, unless the       *)
(* compiler keeps the value it has.                                        *)
Count ==
  /\ pc["main"] = "count"
  /\ Goto("main", "consider")
  /\ \/ launch' = [launch EXCEPT !.requested = MissingDownloaders]
     \/ UNCHANGED launch
  /\ UNCHANGED <<slice, blacklist, connVars, complete, conn, pointer, toRemove>>

(* launchClients skips hosts that are open or blacklisted.  Variant: such  *)
(* a host ends it.                                                         *)
GiveUp ==
  /\ Goto("main", "select")
  /\ launch' = NoLaunch

SkipHost ==
  /\ launch' = [launch EXCEPT !.at = @ + 1]
  /\ UNCHANGED pc

Consider ==
  /\ pc["main"] = "consider"
  /\ IF launch.at > Len(Tracker)
     THEN GiveUp
     ELSE IF IsOpen(Tracker[launch.at]) \/ Tracker[launch.at] \in blacklist
     THEN SkipHost
     ELSE Goto("main", "dial") /\ UNCHANGED launch
  /\ UNCHANGED <<slice, blacklist, connVars, complete, conn, pointer, toRemove>>

(* connectToPeer looks again: the listener may have added the host.        *)
AlreadyConnected ==
  /\ pc["main"] = "dial" /\ IsOpen(Tracker[launch.at])
  /\ AfterAttempt(launch.launched)
  /\ UNCHANGED <<slice, blacklist, connVars, complete, conn, pointer, toRemove>>

DialFails ==
  /\ pc["main"] = "dial" /\ ~IsOpen(Tracker[launch.at])
  /\ blacklist' = blacklist \cup {Tracker[launch.at]}
  /\ AfterAttempt(launch.launched)
  /\ UNCHANGED <<slice, connVars, complete, conn, pointer, toRemove>>

Dial(c) ==
  /\ pc["main"] = "dial" /\ ~IsOpen(Tracker[launch.at])
  /\ host[c] = Tracker[launch.at]
  /\ Open("main", c)
  /\ UNCHANGED <<slice, blacklist, connVars, complete, pointer, toRemove, launch>>

-----------------------------------------------------------------------------
MainStep ==
  \/ Select
  \/ Drain
  \/ RemoveEnded
  \/ Compare
  \/ Count
  \/ Consider
  \/ AlreadyConnected
  \/ DialFails
  \/ \E c \in Ids : Dial(c)
  \/ CheckOpen("main")
  \/ AppendSlot("main")
  \/ Leech

ListenerStep ==
  \/ CheckOpen("listener")
  \/ AppendSlot("listener")
  \/ Seed

Next ==
  /\ pc["main"] # "panicked"
  /\ \/ MainStep
     \/ ListenerStep
     \/ \E c \in Ids : Accept(c) \/ EndConnection(c)
     \/ \E h \in IPs : Expire(h)

Spec == Init /\ [][Next]_vars

(* The loop and the listener run; the blacklist expires.  That a dial      *)
(* succeeds in the end is an assumption about the hosts.                   *)
FairSpec ==
  /\ Spec
  /\ WF_vars(MainStep)
  /\ WF_vars(ListenerStep)
  /\ \A h \in IPs : WF_vars(Expire(h))

FairHostsSpec ==
  /\ FairSpec
  /\ \A h \in IPs : SF_vars(\E c \in Ids : host[c] = h /\ Dial(c))

-----------------------------------------------------------------------------
(* Properties.                                                             *)

TypeOK ==
  /\ cap \in Capacities /\ len \in 0..cap
  /\ \A k \in Capacities : memory[k] \in [1..k -> Ids \cup {NoId}]
  /\ blacklist \subseteq IPs
  /\ outgoing \subseteq Ids /\ running \subseteq Ids
  /\ channel \in [Ids -> Ids \cup {NoId}]
  /\ Range(ended) \subseteq Ids /\ Range(toRemove) \subseteq Ids
  /\ launch.requested \in (-Cardinality(Ids))..MaximumDownloaders
  /\ launch.launched \in 0..MaximumDownloaders
  /\ launch.at \in 1..(Len(Tracker) + 1)

(* A connection occupies a slot of the pool exactly from its Add to the    *)
(* moment main learns of its end: no slot is lost to a dead connection,    *)
(* and no live one is forgotten.                                           *)
SlotsMatchConnections ==
  /\ IsInjective(peers)
  /\ Pool = running \cup Range(ended) \cup Range(toRemove)
              \cup {conn[t] : t \in {u \in Threads : pc[u] = "spawn"}}

(* Main never dials past its limit, whatever the listener adds meanwhile.  *)
OutgoingLimited ==
  Cardinality(outgoing \cup ({conn["main"]} \ {NoId})) <= MaximumDownloaders

(* Communication's comment: an unchoke channel has one reader.             *)
OneReaderPerChannel ==
  \A c, d \in running : channel[c] = channel[d] => c = d

(* A connection that has ended gives its slot back.                        *)
EndedIsRemoved ==
  \A c \in Ids :
    c \in Range(ended) ~> c \notin Pool \/ pc["main"] = "panicked"

(* A host that can be reached is connected again, after whatever happened  *)
(* to it before, as long as the pool has room and pieces are missing.      *)
Reconnects ==
  \A h \in Range(Tracker) :
    []<>(IsOpen(h) \/ len >= MaximumDownloaders \/ complete
           \/ pc["main"] = "panicked")
=============================================================================
