------------------------------- MODULE Tracker ------------------------------
(***************************************************************************)
(* How the client finds a tracker.  A torrent lists trackers in tiers; the *)
(* order within a tier is drawn when it is decoded.  GetTrackerFromFile    *)
(* walks the list until one answers; while the client runs, UpdateTracker  *)
(* asks that one again and main walks the list anew when it fails.  Main   *)
(* does nothing else during a walk.  Tiers and positions count from 0, as  *)
(* in the code.                                                            *)
(***************************************************************************)
EXTENDS Integers, Sequences, Functions

CONSTANT AnnounceLists   \* announce-lists, each tracker by its scheme

Schemes == {"http", "udp"}
ASSUME ListsAssumption == AnnounceLists \subseteq Seq(Seq(Schemes))

VARIABLES
  list,      \* torrent.AnnounceList
  parses,    \* whether torrent.Announce is a URL
  phase,     \* main: to "find" or to "ask" a tracker, "running", "exited"
  tier,      \* GetTrackerFromFile: tier
  tierPos,   \* GetTrackerFromFile: tierPos
  tracker,   \* the last one found: tier and tierIndex
  asked      \* history: the trackers this walk has asked, in order

vars == <<list, parses, phase, tier, tierPos, tracker, asked>>

Announce == <<-1, -1>>   \* the one tracker of a torrent without a list

(* Trackers of the list that can be asked: over http, not udp.             *)
Supported ==
  UNION {{<<i - 1, t - 1>> : t \in {t \in DOMAIN list[i] : list[i][t] = "http"}} : i \in DOMAIN list}

-----------------------------------------------------------------------------
(* RandomizeAnnounceList: every tier is shuffled.                          *)
Shuffles(s) ==
  {[k \in DOMAIN s |-> s[perm[k]]] : perm \in Bijection(DOMAIN s, DOMAIN s)}

WalkAnew ==
  /\ phase' = "find"
  /\ tier' = 0 /\ tierPos' = -1
  /\ asked' = <<>>

Init ==
  /\ \E l \in AnnounceLists :
       /\ list \in [DOMAIN l -> UNION {Shuffles(l[i]) : i \in DOMAIN l}]
       /\ \A i \in DOMAIN l : list[i] \in Shuffles(l[i])
  /\ parses \in {b \in BOOLEAN : list = <<>> \/ b}   \* no matter with a list
  /\ phase = "find"
  /\ tier = 0 /\ tierPos = -1
  /\ tracker = Announce
  /\ asked = <<>>

-----------------------------------------------------------------------------
(* getFirstSupportedTracker.                                               *)

Before(x, y) == x[1] < y[1] \/ (x[1] = y[1] /\ x[2] < y[2])
First(S) == CHOOSE x \in S : \A y \in S : x = y \/ Before(x, y)

(* Variant: the position counts in later tiers as well.                    *)
StartInAll(i) == tierPos + 1
Start(i) == IF i = tier THEN tierPos + 1 ELSE 0

Candidates == {x \in Supported : x[1] >= tier /\ x[2] >= Start(x[1])}

FindTracker ==
  /\ phase = "find"
  /\ \/ list = <<>> /\ parses /\ tracker' = Announce /\ UNCHANGED asked
     \/ /\ Candidates # {}
        /\ tracker' = First(Candidates)
        /\ asked' = Append(asked, tracker')
  /\ phase' = "ask"
  /\ UNCHANGED <<list, parses, tier, tierPos>>

(* Variant: only the end of the list is noticed, not that of a last tier.  *)
PastLastTier == list # <<>> /\ tier = Len(list)
NoneLeft == IF list = <<>> THEN ~parses ELSE Candidates = {}

(* os.Exit at the start, exit = true in an update.                         *)
NoTracker ==
  /\ phase = "find" /\ NoneLeft
  /\ phase' = "exited"
  /\ UNCHANGED <<list, parses, tier, tierPos, tracker, asked>>

-----------------------------------------------------------------------------
(* GetTrackerFromFile: what getPeers returned.                             *)

GotPeers ==
  /\ phase = "ask"
  /\ phase' = "running"
  /\ UNCHANGED <<list, parses, tier, tierPos, tracker, asked>>

(* Variant: the failed tracker is where the search goes on.                *)
SamePos(t) == tierPos + t
NextPos(t) == tierPos + t + 1

(* No answer in time, or not one that can be read.                         *)
GetPeersFails ==
  /\ phase = "ask"
  /\ tier' = tracker[1]
  /\ tierPos' = NextPos(tracker[2])
  /\ phase' = "find"
  /\ UNCHANGED <<list, parses, tracker, asked>>

(* UpdateTracker gets no answer, and main falls back on the list.  An      *)
(* update that succeeds changes nothing here.                              *)
UpdateFails ==
  /\ phase = "running"
  /\ WalkAnew
  /\ UNCHANGED <<list, parses, tracker>>

Walk == FindTracker \/ NoTracker \/ GotPeers \/ GetPeersFails

Next == Walk \/ UpdateFails

Spec == Init /\ [][Next]_vars

(* getPeers returns within half a second.                                  *)
FairSpec == Spec /\ WF_vars(Walk)

-----------------------------------------------------------------------------
(* Properties.                                                             *)

(* A walk never goes back: trackers are asked in the order of the list,    *)
(* none of them twice, wherever it was when the last one failed.           *)
AskedInOrder ==
  \A i, j \in DOMAIN asked : i < j => Before(asked[i], asked[j])

(* Tiers are tried in turn: when the client turns to a later tier, or      *)
(* gives up, it has asked the first tracker it can of every earlier one.   *)
InTier(i) == {x \in Supported : x[1] = i}
TiersInTurn ==
  \A i \in 0..(Len(list) - 1) :
    /\ InTier(i) # {}
    /\ phase = "exited" \/ \E x \in Range(asked) : x[1] > i
    => First(InTier(i)) \in Range(asked)

(* Main comes back from every walk, with a tracker or to exit, unless the  *)
(* torrent has one tracker and no list: that one is asked for ever.        *)
GivesUp ==
  (list # <<>> \/ ~parses) /\ phase \in {"find", "ask"} ~> phase \in {"running", "exited"}
=============================================================================
