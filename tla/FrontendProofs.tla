--------------------------- MODULE FrontendProofs ---------------------------
(***************************************************************************)
(* The one frontend: who has it, and what happens while it is retuned.     *)
(*                                                                         *)
(* Arbiter, for any connections, transponders and schedule.  No conjunct   *)
(* of the invariant can be proved alone.  A disconnect or a pre-emption    *)
(* changes master, the flags, the streams and the offline task together;   *)
(* that the offline task may tune relies on OfflineExclusive, which relies *)
(* on recordings being stopped before it starts; that clients with the     *)
(* flag may tune relies on ClientsYield.                                   *)
(*                                                                         *)
(* Tuning, for any transponders, programs and queues.  Every listener has  *)
(* its pids closed when the caller has seen them all idle, and net_writer  *)
(* and sap end up with the programs of the connections, however late they  *)
(* read their events.                                                      *)
(***************************************************************************)
EXTENDS Arbiter, Tuning, FiniteSetTheorems, SequenceTheorems, TLAPS

-----------------------------------------------------------------------------
(* Who has the frontend: Arbiter                                           *)

(* What the argument needs of the types; ae and next are left out.         *)
ArbType ==
  /\ up \in BOOLEAN /\ ot \in BOOLEAN
  /\ conn_active \subseteq Conns /\ (~up => conn_active = {})
  /\ tp \in TPs \cup {NoTp}
  /\ master \in Conns \cup {NoConn}
  /\ pnr \in [Conns -> TPs \cup {NoTp}]
  /\ quickrec \in [Conns -> TPs \cup {NoTp}]
  /\ sched \subseteq Entries /\ pending \subseteq sched
  /\ recs \in Seq(Entries) /\ done \in Seq(Entries)
  /\ step \in {"fetch", "join", "start"} => entry \in Entries

Sharing == OneMaster /\ ClientsYield /\ OfflineExclusive

ArbInv ==
  /\ ArbType
  /\ Sharing
  /\ StreamsOnTunedTp /\ NothingLeft
  /\ NotForgottenYet

-----------------------------------------------------------------------------
(* Facts about lists.                                                      *)

LEMMA RangeNonempty ==
  ASSUME NEW S, NEW s \in Seq(S), NEW e \in Range(s)
  PROVE  s # <<>> /\ e \in S
BY DEF Range

(* dlistRemove gives a list. *)
LEMMA WithoutType ==
  ASSUME NEW S, NEW s \in Seq(S), NEW e \in Range(s)
  PROVE  Without(s, e) \in Seq(S)
<1>1. Position(s, e) \in DOMAIN s
  BY DEF Position, Range
<1>2. Position(s, e) \in 1..Len(s)
  BY <1>1
<1>3. SubSeq(s, 1, Position(s, e) - 1) \in Seq(S)
  BY <1>2, SubSeqProperties
<1>4. SubSeq(s, Position(s, e) + 1, Len(s)) \in Seq(S)
  BY <1>2, SubSeqProperties
<1> QED
  BY <1>3, <1>4, ConcatProperties DEF Without

-----------------------------------------------------------------------------
(* One lemma per kind of step, one step per part of the invariant.         *)

(* The server comes up. *)
LEMMA ControlRunStep ==
  ASSUME ArbInv, ControlRun
  PROVE  ArbInv'
<1> USE ArbiterAssumption DEF ControlRun, RecTaskMutexFree, clients,
      streams, schedule, frontend, rectask
<1>1. ArbType'
  BY DEF ArbInv, ArbType
<1>2. Sharing'
  BY DEF ArbInv, ArbType, Sharing, OneMaster, ClientsYield,
     OfflineExclusive, RecTaskActive
<1>3. StreamsOnTunedTp' /\ NothingLeft'
  BY DEF ArbInv, ArbType, Sharing, OneMaster, OfflineExclusive,
     ClientsYield, RecTaskActive, StreamsOnTunedTp, NothingLeft
<1>4. NotForgottenYet'
  BY DEF ArbInv, ArbType, NotForgottenYet, RecTaskActive
<1> QED BY <1>1, <1>2, <1>3, <1>4 DEF ArbInv

(* A connection comes. *)
LEMMA ConnectStep ==
  ASSUME ArbInv, NEW c \in Conns, Connect(c)
  PROVE  ArbInv'
<1> USE ArbiterAssumption DEF Connect, ConnMutexFree, TunedTo, clients, streams,
      schedule, frontend, rectask
<1>1. ArbType'
  BY DEF ArbInv, ArbType
<1>2. Sharing'
  BY DEF ArbInv, ArbType, Sharing, OneMaster, ClientsYield,
     OfflineExclusive, RecTaskActive
<1>3. StreamsOnTunedTp' /\ NothingLeft'
  BY DEF ArbInv, ArbType, Sharing, OneMaster, OfflineExclusive,
     ClientsYield, RecTaskActive, StreamsOnTunedTp, NothingLeft
<1>4. NotForgottenYet'
  BY DEF ArbInv, ArbType, NotForgottenYet, RecTaskActive
<1> QED BY <1>1, <1>2, <1>3, <1>4 DEF ArbInv

(* A connection goes. *)
LEMMA DisconnectStep ==
  ASSUME ArbInv, NEW c \in Conns, Disconnect(c)
  PROVE  ArbInv'
<1> USE ArbiterAssumption DEF Disconnect, ConnMutexFree, TunedTo, clients, streams,
      schedule, frontend, rectask
<1>1. ArbType'
  BY DEF ArbInv, ArbType
<1>2. Sharing'
  BY DEF ArbInv, ArbType, Sharing, OneMaster, ClientsYield,
     OfflineExclusive, RecTaskActive
<1>3. StreamsOnTunedTp' /\ NothingLeft'
  BY DEF ArbInv, ArbType, Sharing, OneMaster, OfflineExclusive,
     ClientsYield, RecTaskActive, StreamsOnTunedTp, NothingLeft
<1>4. NotForgottenYet'
  BY DEF ArbInv, ArbType, NotForgottenYet, RecTaskActive
<1> QED BY <1>1, <1>2, <1>3, <1>4 DEF ArbInv

(* The flag is taken or taken over. *)
LEMMA GoActiveStep ==
  ASSUME ArbInv, NEW c \in Conns, GoActive(c)
  PROVE  ArbInv'
<1> USE ArbiterAssumption DEF GoActive, CanGoActive, ConnMutexFree, clients,
      streams, schedule, frontend, rectask
<1>1. ArbType'
  BY DEF ArbInv, ArbType
<1>2. Sharing'
  BY DEF ArbInv, ArbType, Sharing, OneMaster, ClientsYield,
     OfflineExclusive, RecTaskActive
<1>3. StreamsOnTunedTp' /\ NothingLeft'
  BY DEF ArbInv, ArbType, Sharing, OneMaster, OfflineExclusive,
     ClientsYield, RecTaskActive, StreamsOnTunedTp, NothingLeft
<1>4. NotForgottenYet'
  BY DEF ArbInv, ArbType, NotForgottenYet, RecTaskActive
<1> QED BY <1>1, <1>2, <1>3, <1>4 DEF ArbInv

(* The flag is given up. *)
LEMMA GoInactiveStep ==
  ASSUME ArbInv, NEW c \in Conns, GoInactive(c)
  PROVE  ArbInv'
<1> USE ArbiterAssumption DEF GoInactive, ConnMutexFree, clients, streams,
      schedule, frontend, rectask
<1>1. ArbType'
  BY DEF ArbInv, ArbType
<1>2. Sharing'
  BY DEF ArbInv, ArbType, Sharing, OneMaster, ClientsYield,
     OfflineExclusive, RecTaskActive
<1>3. StreamsOnTunedTp' /\ NothingLeft'
  BY DEF ArbInv, ArbType, Sharing, OneMaster, OfflineExclusive,
     ClientsYield, RecTaskActive, StreamsOnTunedTp, NothingLeft
<1>4. NotForgottenYet'
  BY DEF ArbInv, ArbType, NotForgottenYet, RecTaskActive
<1> QED BY <1>1, <1>2, <1>3, <1>4 DEF ArbInv

(* Streams and quick recordings on the tuned transponder; the switch. *)
LEMMA HereStep ==
  ASSUME ArbInv, NEW c \in Conns, TunePgHere(c) \/ srvSetSwitch(c) \/ RecPgm(c) \/ RecPgmStop(c)
  PROVE  ArbInv'
<1> USE ArbiterAssumption DEF TunePgHere, srvSetSwitch, RecPgm, RecPgmStop, ConnMutexFree,
      clients, streams, schedule, frontend, rectask
<1>1. ArbType'
  BY DEF ArbInv, ArbType
<1>2. Sharing'
  BY DEF ArbInv, ArbType, Sharing, OneMaster, ClientsYield,
     OfflineExclusive, RecTaskActive
<1>3. StreamsOnTunedTp' /\ NothingLeft'
  BY DEF ArbInv, ArbType, Sharing, OneMaster, OfflineExclusive,
     ClientsYield, RecTaskActive, StreamsOnTunedTp, NothingLeft
<1>4. NotForgottenYet'
  BY DEF ArbInv, ArbType, NotForgottenYet, RecTaskActive
<1> QED BY <1>1, <1>2, <1>3, <1>4 DEF ArbInv

(* Clients tune. *)
LEMMA TuneStep ==
  ASSUME ArbInv, NEW c \in Conns, NEW t \in TPs,
         TunePgElsewhere(c, t) \/ ScanTp(c, t) \/ Retune(c, t)
  PROVE  ArbInv'
<1> USE ArbiterAssumption DEF TunePgElsewhere, ScanTp, Retune, RmvAllPnrs, TuningEnds, TunedTo,
      ConnMutexFree, clients, streams, schedule, frontend, rectask
<1>1. ArbType'
  BY DEF ArbInv, ArbType
<1>2. Sharing'
  BY DEF ArbInv, ArbType, Sharing, OneMaster, ClientsYield,
     OfflineExclusive, RecTaskActive
<1>3. StreamsOnTunedTp' /\ NothingLeft'
  BY DEF ArbInv, ArbType, Sharing, OneMaster, OfflineExclusive,
     ClientsYield, RecTaskActive, StreamsOnTunedTp, NothingLeft
<1>4. NotForgottenYet'
  BY DEF ArbInv, ArbType, NotForgottenYet, RecTaskActive
<1> QED BY <1>1, <1>2, <1>3, <1>4 DEF ArbInv

(* Clients change the schedule. *)
LEMMA RecSchedStep ==
  ASSUME ArbInv, NEW c \in Conns, NEW new \in SUBSET Entries, RecSched(c, new)
  PROVE  ArbInv'
<1> USE ArbiterAssumption DEF RecSched, ConnMutexFree, clients, streams,
      schedule, frontend, rectask
<1>1. ArbType'
  BY DEF ArbInv, ArbType
<1>2. Sharing'
  BY DEF ArbInv, ArbType, Sharing, OneMaster, ClientsYield,
     OfflineExclusive, RecTaskActive
<1>3. StreamsOnTunedTp' /\ NothingLeft'
  BY DEF ArbInv, ArbType, Sharing, OneMaster, OfflineExclusive,
     ClientsYield, RecTaskActive, StreamsOnTunedTp, NothingLeft
<1>4. NotForgottenYet'
  BY DEF ArbInv, ArbType, NotForgottenYet, RecTaskActive
<1> QED BY <1>1, <1>2, <1>3, <1>4 DEF ArbInv

(* A client aborts the recordings. *)
LEMMA AbortRecStep ==
  ASSUME ArbInv, NEW c \in Conns, AbortRec(c)
  PROVE  ArbInv'
<1> USE ArbiterAssumption DEF AbortRec, ConnMutexFree, clients, streams,
      schedule, frontend, rectask
<1>1. ArbType'
  BY ConcatProperties DEF ArbInv, ArbType, Range
<1>2. Sharing'
  BY DEF ArbInv, ArbType, Sharing, OneMaster, ClientsYield,
     OfflineExclusive, RecTaskActive
<1>3. StreamsOnTunedTp' /\ NothingLeft'
  BY DEF ArbInv, ArbType, Sharing, OneMaster, OfflineExclusive,
     ClientsYield, RecTaskActive, StreamsOnTunedTp, NothingLeft
<1>4. NotForgottenYet'
  BY DEF ArbInv, ArbType, NotForgottenYet, RecTaskActive
<1> QED BY <1>1, <1>2, <1>3, <1>4 DEF ArbInv

(* Time passes. *)
LEMMA ComesDueStep ==
  ASSUME ArbInv, NEW e \in Entries, ComesDue(e)
  PROVE  ArbInv'
<1> USE ArbiterAssumption DEF ComesDue, clients, streams, schedule, frontend, rectask
<1>1. ArbType'
  BY DEF ArbInv, ArbType
<1>2. Sharing'
  BY DEF ArbInv, ArbType, Sharing, OneMaster, ClientsYield,
     OfflineExclusive, RecTaskActive
<1>3. StreamsOnTunedTp' /\ NothingLeft'
  BY DEF ArbInv, ArbType, Sharing, OneMaster, OfflineExclusive,
     ClientsYield, RecTaskActive, StreamsOnTunedTp, NothingLeft
<1>4. NotForgottenYet'
  BY DEF ArbInv, ArbType, NotForgottenYet, RecTaskActive
<1> QED BY <1>1, <1>2, <1>3, <1>4 DEF ArbInv

(* A recording ends. *)
LEMMA RecorderEndsStep ==
  ASSUME ArbInv, NEW e \in Entries, RecorderEnds(e)
  PROVE  ArbInv'
<1> USE ArbiterAssumption DEF RecorderEnds, RecTaskMutexFree, rt_done,
      clients, streams, schedule, frontend, rectask
<1>1. ArbType'
  BY WithoutType, AppendProperties DEF ArbInv, ArbType
<1>2. Sharing'
  BY RangeNonempty DEF ArbInv, ArbType, Sharing, OneMaster, ClientsYield,
     OfflineExclusive, RecTaskActive
<1>3. StreamsOnTunedTp' /\ NothingLeft'
  BY DEF ArbInv, ArbType, Sharing, OneMaster, OfflineExclusive,
     ClientsYield, RecTaskActive, StreamsOnTunedTp, NothingLeft
<1>4. NotForgottenYet'
  BY AppendProperties DEF ArbInv, ArbType, NotForgottenYet, RecTaskActive
<1> QED BY <1>1, <1>2, <1>3, <1>4 DEF ArbInv

(* rec_task begins an iteration. *)
LEMMA WakeStep ==
  ASSUME ArbInv, Wake
  PROVE  ArbInv'
<1> USE ArbiterAssumption DEF Wake, clients, streams, schedule, frontend, rectask
<1>1. ArbType'
  BY DEF ArbInv, ArbType
<1>2. Sharing'
  BY DEF ArbInv, ArbType, Sharing, OneMaster, ClientsYield,
     OfflineExclusive, RecTaskActive
<1>3. StreamsOnTunedTp' /\ NothingLeft'
  BY DEF ArbInv, ArbType, Sharing, OneMaster, OfflineExclusive,
     ClientsYield, RecTaskActive, StreamsOnTunedTp, NothingLeft
<1>4. NotForgottenYet'
  BY DEF ArbInv, ArbType, NotForgottenYet, RecTaskActive
<1> QED BY <1>1, <1>2, <1>3, <1>4 DEF ArbInv

(* rec_task finds an entry. *)
LEMMA PickStep ==
  ASSUME ArbInv, NEW e \in Entries, Pick(e)
  PROVE  ArbInv'
<1> USE ArbiterAssumption DEF Pick, clients, streams, schedule, frontend, rectask
<1>1. ArbType'
  BY DEF ArbInv, ArbType
<1>2. Sharing'
  BY DEF ArbInv, ArbType, Sharing, OneMaster, ClientsYield,
     OfflineExclusive, RecTaskActive
<1>3. StreamsOnTunedTp' /\ NothingLeft'
  BY DEF ArbInv, ArbType, Sharing, OneMaster, OfflineExclusive,
     ClientsYield, RecTaskActive, StreamsOnTunedTp, NothingLeft
<1>4. NotForgottenYet'
  BY DEF ArbInv, ArbType, NotForgottenYet, RecTaskActive
<1> QED BY <1>1, <1>2, <1>3, <1>4 DEF ArbInv

(* rt_abort_all goes on. *)
LEMMA AbortFetchStep ==
  ASSUME ArbInv, AbortFetch
  PROVE  ArbInv'
<1> USE ArbiterAssumption DEF AbortFetch, clients, streams, schedule,
      frontend, rectask
<1>1. ArbType'
  BY DEF ArbInv, ArbType
<1>2. Sharing'
  BY DEF ArbInv, ArbType, Sharing, OneMaster, ClientsYield,
     OfflineExclusive, RecTaskActive
<1>3. StreamsOnTunedTp' /\ NothingLeft'
  BY DEF ArbInv, ArbType, Sharing, OneMaster, OfflineExclusive,
     ClientsYield, RecTaskActive, StreamsOnTunedTp, NothingLeft
<1>4. NotForgottenYet'
  BY DEF ArbInv, ArbType, NotForgottenYet, RecTaskActive
<1> QED BY <1>1, <1>2, <1>3, <1>4 DEF ArbInv

(* rt_abort_all has joined a recording. *)
LEMMA AbortJoinStep ==
  ASSUME ArbInv, AbortJoin
  PROVE  ArbInv'
<1> USE ArbiterAssumption DEF AbortJoin, rt_done, clients, streams,
      schedule, frontend, rectask
<1>1. ArbType'
  <2>1. CASE ae \in Range(recs)
    <3>1. ae \in Entries /\ Without(recs, ae) \in Seq(Entries)
      BY <2>1, RangeNonempty, WithoutType DEF ArbInv, ArbType
    <3>2. Append(done, ae) \in Seq(Entries)
      BY <3>1, AppendProperties DEF ArbInv, ArbType
    <3> QED BY <2>1, <3>1, <3>2 DEF ArbInv, ArbType
  <2>2. CASE ae \notin Range(recs)
    BY <2>2 DEF ArbInv, ArbType
  <2> QED BY <2>1, <2>2
<1>2. Sharing'
  BY RangeNonempty DEF ArbInv, ArbType, Sharing, OneMaster, ClientsYield,
     OfflineExclusive, RecTaskActive
<1>3. StreamsOnTunedTp' /\ NothingLeft'
  BY DEF ArbInv, ArbType, Sharing, OneMaster, OfflineExclusive,
     ClientsYield, RecTaskActive, StreamsOnTunedTp, NothingLeft
<1>4. NotForgottenYet'
  BY AppendProperties DEF ArbInv, ArbType, NotForgottenYet, RecTaskActive
<1> QED BY <1>1, <1>2, <1>3, <1>4 DEF ArbInv

(* A recording starts. *)
LEMMA StartStep ==
  ASSUME ArbInv, Start
  PROVE  ArbInv'
<1> USE ArbiterAssumption DEF Start, StartPreempt, RmvAllPnrs, dvbWouldTune, TunedTo, clients,
      streams, schedule, frontend, rectask
<1>1. ArbType'
  <2>1. entry \in Entries /\ EntryTp[entry] \in TPs
    BY DEF ArbInv, ArbType
  <2>2. recs' \in Seq(Entries)
    BY <2>1, AppendProperties DEF ArbInv, ArbType
  <2>3. pnr' \in [Conns -> TPs \cup {NoTp}] /\ quickrec' \in [Conns -> TPs \cup {NoTp}]
    BY DEF ArbInv, ArbType
  <2> QED BY <2>1, <2>2, <2>3 DEF ArbInv, ArbType
<1>2. Sharing'
  BY AppendProperties DEF ArbInv, ArbType, Sharing, OneMaster, ClientsYield,
     OfflineExclusive, RecTaskActive
<1>3. StreamsOnTunedTp' /\ NothingLeft'
  BY DEF ArbInv, ArbType, Sharing, OneMaster, OfflineExclusive,
     ClientsYield, RecTaskActive, StreamsOnTunedTp, NothingLeft
<1>4. NotForgottenYet'
  BY AppendProperties DEF ArbInv, ArbType, NotForgottenYet, RecTaskActive
<1> QED BY <1>1, <1>2, <1>3, <1>4 DEF ArbInv

(* A recording does not start. *)
LEMMA StartFailsStep ==
  ASSUME ArbInv, StartFails
  PROVE  ArbInv'
<1> USE ArbiterAssumption DEF StartFails, StartPreempt, RmvAllPnrs, dvbWouldTune, TuningEnds,
      TunedTo, clients, streams, schedule, frontend, rectask
<1>1. ArbType'
  BY DEF ArbInv, ArbType
<1>2. Sharing'
  BY DEF ArbInv, ArbType, Sharing, OneMaster, ClientsYield,
     OfflineExclusive, RecTaskActive
<1>3. StreamsOnTunedTp' /\ NothingLeft'
  BY DEF ArbInv, ArbType, Sharing, OneMaster, OfflineExclusive,
     ClientsYield, RecTaskActive, StreamsOnTunedTp, NothingLeft
<1>4. NotForgottenYet'
  BY DEF ArbInv, ArbType, NotForgottenYet, RecTaskActive
<1> QED BY <1>1, <1>2, <1>3, <1>4 DEF ArbInv

(* rec_task ends an iteration. *)
LEMMA ReapStep ==
  ASSUME ArbInv, Reap
  PROVE  ArbInv'
<1> USE ArbiterAssumption DEF Reap, clients, streams, schedule, frontend, rectask
<1>1. ArbType'
  <2>1. done' \in Seq(Entries)
    <3>1. CASE done = <<>>
      BY <3>1 DEF ArbInv, ArbType
    <3>2. CASE done # <<>>
      BY <3>2, HeadTailProperties DEF ArbInv, ArbType
    <3> QED BY <3>1, <3>2
  <2> QED BY <2>1 DEF ArbInv, ArbType, RecTaskActive
<1>2. Sharing'
  BY DEF ArbInv, ArbType, Sharing, OneMaster, ClientsYield,
     OfflineExclusive, RecTaskActive
<1>3. StreamsOnTunedTp' /\ NothingLeft'
  BY DEF ArbInv, ArbType, Sharing, OneMaster, OfflineExclusive,
     ClientsYield, RecTaskActive, StreamsOnTunedTp, NothingLeft
<1>4. NotForgottenYet'
  BY DEF ArbInv, ArbType, NotForgottenYet, RecTaskActive
<1> QED BY <1>1, <1>2, <1>3, <1>4 DEF ArbInv

(* The offline task tunes. *)
LEMMA OfflineStep ==
  ASSUME ArbInv, NEW t \in TPs, OfflineTune(t)
  PROVE  ArbInv'
<1> USE ArbiterAssumption DEF OfflineTune, TuningEnds, TunedTo, clients, streams, schedule,
      frontend, rectask
<1>1. ArbType'
  BY DEF ArbInv, ArbType
<1>2. Sharing'
  BY DEF ArbInv, ArbType, Sharing, OneMaster, ClientsYield,
     OfflineExclusive, RecTaskActive
<1>3. StreamsOnTunedTp' /\ NothingLeft'
  BY DEF ArbInv, ArbType, Sharing, OneMaster, OfflineExclusive,
     ClientsYield, RecTaskActive, StreamsOnTunedTp, NothingLeft
<1>4. NotForgottenYet'
  BY DEF ArbInv, ArbType, NotForgottenYet, RecTaskActive
<1> QED BY <1>1, <1>2, <1>3, <1>4 DEF ArbInv

(* Nothing happens. *)
LEMMA StutterStep ==
  ASSUME ArbInv, UNCHANGED arbVars
  PROVE  ArbInv'
<1> USE ArbiterAssumption DEF arbVars, clients, streams, schedule, frontend, rectask
<1>1. ArbType'
  BY DEF ArbInv, ArbType
<1>2. Sharing'
  BY DEF ArbInv, ArbType, Sharing, OneMaster, ClientsYield,
     OfflineExclusive, RecTaskActive
<1>3. StreamsOnTunedTp' /\ NothingLeft'
  BY DEF ArbInv, ArbType, Sharing, OneMaster, OfflineExclusive,
     ClientsYield, RecTaskActive, StreamsOnTunedTp, NothingLeft
<1>4. NotForgottenYet'
  BY DEF ArbInv, ArbType, NotForgottenYet, RecTaskActive
<1> QED BY <1>1, <1>2, <1>3, <1>4 DEF ArbInv

-----------------------------------------------------------------------------
(* The frontend is shared as the code means it to be, for any number of    *)
(* connections, transponders and scheduled recordings.                     *)
THEOREM ArbiterInvariant == ArbSpec => []ArbInv
<1>1. ArbInit => ArbInv
  <2> SUFFICES ASSUME ArbInit PROVE ArbInv
    OBVIOUS
  <2>1. ArbType
    <3>1. pnr \in [Conns -> TPs \cup {NoTp}] /\ quickrec \in [Conns -> TPs \cup {NoTp}]
      BY DEF ArbInit
    <3>2. recs \in Seq(Entries) /\ done \in Seq(Entries)
      BY DEF ArbInit
    <3>3. sched \subseteq Entries /\ pending \subseteq sched
      BY DEF ArbInit
    <3>4. up \in BOOLEAN /\ ot \in BOOLEAN /\ conn_active \subseteq Conns
      BY DEF ArbInit
    <3>5. /\ ~up => conn_active = {}
          /\ tp \in TPs \cup {NoTp} /\ master \in Conns \cup {NoConn}
          /\ step \notin {"fetch", "join", "start"}
      BY DEF ArbInit
    <3> QED BY <3>1, <3>2, <3>3, <3>4, <3>5 DEF ArbType
  <2>2. Sharing
    BY DEF ArbInit, Sharing, OneMaster, ClientsYield, OfflineExclusive, RecTaskActive
  <2>3. StreamsOnTunedTp /\ NothingLeft /\ NotForgottenYet
    BY DEF ArbInit, StreamsOnTunedTp, NothingLeft, NotForgottenYet
  <2> QED BY <2>1, <2>2, <2>3 DEF ArbInv
<1>2. ArbInv /\ [ArbNext]_arbVars => ArbInv'
  <2> SUFFICES ASSUME ArbInv, [ArbNext]_arbVars PROVE ArbInv'
    OBVIOUS
  <2>1. ASSUME NEW c \in Conns,
               Connect(c) \/ Disconnect(c) \/ GoActive(c) \/ GoInactive(c)
        PROVE  ArbInv'
    BY <2>1, ConnectStep, DisconnectStep, GoActiveStep, GoInactiveStep
  <2>2. ASSUME NEW c \in Conns, TunePgHere(c) \/ srvSetSwitch(c) \/ RecPgm(c) \/ RecPgmStop(c)
        PROVE  ArbInv'
    BY <2>2, HereStep
  <2>3. ASSUME NEW c \in Conns, NEW t \in TPs,
               TunePgElsewhere(c, t) \/ ScanTp(c, t) \/ Retune(c, t)
        PROVE  ArbInv'
    BY <2>3, TuneStep
  <2>4. ASSUME NEW c \in Conns,
               AbortRec(c) \/ \E new \in SUBSET Entries : RecSched(c, new)
        PROVE  ArbInv'
    BY <2>4, AbortRecStep, RecSchedStep
  <2>5. ASSUME NEW e \in Entries, ComesDue(e) \/ RecorderEnds(e) \/ Pick(e)
        PROVE  ArbInv'
    BY <2>5, ComesDueStep, RecorderEndsStep, PickStep
  <2>6. CASE Wake \/ AbortFetch \/ AbortJoin \/ Start \/ StartFails \/ Reap
    BY <2>6, WakeStep, AbortFetchStep, AbortJoinStep, StartStep, StartFailsStep, ReapStep
  <2>7. ASSUME NEW t \in TPs, OfflineTune(t) PROVE ArbInv'
    BY <2>7, OfflineStep
  <2>8. CASE UNCHANGED arbVars
    BY <2>8, StutterStep
  <2>9. CASE ControlRun
    BY <2>9, ControlRunStep
  <2> QED BY <2>1, <2>2, <2>3, <2>4, <2>5, <2>6, <2>7, <2>8, <2>9 DEF ArbNext
<1> QED BY <1>1, <1>2, PTL DEF ArbSpec

(* There is never a second master and no active connection but the         *)
(* master's: activate_connection, deactivate_connection, rt_start and the  *)
(* end of server() together keep it so.                                    *)
THEOREM MasterIsUnique == ArbSpec => []OneMaster
<1>1. ArbInv => OneMaster
  BY DEF ArbInv, Sharing
<1> QED BY <1>1, ArbiterInvariant, PTL

(* No connection is active while a scheduled recording runs:               *)
(* can_go_active refuses it, and rt_start has deposed the one there was.   *)
THEOREM ClientsAlwaysYield == ArbSpec => []ClientsYield
<1>1. ArbInv => ClientsYield
  BY DEF ArbInv, Sharing
<1> QED BY <1>1, ArbiterInvariant, PTL

(* The offline task, which tunes without conn_mutex, runs beside no        *)
(* connection and no recording (create_connection, rt_start, server()).    *)
THEOREM OfflineTaskIsAlone == ArbSpec => []OfflineExclusive
<1>1. ArbInv => OfflineExclusive
  BY DEF ArbInv, Sharing
<1> QED BY <1>1, ArbiterInvariant, PTL

(* No retuning leaves a stream or a quick recording on the transponder it  *)
(* has left.                                                               *)
THEOREM NoStreamLeftBehind == ArbSpec => []StreamsOnTunedTp
<1>1. ArbInv => StreamsOnTunedTp
  BY DEF ArbInv
<1> QED BY <1>1, ArbiterInvariant, PTL

(* An unused frontend is with the offline task, or will be when the ended  *)
(* recording is joined.                                                    *)
THEOREM OfflineTaskComesBack == ArbSpec => []FrontendNotForgotten
<1>1. ArbInv => FrontendNotForgotten
  BY DEF ArbInv, NotForgottenYet, FrontendNotForgotten
<1> QED BY <1>1, ArbiterInvariant, PTL

(* No client and no offline task takes the frontend from a scheduled       *)
(* recording, srvScanTp included, which does not ask.                      *)
THEOREM RecordingsKeepTheFrontend == ArbSpec => OnlyRecTaskRetunes
<1>1. ArbInv /\ [ArbNext]_arbVars => [RecTaskActive /\ tp' # tp => step = "start"]_arbVars
  <2> SUFFICES ASSUME ArbInv, ArbNext, RecTaskActive, tp' # tp
               PROVE  step = "start"
    OBVIOUS
  <2>1. ~ot /\ \A c \in Conns : c \notin conn_active \cap active
    BY DEF ArbInv, Sharing, ClientsYield, OfflineExclusive
  <2>2. ASSUME NEW c \in Conns,
               \/ Connect(c) \/ Disconnect(c)
               \/ \E t \in TPs : TunePgElsewhere(c, t) \/ ScanTp(c, t) \/ Retune(c, t)
        PROVE  FALSE
    BY <2>1, <2>2 DEF Connect, Disconnect, TunePgElsewhere, ScanTp, Retune, TunedTo, frontend
  <2>3. ASSUME NEW c \in Conns,
               \/ GoActive(c) \/ GoInactive(c) \/ TunePgHere(c) \/ srvSetSwitch(c)
               \/ RecPgm(c) \/ RecPgmStop(c) \/ AbortRec(c)
               \/ \E new \in SUBSET Entries : RecSched(c, new)
        PROVE  FALSE
    BY <2>3 DEF GoActive, GoInactive, TunePgHere, srvSetSwitch, RecPgm, RecPgmStop, AbortRec,
                RecSched, frontend
  <2>4. ASSUME NEW e \in Entries, ComesDue(e) \/ RecorderEnds(e) \/ Pick(e)
        PROVE  FALSE
    BY <2>4 DEF ComesDue, RecorderEnds, Pick, frontend
  <2>5. ASSUME NEW t \in TPs, OfflineTune(t) PROVE FALSE
    BY <2>1, <2>5 DEF OfflineTune
  <2>6. ASSUME ControlRun \/ Wake \/ AbortFetch \/ AbortJoin \/ Reap PROVE FALSE
    BY <2>6 DEF ControlRun, Wake, AbortFetch, AbortJoin, Reap, frontend
  <2>7. CASE Start \/ StartFails
    BY <2>7 DEF Start, StartFails, StartPreempt
  <2> QED BY <2>2, <2>3, <2>4, <2>5, <2>6, <2>7 DEF ArbNext
<1> QED BY <1>1, ArbiterInvariant, PTL DEF ArbSpec, OnlyRecTaskRetunes

-----------------------------------------------------------------------------
(* Retuning it: Tuning                                                     *)

Quiet(ev) == ev.id \in {"E_IDLE", "E_TUNING"}
Tunes(ev) == ev.id = "E_TUNED"

(* Where the caller is decides what is tuned and that nothing is streamed. *)
CallerInv ==
  /\ pc \in {"wait_idle", "tune", "wait_tuned", "tuned"} => goal.tp \in Transponders
  /\ pc \in {"wait_tuned", "tuned"} => tuned \in Transponders
  /\ pc \in {"wait_idle", "tune", "wait_untuned"} => tuned = Untuned
  /\ pc # "ready" \/ tuned = Untuned => streaming = {}
  /\ pc = "tune" => \A l \in Listeners : idle[l]
  /\ ~pids["sap"]

(* A tuned event is in a queue only while the caller waits for everybody   *)
(* to have read it, as the last one, and whoever has not is idle.          *)
TunedLast(l) ==
  LET q == queue[l] IN
  IF pc = "wait_tuned"
  THEN q # <<>> => idle[l] /\ \A i \in 1..Len(q) : Tunes(q[i]) <=> i = Len(q)
  ELSE \A i \in 1..Len(q) : ~Tunes(q[i])

(* On a tuned frontend nobody idles nor will.  Else a listener has been    *)
(* told and after that only been told again, or it will be told last.      *)
Settled(l) ==
  LET q == queue[l] IN
  /\ \A i \in 1..Len(q) : q[i].id # "E_CONFIG"
  /\ tuned # Untuned => ~idle[l] /\ \A i \in 1..Len(q) : ~Quiet(q[i])
  /\ tuned = Untuned =>
       /\ \A i, j \in 1..Len(q) : i <= j /\ Quiet(q[i]) => Quiet(q[j])
       /\ idle[l] => ~pids[l] /\ \A i \in 1..Len(q) : Quiet(q[i])
       /\ ~idle[l] => q # <<>> /\ Quiet(q[Len(q)])

(* What net_writer and sap make of the programs P they serve.              *)
Served(P, ev) ==
  IF Quiet(ev) THEN {}
  ELSE IF ev.id = "E_PNR_ADD" THEN P \cup {ev.arg}
  ELSE IF ev.id = "E_PNR_RMV" THEN P \ {ev.arg}
  ELSE P

(* The events q lead from the programs P to S; tr is the way.              *)
Reaches(P, q, S) ==
  \E tr \in [0..Len(q) -> SUBSET Pnrs] :
    /\ tr[0] = P /\ tr[Len(q)] = S
    /\ \A i \in 1..Len(q) : tr[i] = Served(tr[i - 1], q[i])

(* All of it; on the streamers: what they serve and have not read yet      *)
(* leads to what is streamed, wherever the caller is.                      *)
TuningInv ==
  /\ TypeOK
  /\ CallerInv
  /\ \A l \in Listeners : TunedLast(l)
  /\ ~disturbed /\ pc # "wait_tuned" => \A l \in Listeners : Settled(l)
  /\ \A l \in {"net_writer", "sap"} : Reaches(pnrs[l], queue[l], streaming)

-----------------------------------------------------------------------------
(* Events and queues.                                                      *)

(* What events there are.                                                  *)
LEMMA EventForms ==
  ASSUME NEW ev \in Events
  PROVE  /\ ev.id \in {"E_IDLE", "E_TUNING", "E_CONFIG", "E_ALL_VT", "E_TUNED",
                       "E_PNR_ADD", "E_PNR_RMV"}
         /\ ev.id \in {"E_PNR_ADD", "E_PNR_RMV"} => ev.arg \in Pnrs
  BY DEF Events

(* The events the caller sends are events.                                 *)
LEMMA SentEvents ==
  /\ \A id \in {"E_IDLE", "E_TUNING", "E_CONFIG", "E_ALL_VT"} :
       Ev(id, Untuned) \in Events /\ Ev(id, Untuned).id = id
  /\ \A t \in Transponders : Ev("E_TUNED", t) \in Events /\ Ev("E_TUNED", t).id = "E_TUNED"
  /\ \A id \in {"E_PNR_ADD", "E_PNR_RMV"}, p \in Pnrs :
       Ev(id, p) \in Events /\ Ev(id, p).id = id /\ Ev(id, p).arg = p
  BY DEF Ev, Events

LEMMA ServedType ==
  ASSUME NEW P \in SUBSET Pnrs, NEW ev \in Events
  PROVE  Served(P, ev) \in SUBSET Pnrs
  BY EventForms DEF Served

(* Events that lead somewhere, and one more.                               *)
LEMMA ReachesAppend ==
  ASSUME NEW q \in Seq(Events), NEW P, NEW S, NEW e \in Events, Reaches(P, q, S)
  PROVE  Reaches(P, Append(q, e), Served(S, e))
<1>1. PICK tr \in [0..Len(q) -> SUBSET Pnrs] :
        /\ tr[0] = P /\ tr[Len(q)] = S
        /\ \A i \in 1..Len(q) : tr[i] = Served(tr[i - 1], q[i])
  BY DEF Reaches
<1> DEFINE n == Len(q)
           r == Append(q, e)
           t2 == [i \in 0..(n + 1) |-> IF i = n + 1 THEN Served(S, e) ELSE tr[i]]
<1>2. n \in Nat /\ Len(r) = n + 1 /\ r[n + 1] = e /\ \A i \in 1..n : r[i] = q[i]
  OBVIOUS
<1> HIDE DEF r
<1>3. S \in SUBSET Pnrs
  BY <1>1, <1>2
<1>4. Served(S, e) \in SUBSET Pnrs
  BY <1>3, ServedType
<1>5. t2 \in [0..Len(r) -> SUBSET Pnrs]
  BY <1>1, <1>2, <1>4
<1>6. t2[0] = P /\ t2[Len(r)] = Served(S, e)
  BY <1>1, <1>2
<1>7. ASSUME NEW i \in 1..Len(r) PROVE t2[i] = Served(t2[i - 1], r[i])
  <2>1. CASE i = n + 1
    BY <2>1, <1>1, <1>2
  <2>2. CASE i # n + 1
    <3>1. i \in 1..n /\ i - 1 \in 0..n
      BY <2>2, <1>2
    <3> QED BY <3>1, <1>1, <1>2
  <2> QED BY <2>1, <2>2
<1>8. Reaches(P, r, Served(S, e))
  BY <1>5, <1>6, <1>7 DEF Reaches
<1> QED BY <1>8 DEF r

(* ... and one less.                                                       *)
LEMMA ReachesTail ==
  ASSUME NEW q \in Seq(Events), NEW P, NEW S, q # <<>>, Reaches(P, q, S)
  PROVE  Reaches(Served(P, Head(q)), Tail(q), S)
<1>1. PICK tr \in [0..Len(q) -> SUBSET Pnrs] :
        /\ tr[0] = P /\ tr[Len(q)] = S
        /\ \A i \in 1..Len(q) : tr[i] = Served(tr[i - 1], q[i])
  BY DEF Reaches
<1> DEFINE n == Len(q)
           r == Tail(q)
           t2 == [i \in 0..(n - 1) |-> tr[i + 1]]
<1>2. n \in Nat /\ n # 0 /\ Len(r) = n - 1 /\ Head(q) = q[1]
      /\ \A i \in 1..(n - 1) : r[i] = q[i + 1]
  OBVIOUS
<1> HIDE DEF r
<1>3. t2 \in [0..Len(r) -> SUBSET Pnrs]
  BY <1>1, <1>2
<1>4. t2[0] = Served(P, Head(q)) /\ t2[Len(r)] = S
  BY <1>1, <1>2
<1>5. ASSUME NEW i \in 1..Len(r) PROVE t2[i] = Served(t2[i - 1], r[i])
  <2>1. i \in 1..(n - 1) /\ i + 1 \in 1..n /\ (i - 1) + 1 = i /\ (i + 1) - 1 = i
        /\ i - 1 \in 0..(n - 1) /\ i \in 0..(n - 1)
    BY <1>2
  <2> QED BY <2>1, <1>1, <1>2
<1>6. Reaches(Served(P, Head(q)), r, S)
  BY <1>3, <1>4, <1>5 DEF Reaches
<1> QED BY <1>6 DEF r

(* Nothing to read: there already.                                         *)
LEMMA ReachesEmpty ==
  ASSUME NEW P \in SUBSET Pnrs, NEW S
  PROVE  Reaches(P, <<>>, S) <=> P = S
<1>1. ASSUME P = S PROVE Reaches(P, <<>>, S)
  <2> DEFINE tr == [i \in 0..0 |-> P]
  <2>1. Len(<<>>) = 0
    OBVIOUS
  <2>2. tr \in [0..0 -> SUBSET Pnrs] /\ tr[0] = P
    OBVIOUS
  <2>3. \A i \in 1..0 : tr[i] = Served(tr[i - 1], <<>>[i])
    OBVIOUS
  <2> HIDE DEF tr
  <2>4. \E t \in [0..0 -> SUBSET Pnrs] :
          /\ t[0] = P /\ t[0] = P
          /\ \A i \in 1..0 : t[i] = Served(t[i - 1], <<>>[i])
    BY <2>2, <2>3
  <2> QED BY <1>1, <2>1, <2>4 DEF Reaches
<1>2. ASSUME Reaches(P, <<>>, S) PROVE P = S
  BY <1>2 DEF Reaches
<1> QED BY <1>1, <1>2

-----------------------------------------------------------------------------
(* What a listener does to its own flags with an event, and that it        *)
(* touches no other's.                                                     *)
Frame(l) ==
  /\ idle' \in [Listeners -> BOOLEAN] /\ pids' \in [Listeners -> BOOLEAN]
  /\ pnrs' \in [Listeners -> SUBSET Pnrs] /\ known' \in SUBSET Transponders
  /\ \A m \in Listeners \ {l} :
       idle'[m] = idle[m] /\ pids'[m] = pids[m] /\ pnrs'[m] = pnrs[m]

Flags(l, ev) ==
  /\ Frame(l)
  /\ Quiet(ev) => idle'[l] /\ ~pids'[l]
  /\ ev.id \notin {"E_IDLE", "E_TUNING", "E_TUNED", "E_CONFIG"} => idle'[l] = idle[l]
  /\ ~Tunes(ev) /\ idle[l] => idle'[l]

LEMMA pgmdbEffect ==
  ASSUME TypeOK, NEW ev \in Events, pgmdb_proc_evt(ev)
  PROVE  Flags("pgmdb", ev)
<1> USE DEF Quiet, Tunes
<1>t. /\ idle \in [Listeners -> BOOLEAN] /\ pids \in [Listeners -> BOOLEAN]
      /\ pnrs \in [Listeners -> SUBSET Pnrs] /\ known \in SUBSET Transponders /\ "pgmdb" \in Listeners
  BY DEF TypeOK, Listeners
<1>p. UNCHANGED pnrs
  BY DEF pgmdb_proc_evt
<1>1. CASE Quiet(ev)
  <2>1. Set(idle, "pgmdb", TRUE) /\ Set(pids, "pgmdb", FALSE) /\ UNCHANGED known
    BY <1>1 DEF pgmdb_proc_evt
  <2> QED BY <1>t, <1>p, <1>1, <2>1 DEF Flags, Frame, Set
<1>2. CASE Tunes(ev)
  <2>1. /\ \/ Set(idle, "pgmdb", FALSE) /\ Set(pids, "pgmdb", TRUE)
           \/ UNCHANGED <<idle, pids>>
        /\ UNCHANGED known
    BY <1>2 DEF pgmdb_proc_evt
  <2>2. CASE UNCHANGED <<idle, pids>>
    BY <1>t, <1>p, <1>2, <2>1, <2>2 DEF Flags, Frame
  <2>3. CASE Set(idle, "pgmdb", FALSE) /\ Set(pids, "pgmdb", TRUE)
    BY <1>t, <1>p, <1>2, <2>1, <2>3 DEF Flags, Frame, Set
  <2> QED BY <2>1, <2>2, <2>3
<1>3. CASE ev.id = "E_CONFIG"
  <2>1. Set(idle, "pgmdb", TRUE) /\ Set(pids, "pgmdb", FALSE) /\ known' \in SUBSET Transponders
    BY <1>3 DEF pgmdb_proc_evt
  <2> QED BY <1>t, <1>p, <1>3, <2>1 DEF Flags, Frame, Set
<1>4. CASE ev.id \notin {"E_IDLE", "E_TUNING", "E_TUNED", "E_CONFIG"}
  <2>1. UNCHANGED <<idle, pids, known>>
    BY <1>4 DEF pgmdb_proc_evt
  <2> QED BY <1>t, <1>p, <1>4, <2>1 DEF Flags, Frame
<1> QED BY EventForms, <1>1, <1>2, <1>3, <1>4

LEMMA vtdbEffect ==
  ASSUME TypeOK, NEW ev \in Events, vtdb_proc_evt(ev)
  PROVE  Flags("vtdb", ev)
<1> USE DEF Quiet, Tunes
<1>t. /\ idle \in [Listeners -> BOOLEAN] /\ pids \in [Listeners -> BOOLEAN]
      /\ pnrs \in [Listeners -> SUBSET Pnrs] /\ known \in SUBSET Transponders /\ "vtdb" \in Listeners
  BY DEF TypeOK, Listeners
<1>1. CASE Quiet(ev) \/ ev.id = "E_CONFIG"
  <2>1. /\ Set(idle, "vtdb", TRUE)
        /\ Set(pids, "vtdb", FALSE)
        /\ Set(pnrs, "vtdb", {})
        /\ UNCHANGED known
    BY <1>1 DEF vtdb_proc_evt
  <2> QED BY <1>t, <1>1, <2>1, EventForms DEF Flags, Frame, Set
<1>2. CASE Tunes(ev)
  <2>1. /\ Set(idle, "vtdb", FALSE)
        /\ UNCHANGED <<pids, pnrs, known>>
    BY <1>2 DEF vtdb_proc_evt
  <2> QED BY <1>t, <1>2, <2>1, EventForms DEF Flags, Frame, Set
<1>3. CASE ev.id = "E_PNR_ADD"
  <2>1. /\ Set(pnrs, "vtdb", pnrs["vtdb"] \cup {ev.arg})
        /\ Set(pids, "vtdb", TRUE)
        /\ UNCHANGED <<idle, known>>
    BY <1>3 DEF vtdb_proc_evt
  <2> QED BY <1>t, <1>3, <2>1, EventForms DEF Flags, Frame, Set
<1>4. CASE ev.id = "E_PNR_RMV"
  <2>1. /\ Set(pnrs, "vtdb", pnrs["vtdb"] \ {ev.arg})
        /\ Set(pids, "vtdb", pnrs'["vtdb"] # {})
        /\ UNCHANGED <<idle, known>>
    BY <1>4 DEF vtdb_proc_evt
  <2> QED BY <1>t, <1>4, <2>1, EventForms DEF Flags, Frame, Set
<1>5. CASE ev.id = "E_ALL_VT"
  <2>1. /\ \E listed \in SUBSET Pnrs : Set(pnrs, "vtdb", pnrs["vtdb"] \cup listed)
        /\ Set(pids, "vtdb", pnrs'["vtdb"] # {})
        /\ UNCHANGED <<idle, known>>
    BY <1>5 DEF vtdb_proc_evt
  <2> QED BY <1>t, <1>5, <2>1, EventForms DEF Flags, Frame, Set
<1> QED BY EventForms, <1>1, <1>2, <1>3, <1>4, <1>5

LEMMA epgdbEffect ==
  ASSUME TypeOK, NEW ev \in Events, epgdb_proc_evt(ev)
  PROVE  Flags("epgdb", ev)
<1> USE DEF Quiet, Tunes
<1>t. /\ idle \in [Listeners -> BOOLEAN] /\ pids \in [Listeners -> BOOLEAN]
      /\ pnrs \in [Listeners -> SUBSET Pnrs] /\ known \in SUBSET Transponders /\ "epgdb" \in Listeners
  BY DEF TypeOK, Listeners
<1>1. CASE Quiet(ev)
  <2>1. /\ Set(idle, "epgdb", TRUE)
        /\ Set(pids, "epgdb", FALSE)
        /\ UNCHANGED <<pnrs, known>>
    BY <1>1 DEF epgdb_proc_evt
  <2> QED BY <1>t, <1>1, <2>1, EventForms DEF Flags, Frame, Set
<1>2. CASE Tunes(ev)
  <2>1. /\ Set(idle, "epgdb", FALSE)
        /\ Set(pids, "epgdb", TRUE)
        /\ UNCHANGED <<pnrs, known>>
    BY <1>2 DEF epgdb_proc_evt
  <2> QED BY <1>t, <1>2, <2>1, EventForms DEF Flags, Frame, Set
<1>3. CASE ~Quiet(ev) /\ ~Tunes(ev)
  <2>1. UNCHANGED <<idle, pids, pnrs, known>>
    BY <1>3 DEF epgdb_proc_evt
  <2> QED BY <1>t, <1>3, <2>1, EventForms DEF Flags, Frame, Set
<1> QED BY EventForms, <1>1, <1>2, <1>3

LEMMA net_writerEffect ==
  ASSUME TypeOK, NEW ev \in Events, do_stream(ev)
  PROVE  /\ Flags("net_writer", ev)
         /\ pnrs'["net_writer"] = Served(pnrs["net_writer"], ev)
<1> USE DEF Quiet, Tunes
<1>t. /\ idle \in [Listeners -> BOOLEAN] /\ pids \in [Listeners -> BOOLEAN]
      /\ pnrs \in [Listeners -> SUBSET Pnrs] /\ known \in SUBSET Transponders /\ "net_writer" \in Listeners
  BY DEF TypeOK, Listeners
<1>1. CASE Quiet(ev)
  <2>1. /\ Set(idle, "net_writer", TRUE)
        /\ Set(pnrs, "net_writer", {})
        /\ Set(pids, "net_writer", FALSE)
        /\ UNCHANGED known
    BY <1>1 DEF do_stream
  <2> QED BY <1>t, <1>1, <2>1, EventForms DEF Flags, Frame, Set, Served
<1>2. CASE Tunes(ev)
  <2>1. /\ Set(idle, "net_writer", FALSE)
        /\ UNCHANGED <<pids, pnrs, known>>
    BY <1>2 DEF do_stream
  <2> QED BY <1>t, <1>2, <2>1, EventForms DEF Flags, Frame, Set, Served
<1>3. CASE ev.id = "E_PNR_ADD"
  <2>1. /\ Set(pnrs, "net_writer", pnrs["net_writer"] \cup {ev.arg})
        /\ Set(pids, "net_writer", StreamEit \/ pnrs'["net_writer"] # {})
        /\ UNCHANGED <<idle, known>>
    BY <1>3 DEF do_stream
  <2> QED BY <1>t, <1>3, <2>1, EventForms DEF Flags, Frame, Set, Served
<1>4. CASE ev.id = "E_PNR_RMV"
  <2>1. /\ Set(pnrs, "net_writer", pnrs["net_writer"] \ {ev.arg})
        /\ Set(pids, "net_writer", StreamEit \/ pnrs'["net_writer"] # {})
        /\ UNCHANGED <<idle, known>>
    BY <1>4 DEF do_stream
  <2> QED BY <1>t, <1>4, <2>1, EventForms DEF Flags, Frame, Set, Served
<1>5. CASE ev.id \in {"E_CONFIG", "E_ALL_VT"}
  <2>1. UNCHANGED <<idle, pids, pnrs, known>>
    BY <1>5 DEF do_stream
  <2> QED BY <1>t, <1>5, <2>1, EventForms DEF Flags, Frame, Set, Served
<1> QED BY EventForms, <1>1, <1>2, <1>3, <1>4, <1>5

LEMMA sapEffect ==
  ASSUME TypeOK, NEW ev \in Events, sap_proc_evt(ev), ~pids["sap"]
  PROVE  /\ Flags("sap", ev)
         /\ pnrs'["sap"] = Served(pnrs["sap"], ev)
         /\ ~pids'["sap"]
<1> USE DEF Quiet, Tunes
<1>t. /\ idle \in [Listeners -> BOOLEAN] /\ pids \in [Listeners -> BOOLEAN]
      /\ pnrs \in [Listeners -> SUBSET Pnrs] /\ known \in SUBSET Transponders /\ "sap" \in Listeners
  BY DEF TypeOK, Listeners
<1>1. CASE Quiet(ev)
  <2>1. /\ Set(idle, "sap", TRUE)
        /\ Set(pnrs, "sap", {})
        /\ UNCHANGED <<pids, known>>
    BY <1>1 DEF sap_proc_evt
  <2> QED BY <1>t, <1>1, <2>1, EventForms DEF Flags, Frame, Set, Served
<1>2. CASE Tunes(ev)
  <2>1. /\ Set(idle, "sap", FALSE)
        /\ UNCHANGED <<pids, pnrs, known>>
    BY <1>2 DEF sap_proc_evt
  <2> QED BY <1>t, <1>2, <2>1, EventForms DEF Flags, Frame, Set, Served
<1>3. CASE ev.id = "E_PNR_ADD"
  <2>1. /\ Set(pnrs, "sap", pnrs["sap"] \cup {ev.arg})
        /\ UNCHANGED <<idle, pids, known>>
    BY <1>3 DEF sap_proc_evt
  <2> QED BY <1>t, <1>3, <2>1, EventForms DEF Flags, Frame, Set, Served
<1>4. CASE ev.id = "E_PNR_RMV"
  <2>1. /\ Set(pnrs, "sap", pnrs["sap"] \ {ev.arg})
        /\ UNCHANGED <<idle, pids, known>>
    BY <1>4 DEF sap_proc_evt
  <2> QED BY <1>t, <1>4, <2>1, EventForms DEF Flags, Frame, Set, Served
<1>5. CASE ev.id \in {"E_CONFIG", "E_ALL_VT"}
  <2>1. UNCHANGED <<idle, pids, pnrs, known>>
    BY <1>5 DEF sap_proc_evt
  <2> QED BY <1>t, <1>5, <2>1, EventForms DEF Flags, Frame, Set, Served
<1> QED BY EventForms, <1>1, <1>2, <1>3, <1>4, <1>5

(* One event read, whoever reads it.                                       *)
LEMMA HandleEffect ==
  ASSUME TypeOK, ~pids["sap"], NEW l \in Listeners, NEW ev \in Events, Handle(l, ev)
  PROVE  /\ Flags(l, ev) /\ ~pids'["sap"]
         /\ l \in {"net_writer", "sap"} => pnrs'[l] = Served(pnrs[l], ev)
<1>1. CASE l = "pgmdb" /\ pgmdb_proc_evt(ev)
  <2>1. Flags("pgmdb", ev)
    BY <1>1, pgmdbEffect
  <2>2. pids'["sap"] = pids["sap"]
    BY <2>1 DEF Flags, Frame, Listeners
  <2> QED BY <1>1, <2>1, <2>2
<1>2. CASE l = "vtdb" /\ vtdb_proc_evt(ev)
  <2>1. Flags("vtdb", ev)
    BY <1>2, vtdbEffect
  <2>2. pids'["sap"] = pids["sap"]
    BY <2>1 DEF Flags, Frame, Listeners
  <2> QED BY <1>2, <2>1, <2>2
<1>3. CASE l = "epgdb" /\ epgdb_proc_evt(ev)
  <2>1. Flags("epgdb", ev)
    BY <1>3, epgdbEffect
  <2>2. pids'["sap"] = pids["sap"]
    BY <2>1 DEF Flags, Frame, Listeners
  <2> QED BY <1>3, <2>1, <2>2
<1>4. CASE l = "net_writer" /\ do_stream(ev)
  <2>1. Flags("net_writer", ev) /\ pnrs'["net_writer"] = Served(pnrs["net_writer"], ev)
    BY <1>4, net_writerEffect
  <2>2. pids'["sap"] = pids["sap"]
    BY <2>1 DEF Flags, Frame, Listeners
  <2> QED BY <1>4, <2>1, <2>2
<1>5. CASE l = "sap" /\ sap_proc_evt(ev)
  BY <1>5, sapEffect
<1> QED BY <1>1, <1>2, <1>3, <1>4, <1>5 DEF Handle

(* One event read.                                                         *)
LEMMA ListenEffect ==
  ASSUME TypeOK, ~pids["sap"], NEW l \in Listeners, Listen(l)
  PROVE  /\ TypeOK' /\ ~pids'["sap"]
         /\ queue[l] # <<>> /\ queue[l] \in Seq(Events) /\ queue[l][1] \in Events
         /\ queue'[l] = Tail(queue[l]) /\ Head(queue[l]) = queue[l][1]
         /\ \A m \in Listeners \ {l} : queue'[m] = queue[m]
         /\ Flags(l, queue[l][1])
         /\ l \in {"net_writer", "sap"} => pnrs'[l] = Served(pnrs[l], queue[l][1])
         /\ UNCHANGED <<tuned, streaming, pc, goal, disturbed>>
<1> DEFINE q == queue[l]
           e == Head(queue[l])
<1>1. q \in Seq(Events) /\ q # <<>>
  BY DEF TypeOK, Listen
<1>2. e \in Events /\ e = q[1] /\ Tail(q) \in Seq(Events)
  BY <1>1
<1>3. PICK ev \in Events : ev = e /\ Handle(l, ev)
  BY <1>2, Zenon DEF Listen, Handle, pgmdb_proc_evt, vtdb_proc_evt, epgdb_proc_evt,
                     do_stream, sap_proc_evt, Set
<1>4. /\ queue' \in [Listeners -> Seq(Events)] /\ queue'[l] = Tail(q)
      /\ \A m \in Listeners \ {l} : queue'[m] = queue[m]
  BY <1>2 DEF Listen, TypeOK
<1>5. UNCHANGED <<tuned, streaming, pc, goal, disturbed>>
  BY DEF Listen
<1>6. /\ Flags(l, ev) /\ ~pids'["sap"]
      /\ l \in {"net_writer", "sap"} => pnrs'[l] = Served(pnrs[l], ev)
  BY <1>3, HandleEffect
<1> HIDE DEF e
<1>8. /\ Flags(l, q[1])
      /\ l \in {"net_writer", "sap"} => pnrs'[l] = Served(pnrs[l], q[1])
  BY <1>2, <1>3, <1>6 DEF Flags, Quiet, Tunes, Served
<1>7. TypeOK'
  BY <1>4, <1>5, <1>6 DEF TypeOK, Flags, Frame
<1> QED BY <1>1, <1>2, <1>4, <1>5, <1>6, <1>7, <1>8 DEF e

(* Events sent.                                                            *)
LEMMA SendEffect ==
  ASSUME queue \in [Listeners -> Seq(Events)], NEW evs \in Seq(Events), Send(evs)
  PROVE  /\ queue' \in [Listeners -> Seq(Events)]
         /\ \A l \in Listeners :
              /\ queue'[l] = queue[l] \o evs
              /\ Len(queue'[l]) = Len(queue[l]) + Len(evs)
              /\ Len(queue[l]) \in Nat
              /\ \A i \in 1..Len(queue[l]) : queue'[l][i] = queue[l][i]
              /\ \A i \in 1..Len(evs) : queue'[l][Len(queue[l]) + i] = evs[i]
              /\ evs # <<>> => queue'[l] # <<>>
  BY DEF Send

(* Nothing sent.                                                           *)
LEMMA SendNothing ==
  ASSUME queue \in [Listeners -> Seq(Events)], UNCHANGED queue
  PROVE  Send(<<>>)
<1>1. \A l \in Listeners : queue[l] \o <<>> = queue[l]
  OBVIOUS
<1> QED BY <1>1 DEF Send

(* An event set that is sent one by one or in pairs.                       *)
LEMMA SendTypes ==
  /\ <<>> \in Seq(Events) /\ Len(<<>>) = 0
  /\ \A a \in Events : <<a>> \in Seq(Events) /\ Len(<<a>>) = 1 /\ <<a>>[1] = a
  /\ \A a, b \in Events : /\ <<a, b>> \in Seq(Events) /\ Len(<<a, b>>) = 2
                          /\ <<a, b>>[1] = a /\ <<a, b>>[2] = b
  OBVIOUS

(* Sending keeps tuned events out of the queues, unless it sends one.      *)
LEMMA SendNotTuned ==
  ASSUME queue \in [Listeners -> Seq(Events)], NEW evs \in Seq(Events), Send(evs),
         \A i \in 1..Len(evs) : ~Tunes(evs[i]),
         pc # "wait_tuned", pc' # "wait_tuned", NEW l \in Listeners, TunedLast(l)
  PROVE  TunedLast(l)'
<1> DEFINE q == queue[l]
           n == Len(q)
<1>1. n \in Nat /\ Len(evs) \in Nat
  OBVIOUS
<1>2. ASSUME NEW i \in 1..Len(queue'[l]) PROVE ~Tunes(queue'[l][i])
  <2>1. Len(queue'[l]) = n + Len(evs)
    BY SendEffect
  <2>2. CASE i <= n
    <3>1. i \in 1..n
      BY <1>1, <2>1, <2>2
    <3> QED BY <3>1, SendEffect DEF TunedLast
  <2>3. CASE ~(i <= n)
    <3>1. i - n \in 1..Len(evs) /\ i = n + (i - n)
      BY <1>1, <2>1, <2>3
    <3>2. queue'[l][n + (i - n)] = evs[i - n]
      BY <3>1, SendEffect
    <3> QED BY <3>1, <3>2
  <2> QED BY <2>2, <2>3
<1> QED BY <1>2 DEF TunedLast

(* Listeners that will be idle are told so again.                          *)
LEMMA SendQuiet ==
  ASSUME queue \in [Listeners -> Seq(Events)], NEW evs \in Seq(Events), Send(evs),
         \A i \in 1..Len(evs) : Quiet(evs[i]),
         tuned = Untuned, tuned' = Untuned, idle' = idle, NEW l \in Listeners,
         pids'[l] => pids[l], Settled(l)
  PROVE  Settled(l)'
<1> DEFINE q == queue[l]
           r == queue'[l]
           n == Len(q)
<1>1. n \in Nat /\ Len(evs) \in Nat /\ Len(r) = n + Len(evs)
  BY SendEffect
<1>2. ASSUME NEW i \in 1..Len(r) PROVE IF i <= n THEN i \in 1..n /\ r[i] = q[i] ELSE Quiet(r[i])
  <2>1. CASE i <= n
    BY <1>1, <2>1, SendEffect
  <2>2. CASE ~(i <= n)
    <3>1. i - n \in 1..Len(evs) /\ i = n + (i - n)
      BY <1>1, <2>2
    <3>2. queue'[l][n + (i - n)] = evs[i - n]
      BY <3>1, SendEffect
    <3> QED BY <2>2, <3>1, <3>2
  <2> QED BY <2>1, <2>2
<1>3. q \in Seq(Events) /\ (q # <<>> => n > 0)
  OBVIOUS
<1>4. r \in Seq(Events) /\ (Len(r) > 0 => r # <<>>)
  BY SendEffect
<1> HIDE DEF q, r, n
<1>5. \A i \in 1..Len(r) : r[i].id # "E_CONFIG"
  BY <1>1, <1>2 DEF Settled, Quiet, q, n
<1>6. \A i, k \in 1..Len(r) : i <= k /\ Quiet(r[i]) => Quiet(r[k])
  <2> SUFFICES ASSUME NEW i \in 1..Len(r), NEW k \in 1..Len(r), i <= k, Quiet(r[i])
               PROVE  Quiet(r[k])
    OBVIOUS
  <2>1. CASE k <= n
    <3>1. i \in 1..n /\ k \in 1..n /\ r[i] = q[i] /\ r[k] = q[k]
      BY <1>1, <1>2, <2>1
    <3> QED BY <3>1 DEF Settled, q, n
  <2> QED BY <1>2, <2>1
<1>7. idle'[l] => ~pids'[l] /\ \A i \in 1..Len(r) : Quiet(r[i])
  BY <1>1, <1>2 DEF Settled, q, n
<1>8. ~idle'[l] => r # <<>> /\ Quiet(r[Len(r)])
  <2> SUFFICES ASSUME ~idle[l] PROVE r # <<>> /\ Quiet(r[Len(r)])
    OBVIOUS
  <2>1. q # <<>> /\ Quiet(q[n])
    BY DEF Settled, q, n
  <2>2. Len(r) \in 1..Len(r) /\ Len(r) > 0
    BY <1>1, <1>3, <2>1
  <2>3. CASE Len(r) <= n
    BY <1>1, <1>2, <1>4, <2>1, <2>2, <2>3
  <2>4. CASE ~(Len(r) <= n)
    BY <1>2, <1>4, <2>2, <2>4
  <2> QED BY <2>3, <2>4
<1> QED BY <1>5, <1>6, <1>7, <1>8 DEF Settled, r

(* A tuned frontend is left: everybody is told last.                       *)
LEMMA SendIdle ==
  ASSUME queue \in [Listeners -> Seq(Events)], NEW e \in Events, Send(<<e>>), Quiet(e),
         tuned # Untuned, tuned' = Untuned, idle' = idle, NEW l \in Listeners, Settled(l)
  PROVE  Settled(l)'
<1> DEFINE q == queue[l]
           r == queue'[l]
           n == Len(q)
<1>1. n \in Nat /\ <<e>> \in Seq(Events) /\ Len(<<e>>) = 1 /\ <<e>>[1] = e
  OBVIOUS
<1>2. Len(r) = n + 1 /\ r # <<>> /\ (\A i \in 1..n : r[i] = q[i])
  BY <1>1, SendEffect
<1>3. r[n + 1] = e
  <2>1. \A i \in 1..Len(<<e>>) : r[n + i] = <<e>>[i]
    BY <1>1, SendEffect
  <2>2. 1 \in 1..Len(<<e>>)
    BY <1>1
  <2> QED BY <1>1, <2>1, <2>2
<1>4. ~idle[l] /\ \A i \in 1..n : ~Quiet(q[i]) /\ q[i].id # "E_CONFIG"
  BY DEF Settled
<1> HIDE DEF q, r, n
<1>5. \A i \in 1..Len(r) : i \in 1..n \/ i = n + 1
  BY <1>1, <1>2
<1>6. \A i \in 1..Len(r) : r[i].id # "E_CONFIG"
  BY <1>2, <1>3, <1>4, <1>5 DEF Quiet
<1>7. \A i, k \in 1..Len(r) : i <= k /\ Quiet(r[i]) => Quiet(r[k])
  BY <1>1, <1>2, <1>3, <1>4, <1>5
<1> QED BY <1>2, <1>3, <1>4, <1>6, <1>7 DEF Settled, r

(* A tuned frontend stays: nobody is told to idle.                         *)
LEMMA SendOther ==
  ASSUME queue \in [Listeners -> Seq(Events)], NEW evs \in Seq(Events), Send(evs),
         \A i \in 1..Len(evs) : ~Quiet(evs[i]) /\ evs[i].id # "E_CONFIG",
         tuned # Untuned, tuned' = tuned, idle' = idle, NEW l \in Listeners, Settled(l)
  PROVE  Settled(l)'
<1> DEFINE q == queue[l]
           r == queue'[l]
           n == Len(q)
<1>1. n \in Nat /\ Len(evs) \in Nat /\ Len(r) = n + Len(evs)
  BY SendEffect
<1>2. ~idle[l] /\ \A i \in 1..n : ~Quiet(q[i]) /\ q[i].id # "E_CONFIG"
  BY DEF Settled
<1>3. ASSUME NEW i \in 1..Len(r) PROVE ~Quiet(r[i]) /\ r[i].id # "E_CONFIG"
  <2>1. CASE i <= n
    <3>1. i \in 1..n
      BY <1>1, <2>1
    <3>2. r[i] = q[i]
      BY <3>1, SendEffect
    <3> QED BY <1>2, <3>1, <3>2
  <2>2. CASE ~(i <= n)
    <3>1. i - n \in 1..Len(evs) /\ i = n + (i - n)
      BY <1>1, <2>2
    <3>2. queue'[l][n + (i - n)] = evs[i - n]
      BY <3>1, SendEffect
    <3> QED BY <3>1, <3>2
  <2> QED BY <2>1, <2>2
<1> QED BY <1>2, <1>3 DEF Settled

(* One or two events more.                                                 *)
LEMMA ReachesSent ==
  ASSUME NEW q \in Seq(Events), NEW P, NEW S, Reaches(P, q, S)
  PROVE  /\ \A a \in Events : Reaches(P, q \o <<a>>, Served(S, a))
         /\ \A a, b \in Events : Reaches(P, q \o <<a, b>>, Served(Served(S, a), b))
<1>1. \A a \in Events : Reaches(P, Append(q, a), Served(S, a))
  BY ReachesAppend
<1>2. \A a, b \in Events : Reaches(P, Append(Append(q, a), b), Served(Served(S, a), b))
  <2> SUFFICES ASSUME NEW a \in Events, NEW b \in Events
               PROVE  Reaches(P, Append(Append(q, a), b), Served(Served(S, a), b))
    OBVIOUS
  <2>1. Append(q, a) \in Seq(Events)
    OBVIOUS
  <2> QED BY <1>1, <2>1, ReachesAppend
<1>3. \A a \in Events : q \o <<a>> = Append(q, a)
  OBVIOUS
<1>4. \A a, b \in Events : q \o <<a, b>> = Append(Append(q, a), b)
  OBVIOUS
<1> QED BY <1>1, <1>2, <1>3, <1>4

(* The parts of the invariant that a caller's step leaves to check.        *)
LEMMA CallerKeeps ==
  ASSUME TuningInv
  PROVE  /\ queue \in [Listeners -> Seq(Events)]
         /\ "net_writer" \in Listeners /\ "sap" \in Listeners
         /\ \A l \in Listeners : queue[l] \in Seq(Events)
         /\ \A l \in {"net_writer", "sap"} : Reaches(pnrs[l], queue[l], streaming)
  BY DEF TuningInv, TypeOK, Listeners

LEMMA AddPnrStep ==
  ASSUME TuningInv, NEW old \in SUBSET streaming, NEW new \in Pnrs, AddPnr(old, new)
  PROVE  TuningInv'
<1> DEFINE add == Ev("E_PNR_ADD", new)
           o == CHOOSE x \in old : TRUE
           rmv == Ev("E_PNR_RMV", o)
<1>1. tuned \in Transponders /\ tuned # Untuned /\ pc = "ready" /\ streaming \in SUBSET Pnrs
  BY TuningAssumption DEF AddPnr, TuningInv, TypeOK
<1>2. add \in Events /\ add.id = "E_PNR_ADD" /\ add.arg = new
  BY SentEvents
<1>3. old # {} => o \in old /\ rmv \in Events /\ rmv.id = "E_PNR_RMV" /\ rmv.arg = o /\ old = {o}
  <2> SUFFICES ASSUME old # {} PROVE o \in old /\ rmv \in Events /\ rmv.id = "E_PNR_RMV" /\ rmv.arg = o /\ old = {o}
    OBVIOUS
  <2>1. o \in old
    OBVIOUS
  <2>2. o \in Pnrs
    BY <1>1, <2>1
  <2>3. IsFiniteSet(old) /\ Cardinality(old) \in Nat /\ Cardinality(old) # 0
    <3>1. old \in SUBSET Pnrs /\ IsFiniteSet(Pnrs)
      BY <1>1, TuningAssumption
    <3>2. IsFiniteSet(old)
      BY <3>1, FS_Subset
    <3> QED BY <3>2, FS_CardinalityType, FS_EmptySet
  <2>4. Cardinality(old) <= 1
    BY DEF AddPnr
  <2>5. Cardinality(old) = 1
    BY <2>3, <2>4
  <2>6. PICK x : old = {x}
    BY <2>3, <2>5, FS_Singleton
  <2> HIDE DEF o
  <2>7. old = {o}
    BY <2>1, <2>6
  <2>8. rmv \in Events /\ rmv.id = "E_PNR_RMV" /\ rmv.arg = o
    BY <2>2, SentEvents
  <2> QED BY <2>1, <2>7, <2>8
<1> DEFINE evs == IF old = {} THEN <<add>> ELSE <<rmv, add>>
<1>4. Send(evs) /\ UNCHANGED <<tuned, pc, goal, listening, disturbed>>
      /\ streaming' = (streaming \ old) \cup {new}
  BY DEF AddPnr
<1> HIDE DEF add, o, rmv
<1>5. evs \in Seq(Events) /\ \A i \in 1..Len(evs) : evs[i].id \in {"E_PNR_ADD", "E_PNR_RMV"}
  <2>1. CASE old = {}
    BY <1>2, <2>1
  <2>2. CASE old # {}
    BY <1>2, <1>3, <2>2
  <2> QED BY <2>1, <2>2
<1>6. \A l \in {"net_writer", "sap"} : Reaches(pnrs[l], queue[l] \o evs, (streaming \ old) \cup {new})
  <2> SUFFICES ASSUME NEW l \in {"net_writer", "sap"}
               PROVE Reaches(pnrs[l], queue[l] \o evs, (streaming \ old) \cup {new})
    OBVIOUS
  <2>1. Reaches(pnrs[l], queue[l], streaming) /\ queue[l] \in Seq(Events)
    BY CallerKeeps
  <2>2. CASE old = {}
    <3>1. Served(streaming, add) = (streaming \ old) \cup {new}
      BY <1>2, <2>2 DEF Served, Quiet
    <3>2. Reaches(pnrs[l], queue[l] \o <<add>>, Served(streaming, add))
      BY <1>2, <2>1, ReachesSent
    <3>3. evs = <<add>>
      BY <2>2
    <3> QED BY <3>1, <3>2, <3>3
  <2>3. CASE old # {}
    <3>1. Served(Served(streaming, rmv), add) = (streaming \ old) \cup {new}
      BY <1>2, <1>3, <2>3 DEF Served, Quiet
    <3>2. Reaches(pnrs[l], queue[l] \o <<rmv, add>>, Served(Served(streaming, rmv), add))
      BY <1>2, <1>3, <2>1, <2>3, ReachesSent
    <3>3. evs = <<rmv, add>>
      BY <2>3
    <3> QED BY <3>1, <3>2, <3>3
  <2> QED BY <2>2, <2>3
<1> HIDE DEF evs
<1>7. TypeOK' /\ CallerInv'
  <2>1. queue' \in [Listeners -> Seq(Events)]
    BY <1>4, <1>5, SendEffect, CallerKeeps
  <2>2. streaming' \in SUBSET Pnrs
    BY <1>1, <1>4
  <2> QED BY <1>1, <1>4, <2>1, <2>2 DEF TuningInv, TypeOK, CallerInv, listening
<1>8. \A l \in Listeners : TunedLast(l)'
  <2>1. pc' # "wait_tuned" /\ (\A i \in 1..Len(evs) : ~Tunes(evs[i]))
    BY <1>1, <1>4, <1>5 DEF Tunes
  <2> QED BY <1>1, <1>4, <1>5, <2>1, SendNotTuned, CallerKeeps DEF TuningInv
<1>9. ~disturbed' => \A l \in Listeners : Settled(l)'
  <2>1. idle' = idle /\ tuned' = tuned /\ disturbed' = disturbed
        /\ \A i \in 1..Len(evs) : ~Quiet(evs[i]) /\ evs[i].id # "E_CONFIG"
    BY <1>4, <1>5 DEF Quiet, listening
  <2> SUFFICES ASSUME ~disturbed', NEW l \in Listeners PROVE Settled(l)'
    OBVIOUS
  <2>2. Settled(l) /\ queue \in [Listeners -> Seq(Events)]
    BY <1>1, <2>1, CallerKeeps DEF TuningInv
  <2> QED BY <1>1, <1>4, <1>5, <2>1, <2>2, SendOther
<1>10. \A l \in {"net_writer", "sap"} : Reaches(pnrs'[l], queue'[l], streaming')
  <2>1. pnrs' = pnrs /\ \A l \in {"net_writer", "sap"} : queue'[l] = queue[l] \o evs
    BY <1>4, <1>5, SendEffect, CallerKeeps DEF listening
  <2> QED BY <1>4, <1>6, <2>1
<1> QED BY <1>7, <1>8, <1>9, <1>10 DEF TuningInv


(* What any sending keeps, if it leads the streamers to what is streamed.  *)
LEMMA SendKeeps ==
  ASSUME TuningInv, NEW evs \in Seq(Events), Send(evs), pnrs' = pnrs,
         \A l \in {"net_writer", "sap"} : Reaches(pnrs[l], queue[l] \o evs, streaming')
  PROVE  /\ queue' \in [Listeners -> Seq(Events)]
         /\ \A l \in {"net_writer", "sap"} : Reaches(pnrs'[l], queue'[l], streaming')
         /\ pc # "wait_tuned" /\ pc' # "wait_tuned" /\ (\A i \in 1..Len(evs) : ~Tunes(evs[i])) =>
              \A l \in Listeners : TunedLast(l)'
<1>1. queue' \in [Listeners -> Seq(Events)]
      /\ \A l \in {"net_writer", "sap"} : queue'[l] = queue[l] \o evs
  BY SendEffect, CallerKeeps
<1>2. ASSUME pc # "wait_tuned" /\ pc' # "wait_tuned" /\ (\A i \in 1..Len(evs) : ~Tunes(evs[i]))
      PROVE  \A l \in Listeners : TunedLast(l)'
  BY <1>2, SendNotTuned, CallerKeeps DEF TuningInv
<1> QED BY <1>1, <1>2

(* One event sent, or none.                                                *)
LEMMA SendOneKeeps ==
  ASSUME TuningInv, NEW e \in Events, Send(<<e>>), pnrs' = pnrs,
         streaming' = Served(streaming, e)
  PROVE  /\ queue' \in [Listeners -> Seq(Events)]
         /\ \A l \in {"net_writer", "sap"} : Reaches(pnrs'[l], queue'[l], streaming')
         /\ pc # "wait_tuned" /\ pc' # "wait_tuned" /\ ~Tunes(e) =>
              \A l \in Listeners : TunedLast(l)'
<1>1. <<e>> \in Seq(Events) /\ Len(<<e>>) = 1 /\ <<e>>[1] = e
  BY SendTypes
<1>2. \A l \in {"net_writer", "sap"} : Reaches(pnrs[l], queue[l] \o <<e>>, streaming')
  BY ReachesSent, CallerKeeps
<1>3. ~Tunes(e) => \A i \in 1..Len(<<e>>) : ~Tunes(<<e>>[i])
  BY <1>1
<1> QED BY <1>1, <1>2, <1>3, SendKeeps

LEMMA SendNoneKeeps ==
  ASSUME TuningInv, UNCHANGED <<queue, pnrs, streaming>>
  PROVE  /\ queue' \in [Listeners -> Seq(Events)] /\ Send(<<>>)
         /\ \A l \in {"net_writer", "sap"} : Reaches(pnrs'[l], queue'[l], streaming')
         /\ pc # "wait_tuned" /\ pc' # "wait_tuned" => \A l \in Listeners : TunedLast(l)'
<1>1. Send(<<>>)
  BY SendNothing, CallerKeeps
<1>2. pc # "wait_tuned" /\ pc' # "wait_tuned" => \A l \in Listeners : TunedLast(l)'
  BY DEF TuningInv, TunedLast
<1> QED BY <1>1, <1>2, CallerKeeps

LEMMA RmvPnrStep ==
  ASSUME TuningInv, NEW p \in Pnrs, RmvPnr(p)
  PROVE  TuningInv'
<1> DEFINE e == Ev("E_PNR_RMV", p)
<1>1. pc = "ready" /\ p \in streaming /\ tuned # Untuned /\ tuned \in Transponders
  BY DEF RmvPnr, TuningInv, CallerInv, TypeOK
<1>2. e \in Events /\ e.id = "E_PNR_RMV" /\ e.arg = p
  BY SentEvents
<1>3. Send(<<e>>) /\ UNCHANGED <<tuned, pc, goal, listening, disturbed>>
      /\ streaming' = streaming \ {p}
  BY DEF RmvPnr
<1> HIDE DEF e
<1>4. streaming' = Served(streaming, e) /\ ~Tunes(e) /\ pnrs' = pnrs
  BY <1>2, <1>3 DEF Served, Quiet, Tunes, listening
<1>5. /\ queue' \in [Listeners -> Seq(Events)]
      /\ \A l \in {"net_writer", "sap"} : Reaches(pnrs'[l], queue'[l], streaming')
      /\ \A l \in Listeners : TunedLast(l)'
  BY <1>1, <1>2, <1>3, <1>4, SendOneKeeps
<1>6. TypeOK' /\ CallerInv'
  BY <1>1, <1>3, <1>5 DEF TuningInv, TypeOK, CallerInv, listening
<1>7. ~disturbed' => \A l \in Listeners : Settled(l)'
  <2> SUFFICES ASSUME ~disturbed', NEW l \in Listeners PROVE Settled(l)'
    OBVIOUS
  <2>1. Settled(l) /\ queue \in [Listeners -> Seq(Events)] /\ idle' = idle
    BY <1>1, <1>3, CallerKeeps DEF TuningInv, listening
  <2>2. <<e>> \in Seq(Events) /\ \A i \in 1..Len(<<e>>) : ~Quiet(<<e>>[i]) /\ <<e>>[i].id # "E_CONFIG"
    BY <1>2, SendTypes DEF Quiet
  <2> QED BY <1>1, <1>3, <2>1, <2>2, SendOther
<1> QED BY <1>5, <1>6, <1>7 DEF TuningInv

LEMMA SetSwitchStep ==
  ASSUME TuningInv, SetSwitch
  PROVE  TuningInv'
<1> DEFINE e == Ev("E_CONFIG", Untuned)
<1>2. e \in Events /\ e.id = "E_CONFIG"
  BY SentEvents
<1>3. pc = "ready" /\ Send(<<e>>) /\ UNCHANGED <<tuned, streaming, pc, goal, listening>>
      /\ disturbed' = TRUE
  BY DEF SetSwitch
<1> HIDE DEF e
<1>4. streaming' = Served(streaming, e) /\ ~Tunes(e) /\ pnrs' = pnrs
  BY <1>2, <1>3 DEF Served, Quiet, Tunes, listening
<1>5. /\ queue' \in [Listeners -> Seq(Events)]
      /\ \A l \in {"net_writer", "sap"} : Reaches(pnrs'[l], queue'[l], streaming')
      /\ \A l \in Listeners : TunedLast(l)'
  BY <1>2, <1>3, <1>4, SendOneKeeps
<1>6. TypeOK' /\ CallerInv'
  BY <1>3, <1>5 DEF TuningInv, TypeOK, CallerInv, listening
<1> QED BY <1>3, <1>5, <1>6 DEF TuningInv

(* The frontend is left, by BeginTune or by UnTune.                        *)
LEMMA LeaveSettles ==
  ASSUME TuningInv, pc = "ready", ~disturbed, tuned' = Untuned, UNCHANGED listening,
         \/ Send(<<Ev("E_IDLE", Untuned)>>)
         \/ tuned = Untuned /\ Send(<<>>)
  PROVE  \A l \in Listeners : Settled(l)'
<1> DEFINE e == Ev("E_IDLE", Untuned)
<1>1. e \in Events /\ Quiet(e)
  BY SentEvents DEF Quiet
<1> SUFFICES ASSUME NEW l \in Listeners PROVE Settled(l)'
  OBVIOUS
<1>2. Settled(l) /\ queue \in [Listeners -> Seq(Events)] /\ idle' = idle /\ pids' = pids
  BY CallerKeeps DEF TuningInv, listening
<1>3. <<e>> \in Seq(Events) /\ \A i \in 1..Len(<<e>>) : Quiet(<<e>>[i])
  BY <1>1, SendTypes
<1>4. <<>> \in Seq(Events) /\ \A i \in 1..Len(<<>>) : Quiet(<<>>[i])
  BY SendTypes
<1>5. CASE tuned # Untuned /\ Send(<<e>>)
  <2> HIDE DEF e
  <2> QED BY <1>1, <1>2, <1>5, SendIdle
<1>6. CASE tuned = Untuned /\ Send(<<e>>)
  <2> HIDE DEF e
  <2> QED BY <1>2, <1>3, <1>6, SendQuiet
<1>7. CASE tuned = Untuned /\ Send(<<>>)
  BY <1>2, <1>4, <1>7, SendQuiet
<1> QED BY <1>5, <1>6, <1>7

LEMMA BeginTuneStep ==
  ASSUME TuningInv, NEW t \in Transponders, NEW want \in SUBSET Pnrs, BeginTune(t, want)
  PROVE  TuningInv'
<1> DEFINE e == Ev("E_IDLE", Untuned)
<1>1. e \in Events /\ Quiet(e) /\ ~Tunes(e)
  BY SentEvents DEF Quiet, Tunes
<1>2. /\ pc = "ready" /\ pc' = "wait_idle" /\ tuned' = Untuned /\ streaming' = {}
      /\ goal' = [tp |-> t, pnr |-> want] /\ UNCHANGED <<listening, disturbed>>
      /\ IF tuned # Untuned THEN Send(<<e>>) ELSE UNCHANGED queue
  BY DEF BeginTune
<1> HIDE DEF e
<1>3. streaming' = Served(streaming, e) /\ pnrs' = pnrs
  BY <1>1, <1>2 DEF Served, listening
<1>4. tuned = Untuned => streaming' = streaming
  BY <1>2 DEF TuningInv, CallerInv
<1>5. /\ queue' \in [Listeners -> Seq(Events)]
      /\ \A l \in {"net_writer", "sap"} : Reaches(pnrs'[l], queue'[l], streaming')
      /\ \A l \in Listeners : TunedLast(l)'
      /\ Send(<<e>>) \/ (tuned = Untuned /\ Send(<<>>))
  <2>1. CASE tuned # Untuned
    BY <1>1, <1>2, <1>3, <2>1, SendOneKeeps
  <2>2. CASE tuned = Untuned
    BY <1>2, <1>3, <1>4, <2>2, SendNoneKeeps
  <2> QED BY <2>1, <2>2
<1>6. TypeOK' /\ CallerInv'
  BY <1>2, <1>5 DEF TuningInv, TypeOK, CallerInv, listening
<1>7. ~disturbed' => \A l \in Listeners : Settled(l)'
  BY <1>2, <1>5, LeaveSettles DEF e
<1> QED BY <1>5, <1>6, <1>7 DEF TuningInv

LEMMA UnTuneStep ==
  ASSUME TuningInv, UnTune
  PROVE  TuningInv'
<1> DEFINE e == Ev("E_IDLE", Untuned)
<1>1. e \in Events /\ Quiet(e) /\ ~Tunes(e)
  BY SentEvents DEF Quiet, Tunes
<1>2. /\ pc = "ready" /\ pc' = "wait_untuned" /\ tuned' = Untuned /\ streaming = {}
      /\ UNCHANGED <<streaming, goal, listening, disturbed>> /\ Send(<<e>>)
  BY DEF UnTune
<1> HIDE DEF e
<1>3. streaming' = Served(streaming, e) /\ pnrs' = pnrs
  BY <1>1, <1>2 DEF Served, listening
<1>5. /\ queue' \in [Listeners -> Seq(Events)]
      /\ \A l \in {"net_writer", "sap"} : Reaches(pnrs'[l], queue'[l], streaming')
      /\ \A l \in Listeners : TunedLast(l)'
  BY <1>1, <1>2, <1>3, SendOneKeeps
<1>6. TypeOK' /\ CallerInv'
  BY <1>2, <1>5 DEF TuningInv, TypeOK, CallerInv, listening
<1>7. ~disturbed' => \A l \in Listeners : Settled(l)'
  BY <1>2, LeaveSettles DEF e
<1> QED BY <1>5, <1>6, <1>7 DEF TuningInv

(* The polling loops that end on idle listeners.                           *)
LEMMA IdleSeenStep ==
  ASSUME TuningInv, AllIdle \/ PgmdbUntuned
  PROVE  TuningInv'
<1>1. /\ UNCHANGED <<tuned, streaming, goal, queue, listening, disturbed>>
      /\ pc \in {"wait_idle", "wait_untuned"} /\ pc' \in {"tune", "ready"}
      /\ pc' = "tune" => pc = "wait_idle" /\ \A l \in Listeners : idle[l]
  BY DEF AllIdle, PgmdbUntuned
<1>2. pnrs' = pnrs /\ idle' = idle /\ pids' = pids
  BY <1>1 DEF listening
<1>3. /\ queue' \in [Listeners -> Seq(Events)]
      /\ \A l \in {"net_writer", "sap"} : Reaches(pnrs'[l], queue'[l], streaming')
      /\ \A l \in Listeners : TunedLast(l)'
  BY <1>1, <1>2, SendNoneKeeps
<1>4. TypeOK' /\ CallerInv'
  BY <1>1, <1>2, <1>3 DEF TuningInv, TypeOK, CallerInv, listening
<1>5. ~disturbed' => \A l \in Listeners : Settled(l)'
  BY <1>1, <1>2 DEF TuningInv, Settled
<1> QED BY <1>3, <1>4, <1>5 DEF TuningInv

(* E_TUNING and an event after it.                                         *)
LEMMA SendTwoKeeps ==
  ASSUME TuningInv, pc = "tune", NEW e \in Events, e.id \in {"E_IDLE", "E_TUNED"},
         Send(<<Ev("E_TUNING", Untuned), e>>), UNCHANGED <<pnrs, streaming>>
  PROVE  /\ queue' \in [Listeners -> Seq(Events)]
         /\ \A l \in {"net_writer", "sap"} : Reaches(pnrs'[l], queue'[l], streaming')
         /\ pc' # "wait_tuned" /\ ~Tunes(e) => \A l \in Listeners : TunedLast(l)'
<1> DEFINE a == Ev("E_TUNING", Untuned)
<1>1. a \in Events /\ Quiet(a) /\ ~Tunes(a)
  BY SentEvents DEF Quiet, Tunes
<1> HIDE DEF a
<1>2. <<a, e>> \in Seq(Events) /\ Len(<<a, e>>) = 2 /\ <<a, e>>[1] = a /\ <<a, e>>[2] = e
  BY <1>1, SendTypes
<1>3. streaming = {}
  BY DEF TuningInv, CallerInv
<1>4. Served(Served(streaming, a), e) = streaming
  BY <1>1, <1>3 DEF Served, Quiet
<1>5. \A l \in {"net_writer", "sap"} : Reaches(pnrs[l], queue[l] \o <<a, e>>, streaming')
  <2>1. \A l \in {"net_writer", "sap"} :
          Reaches(pnrs[l], queue[l] \o <<a, e>>, Served(Served(streaming, a), e))
    BY <1>1, ReachesSent, CallerKeeps
  <2> QED BY <1>4, <2>1
<1>6. ~Tunes(e) => \A i \in 1..Len(<<a, e>>) : ~Tunes(<<a, e>>[i])
  <2>1. \A i \in 1..Len(<<a, e>>) : i = 1 \/ i = 2
    BY <1>2
  <2> QED BY <1>1, <1>2, <2>1
<1>7. Send(<<a, e>>)
  BY DEF a
<1> DEFINE evs == <<a, e>>
<1>8. evs \in Seq(Events)
  BY <1>2
<1> HIDE DEF evs
<1> QED BY <1>5, <1>6, <1>7, <1>8, SendKeeps DEF evs

LEMMA TuneFailsStep ==
  ASSUME TuningInv, TuneFails
  PROVE  TuningInv'
<1> DEFINE a == Ev("E_TUNING", Untuned)
           b == Ev("E_IDLE", Untuned)
<1>1. a \in Events /\ b \in Events /\ a.id = "E_TUNING" /\ b.id = "E_IDLE"
  BY SentEvents
<1>2. /\ pc = "tune" /\ pc' = "ready" /\ goal' = NoGoal
      /\ UNCHANGED <<tuned, streaming, idle, pnrs, known, disturbed>>
      /\ \/ UNCHANGED <<queue, pids>>
         \/ (Send(<<a>>) \/ Send(<<a, b>>)) /\ pids' = [l \in Listeners |-> FALSE]
  BY DEF TuneFails
<1> HIDE DEF a, b
<1>3. streaming = {} /\ tuned = Untuned
  BY <1>2 DEF TuningInv, CallerInv
<1>4. streaming' = Served(streaming, a)
  BY <1>1, <1>2, <1>3 DEF Served, Quiet
<1>5. PICK evs \in {<<>>, <<a>>, <<a, b>>} :
        /\ Send(evs)
        /\ queue' \in [Listeners -> Seq(Events)]
        /\ \A l \in {"net_writer", "sap"} : Reaches(pnrs'[l], queue'[l], streaming')
        /\ \A l \in Listeners : TunedLast(l)'
  <2>1. CASE UNCHANGED <<queue, pids>>
    BY <1>2, <2>1, SendNoneKeeps
  <2>2. CASE Send(<<a>>)
    BY <1>1, <1>2, <1>4, <2>2, SendOneKeeps DEF Tunes
  <2>3. CASE Send(<<a, b>>)
    BY <1>1, <1>2, <2>3, SendTwoKeeps DEF Tunes, a
  <2> QED BY <1>2, <2>1, <2>2, <2>3
<1>6. pids' \in [Listeners -> BOOLEAN] /\ \A l \in Listeners : pids'[l] => pids[l]
  BY <1>2 DEF TuningInv, TypeOK
<1>7. TypeOK' /\ CallerInv'
  <2>1. ~pids'["sap"] /\ goal' \in [tp : Transponders \cup {Untuned}, pnr : SUBSET Pnrs]
    BY <1>2, <1>6, CallerKeeps DEF TuningInv, CallerInv, NoGoal
  <2> QED BY <1>2, <1>3, <1>5, <1>6, <2>1 DEF TuningInv, TypeOK, CallerInv
<1>8. ~disturbed' => \A l \in Listeners : Settled(l)'
  <2> SUFFICES ASSUME ~disturbed', NEW l \in Listeners PROVE Settled(l)'
    OBVIOUS
  <2>1. Settled(l) /\ queue \in [Listeners -> Seq(Events)]
    BY <1>2, CallerKeeps DEF TuningInv
  <2>2. evs \in Seq(Events) /\ \A i \in 1..Len(evs) : Quiet(evs[i])
    <3>1. CASE evs = <<>> BY <3>1
    <3>2. CASE evs = <<a>> BY <1>1, <3>2 DEF Quiet
    <3>3. CASE evs = <<a, b>> BY <1>1, <3>3 DEF Quiet
    <3> QED BY <3>1, <3>2, <3>3
  <2>3. tuned' = Untuned /\ idle' = idle /\ (pids'[l] => pids[l])
    BY <1>2, <1>3, <1>6
  <2> QED BY <1>3, <1>5, <2>1, <2>2, <2>3, SendQuiet
<1> QED BY <1>5, <1>7, <1>8 DEF TuningInv

LEMMA TuneNoDvrStep ==
  ASSUME TuningInv, TuneNoDvr
  PROVE  TuningInv'
<1> DEFINE a == Ev("E_TUNING", Untuned)
<1>1. a \in Events /\ a.id = "E_TUNING"
  BY SentEvents
<1>2. /\ pc = "tune" /\ pc' = "ready" /\ goal' = NoGoal /\ tuned' = goal.tp
      /\ UNCHANGED <<streaming, idle, pnrs, known>> /\ disturbed' = TRUE
      /\ Send(<<a>>) /\ pids' = [l \in Listeners |-> FALSE]
  BY DEF TuneNoDvr
<1> HIDE DEF a
<1>3. streaming = {} /\ goal.tp \in Transponders
  BY <1>2 DEF TuningInv, CallerInv
<1>4. streaming' = Served(streaming, a) /\ ~Tunes(a)
  BY <1>1, <1>2, <1>3 DEF Served, Quiet, Tunes
<1>5. /\ queue' \in [Listeners -> Seq(Events)]
      /\ \A l \in {"net_writer", "sap"} : Reaches(pnrs'[l], queue'[l], streaming')
      /\ \A l \in Listeners : TunedLast(l)'
  BY <1>1, <1>2, <1>4, SendOneKeeps
<1>6. pids' \in [Listeners -> BOOLEAN] /\ ~pids'["sap"]
  BY <1>2, CallerKeeps
<1>7. TypeOK' /\ CallerInv'
  <2>1. goal' \in [tp : Transponders \cup {Untuned}, pnr : SUBSET Pnrs]
    BY <1>2 DEF NoGoal
  <2> QED BY <1>2, <1>3, <1>5, <1>6, <2>1 DEF TuningInv, TypeOK, CallerInv
<1> QED BY <1>2, <1>5, <1>7 DEF TuningInv

LEMMA TuneLocksStep ==
  ASSUME TuningInv, TuneLocks
  PROVE  TuningInv'
<1> DEFINE a == Ev("E_TUNING", Untuned)
           b == Ev("E_TUNED", goal.tp)
<1>0. goal.tp \in Transponders /\ streaming = {} /\ pc = "tune" /\ (\A l \in Listeners : idle[l])
  BY DEF TuneLocks, TuningInv, CallerInv
<1>1. a \in Events /\ b \in Events /\ a.id = "E_TUNING" /\ b.id = "E_TUNED"
  BY <1>0, SentEvents
<1>2. /\ pc' = "wait_tuned" /\ tuned' = goal.tp
      /\ UNCHANGED <<streaming, goal, idle, pnrs, known, disturbed>>
      /\ Send(<<a, b>>) /\ pids' = [l \in Listeners |-> FALSE]
  BY DEF TuneLocks
<1> HIDE DEF b
<1>3. /\ queue' \in [Listeners -> Seq(Events)]
      /\ \A l \in {"net_writer", "sap"} : Reaches(pnrs'[l], queue'[l], streaming')
  BY <1>0, <1>1, <1>2, SendTwoKeeps
<1> HIDE DEF a
<1>4. ASSUME NEW l \in Listeners PROVE TunedLast(l)'
  <2> DEFINE q == queue[l]
             r == queue'[l]
             n == Len(q)
             evs == <<a, b>>
  <2>1. evs \in Seq(Events) /\ Len(evs) = 2 /\ evs[1] = a /\ evs[2] = b
    BY <1>1, SendTypes
  <2>2. Send(evs)
    BY <1>2
  <2> HIDE DEF evs
  <2>3. /\ n \in Nat /\ Len(r) = n + 2
        /\ \A i \in 1..n : r[i] = q[i]
        /\ \A i \in 1..Len(evs) : r[n + i] = evs[i]
    <3>1. queue \in [Listeners -> Seq(Events)]
      BY CallerKeeps
    <3>2. /\ Len(q) \in Nat /\ Len(r) = n + Len(evs)
          /\ \A i \in 1..n : r[i] = q[i]
          /\ \A i \in 1..Len(evs) : r[n + i] = evs[i]
      BY <2>1, <2>2, <3>1, SendEffect
    <3> QED BY <2>1, <3>2
  <2>7. r[n + 1] = a /\ r[n + 2] = b
    BY <2>1, <2>3
  <2>4. \A i \in 1..n : ~Tunes(q[i])
    BY <1>0 DEF TuningInv, TunedLast
  <2> HIDE DEF q, r, n
  <2>5. \A i \in 1..Len(r) : Tunes(r[i]) <=> i = Len(r)
    <3>1. \A i \in 1..Len(r) : i \in 1..n \/ i = n + 1 \/ i = n + 2
      BY <2>3
    <3>2. Tunes(b) /\ ~Tunes(a)
      BY <1>1 DEF Tunes
    <3> QED BY <2>3, <2>4, <2>7, <3>1, <3>2
  <2>6. idle'[l]
    BY <1>0, <1>2
  <2> QED BY <1>2, <2>5, <2>6 DEF TunedLast, r
<1>6. pids' \in [Listeners -> BOOLEAN] /\ ~pids'["sap"]
  BY <1>2, CallerKeeps
<1>7. TypeOK' /\ CallerInv'
  BY <1>0, <1>2, <1>3, <1>6 DEF TuningInv, TypeOK, CallerInv
<1> QED BY <1>2, <1>3, <1>4, <1>7 DEF TuningInv

(* Everybody has read the tuned event: every queue is empty.               *)
LEMMA AllTunedStep ==
  ASSUME TuningInv, AllTuned
  PROVE  TuningInv'
<1>1. /\ pc = "wait_tuned" /\ pc' = "tuned" /\ disturbed' = FALSE
      /\ UNCHANGED <<tuned, streaming, goal, queue, listening>>
      /\ \A l \in Listeners : ~idle[l]
  BY DEF AllTuned
<1>2. pnrs' = pnrs /\ idle' = idle /\ pids' = pids
  BY <1>1 DEF listening
<1>3. \A l \in Listeners : queue[l] = <<>>
  BY <1>1 DEF TuningInv, TunedLast
<1>4. tuned \in Transponders /\ tuned # Untuned
  BY <1>1, TuningAssumption DEF TuningInv, CallerInv
<1>5. \A l \in Listeners : TunedLast(l)' /\ Settled(l)'
  <2>1. \A l \in Listeners : Len(queue'[l]) = 0
    BY <1>1, <1>3
  <2> QED BY <1>1, <1>2, <1>4, <2>1 DEF TunedLast, Settled
<1>6. \A l \in {"net_writer", "sap"} : Reaches(pnrs'[l], queue'[l], streaming')
  BY <1>1, <1>2 DEF TuningInv
<1>7. TypeOK' /\ CallerInv'
  BY <1>1, <1>2, <1>4 DEF TuningInv, TypeOK, CallerInv, listening
<1> QED BY <1>5, <1>6, <1>7 DEF TuningInv

LEMMA EndTuneStep ==
  ASSUME TuningInv, EndTune
  PROVE  TuningInv'
<1> DEFINE p == CHOOSE x \in goal.pnr : TRUE
           add == Ev("E_PNR_ADD", p)
           vt == Ev("E_ALL_VT", Untuned)
<1>1. /\ pc = "tuned" /\ pc' = "ready" /\ goal' = NoGoal
      /\ UNCHANGED <<tuned, listening, disturbed>>
  BY DEF EndTune
<1>2. /\ tuned \in Transponders /\ tuned # Untuned /\ streaming = {}
      /\ idle' = idle /\ pnrs' = pnrs /\ pids' = pids
  BY <1>1, TuningAssumption DEF TuningInv, CallerInv, listening
<1>3. vt \in Events /\ vt.id = "E_ALL_VT"
  BY SentEvents
<1>4. goal.pnr # {} => add \in Events /\ add.id = "E_PNR_ADD" /\ add.arg = p /\ p \in Pnrs
  <2>1. goal.pnr # {} => p \in Pnrs
    BY DEF TuningInv, TypeOK
  <2> HIDE DEF p
  <2> QED BY <2>1, SentEvents
<1>5. \/ goal.pnr # {} /\ Send(<<add>>) /\ streaming' = {p}
      \/ UNCHANGED <<queue, streaming>>
      \/ Send(<<vt>>) /\ UNCHANGED streaming
  BY DEF EndTune
<1> HIDE DEF p, add, vt
<1>6. PICK evs \in {<<>>, <<vt>>} \cup (IF goal.pnr # {} THEN {<<add>>} ELSE {}) :
        /\ Send(evs)
        /\ queue' \in [Listeners -> Seq(Events)]
        /\ streaming' \in SUBSET Pnrs
        /\ \A l \in {"net_writer", "sap"} : Reaches(pnrs'[l], queue'[l], streaming')
        /\ \A l \in Listeners : TunedLast(l)'
  <2>1. CASE goal.pnr # {} /\ Send(<<add>>) /\ streaming' = {p}
    <3>1. streaming' = Served(streaming, add) /\ ~Tunes(add)
      BY <1>2, <1>4, <2>1 DEF Served, Quiet, Tunes
    <3> QED BY <1>1, <1>2, <1>4, <2>1, <3>1, SendOneKeeps
  <2>2. CASE UNCHANGED <<queue, streaming>>
    BY <1>1, <1>2, <2>2, SendNoneKeeps
  <2>3. CASE Send(<<vt>>) /\ UNCHANGED streaming
    <3>1. streaming' = Served(streaming, vt) /\ ~Tunes(vt)
      BY <1>2, <1>3, <2>3 DEF Served, Quiet, Tunes
    <3> QED BY <1>1, <1>2, <1>3, <2>3, <3>1, SendOneKeeps
  <2> QED BY <1>5, <2>1, <2>2, <2>3
<1>7. TypeOK' /\ CallerInv'
  <2>1. goal' \in [tp : Transponders \cup {Untuned}, pnr : SUBSET Pnrs]
    BY <1>1 DEF NoGoal
  <2> QED BY <1>1, <1>2, <1>6, <2>1 DEF TuningInv, TypeOK, CallerInv, listening
<1>8. ~disturbed' => \A l \in Listeners : Settled(l)'
  <2> SUFFICES ASSUME ~disturbed', NEW l \in Listeners PROVE Settled(l)'
    OBVIOUS
  <2>1. Settled(l) /\ queue \in [Listeners -> Seq(Events)]
    BY <1>1, CallerKeeps DEF TuningInv
  <2>2. evs \in Seq(Events) /\ \A i \in 1..Len(evs) : ~Quiet(evs[i]) /\ evs[i].id # "E_CONFIG"
    <3>1. CASE evs = <<>> BY <3>1
    <3>2. CASE evs = <<vt>> BY <1>3, <3>2 DEF Quiet
    <3>3. CASE goal.pnr # {} /\ evs = <<add>> BY <1>4, <3>3 DEF Quiet
    <3> QED BY <3>1, <3>2, <3>3
  <2> QED BY <1>1, <1>2, <1>6, <2>1, <2>2, SendOther
<1> QED BY <1>6, <1>7, <1>8 DEF TuningInv

(* An event is read: the parts of the invariant on the reader's queue.     *)
LEMMA TailEffect ==
  ASSUME NEW q \in Seq(Events), q # <<>>
  PROVE  /\ Len(q) \in Nat /\ Len(q) # 0 /\ Len(Tail(q)) = Len(q) - 1
         /\ \A i \in 1..Len(Tail(q)) : Tail(q)[i] = q[i + 1]
         /\ Tail(q) # <<>> <=> Len(Tail(q)) # 0
<1>1. Len(q) \in Nat /\ Len(q) # 0 /\ Len(Tail(q)) = Len(q) - 1
      /\ \A i \in 1..(Len(q) - 1) : Tail(q)[i] = q[i + 1]
  OBVIOUS
<1>2. Tail(q) \in Seq(Events)
  OBVIOUS
<1>3. \A r \in Seq(Events) : r # <<>> <=> Len(r) # 0
  OBVIOUS
<1> QED BY <1>1, <1>2, <1>3

LEMMA ListenTunedLast ==
  ASSUME TuningInv, NEW l \in Listeners, Listen(l)
  PROVE  TunedLast(l)' /\ (pc = "tune" => idle'[l])
<1> DEFINE q == queue[l]
           r == queue'[l]
<1>1. /\ q \in Seq(Events) /\ q # <<>> /\ r = Tail(q) /\ Flags(l, q[1]) /\ pc' = pc
  BY ListenEffect DEF TuningInv, CallerInv
<1>2. Len(q) \in Nat /\ Len(q) # 0 /\ Len(r) = Len(q) - 1
      /\ (\A i \in 1..Len(r) : r[i] = q[i + 1]) /\ (r # <<>> => Len(r) # 0)
  BY <1>1, TailEffect
<1>3. TunedLast(l)
  BY DEF TuningInv
<1> HIDE DEF q, r
<1>4. CASE pc = "wait_tuned"
  <2> SUFFICES ASSUME r # <<>>
               PROVE  idle'[l] /\ \A i \in 1..Len(r) : Tunes(r[i]) <=> i = Len(r)
    BY <1>1, <1>4 DEF TunedLast, r
  <2>1. idle[l] /\ \A i \in 1..Len(q) : Tunes(q[i]) <=> i = Len(q)
    BY <1>1, <1>3, <1>4 DEF TunedLast, q
  <2>2. 1 \in 1..Len(q) /\ 1 # Len(q)
    BY <1>2
  <2>3. idle'[l]
    BY <1>1, <2>1, <2>2 DEF Flags
  <2>4. ASSUME NEW i \in 1..Len(r) PROVE Tunes(r[i]) <=> i = Len(r)
    <3>1. i + 1 \in 1..Len(q) /\ (i + 1 = Len(q) <=> i = Len(r))
      BY <1>2
    <3> QED BY <1>2, <2>1, <3>1
  <2> QED BY <2>3, <2>4
<1>5. CASE pc # "wait_tuned"
  <2>1. \A i \in 1..Len(q) : ~Tunes(q[i])
    BY <1>3, <1>5 DEF TunedLast, q
  <2>2. \A i \in 1..Len(r) : ~Tunes(r[i])
    BY <1>2, <2>1
  <2>3. pc = "tune" => idle'[l]
    <3>1. 1 \in 1..Len(q)
      BY <1>2
    <3> QED BY <1>1, <2>1, <3>1 DEF TuningInv, CallerInv, Flags
  <2> QED BY <1>1, <1>5, <2>2, <2>3 DEF TunedLast, r
<1> QED BY <1>4, <1>5

LEMMA ListenSettled ==
  ASSUME TuningInv, NEW l \in Listeners, Listen(l), Settled(l), pc # "wait_tuned"
  PROVE  Settled(l)'
<1> DEFINE q == queue[l]
           r == queue'[l]
<1>1. /\ q \in Seq(Events) /\ q # <<>> /\ r = Tail(q) /\ Flags(l, q[1]) /\ tuned' = tuned
      /\ q[1] \in Events
  BY ListenEffect DEF TuningInv, CallerInv
<1>2. Len(q) \in Nat /\ Len(q) # 0 /\ Len(r) = Len(q) - 1
      /\ (\A i \in 1..Len(r) : r[i] = q[i + 1]) /\ (Len(r) # 0 => r # <<>>)
  BY <1>1, TailEffect
<1>3. \A i \in 1..Len(r) : i + 1 \in 1..Len(q) /\ r[i] = q[i + 1]
  BY <1>2
<1>4. 1 \in 1..Len(q)
  BY <1>2
<1>5. q[1].id # "E_CONFIG" /\ ~Tunes(q[1])
  BY <1>4 DEF Settled, TuningInv, TunedLast
<1>6. idle'[l] \in BOOLEAN /\ idle[l] \in BOOLEAN
  BY <1>1 DEF Flags, Frame, TuningInv, TypeOK
<1>7. ~Quiet(q[1]) => idle'[l] = idle[l]
  BY <1>1, <1>5 DEF Flags, Quiet, Tunes
<1>8. Quiet(q[1]) => idle'[l] /\ ~pids'[l]
  BY <1>1 DEF Flags
<1>9. \A i \in 1..Len(r) : r[i].id # "E_CONFIG"
  BY <1>3 DEF Settled
<1>10. CASE tuned # Untuned
  <2>1. ~idle[l] /\ \A i \in 1..Len(q) : ~Quiet(q[i])
    BY <1>10 DEF Settled
  <2>2. ~idle'[l] /\ \A i \in 1..Len(r) : ~Quiet(r[i])
    BY <1>3, <1>4, <1>7, <2>1
  <2> QED BY <1>1, <1>9, <1>10, <2>2 DEF Settled
<1>11. CASE tuned = Untuned
  <2>1. /\ \A i, k \in 1..Len(q) : i <= k /\ Quiet(q[i]) => Quiet(q[k])
        /\ idle[l] => ~pids[l] /\ \A i \in 1..Len(q) : Quiet(q[i])
        /\ ~idle[l] => Quiet(q[Len(q)])
    BY <1>11 DEF Settled
  <2> HIDE DEF q, r
  <2>2. \A i, k \in 1..Len(r) : i <= k /\ Quiet(r[i]) => Quiet(r[k])
    <3> SUFFICES ASSUME NEW i \in 1..Len(r), NEW k \in 1..Len(r), i <= k, Quiet(r[i])
                 PROVE  Quiet(r[k])
      OBVIOUS
    <3>1. i + 1 <= k + 1 /\ i + 1 \in 1..Len(q) /\ k + 1 \in 1..Len(q)
      BY <1>2, <1>3
    <3> QED BY <1>3, <2>1, <3>1
  <2>3. CASE Quiet(q[1])
    <3>1. \A k \in 1..Len(q) : Quiet(q[k])
      BY <1>4, <2>1, <2>3
    <3>2. \A k \in 1..Len(r) : Quiet(r[k])
      BY <1>3, <3>1
    <3> QED BY <1>1, <1>8, <1>9, <1>11, <2>2, <2>3, <3>2 DEF Settled, r
  <2>4. CASE ~Quiet(q[1])
    <3>1. ~idle[l] /\ ~idle'[l]
      BY <1>4, <1>7, <2>1, <2>4
    <3>2. Len(q) # 1
      BY <2>1, <2>4, <3>1
    <3>3. Len(r) \in 1..Len(r) /\ Len(r) + 1 = Len(q) /\ Len(r) # 0
      BY <1>2, <3>2
    <3>4. r # <<>> /\ Quiet(r[Len(r)])
      BY <1>2, <1>3, <2>1, <3>1, <3>3
    <3> QED BY <1>1, <1>9, <1>11, <2>2, <3>1, <3>4 DEF Settled, r
  <2> QED BY <2>3, <2>4
<1> QED BY <1>10, <1>11

LEMMA ListenStep ==
  ASSUME TuningInv, NEW l \in Listeners, Listen(l)
  PROVE  TuningInv'
<1>1. /\ TypeOK' /\ ~pids'["sap"]
      /\ UNCHANGED <<tuned, streaming, pc, goal, disturbed>>
      /\ Flags(l, queue[l][1])
      /\ \A m \in Listeners \ {l} : queue'[m] = queue[m]
  BY ListenEffect DEF TuningInv, CallerInv
<1>2. \A m \in Listeners \ {l} :
        idle'[m] = idle[m] /\ pids'[m] = pids[m] /\ pnrs'[m] = pnrs[m]
  BY <1>1 DEF Flags, Frame
<1>3. CallerInv'
  BY <1>1, <1>2, ListenTunedLast DEF TuningInv, CallerInv
<1>4. \A m \in Listeners : TunedLast(m)'
  <2>1. \A m \in Listeners \ {l} : TunedLast(m)'
    BY <1>1, <1>2 DEF TuningInv, TunedLast
  <2> QED BY <2>1, ListenTunedLast
<1>5. ~disturbed' /\ pc' # "wait_tuned" => \A m \in Listeners : Settled(m)'
  <2> SUFFICES ASSUME ~disturbed', pc' # "wait_tuned" PROVE \A m \in Listeners : Settled(m)'
    OBVIOUS
  <2>1. \A m \in Listeners : Settled(m)
    BY <1>1 DEF TuningInv
  <2>2. \A m \in Listeners \ {l} : Settled(m)'
    <3> SUFFICES ASSUME NEW m \in Listeners \ {l} PROVE Settled(m)'
      OBVIOUS
    <3>1. /\ queue'[m] = queue[m] /\ idle'[m] = idle[m] /\ pids'[m] = pids[m]
          /\ tuned' = tuned /\ Settled(m)
      BY <1>1, <1>2, <2>1
    <3> QED BY <3>1 DEF Settled, Quiet
  <2>3. Settled(l)'
    BY <1>1, <2>1, ListenSettled
  <2> QED BY <2>2, <2>3
<1>6. \A m \in {"net_writer", "sap"} : Reaches(pnrs'[m], queue'[m], streaming')
  <2>1. \A m \in {"net_writer", "sap"} : Reaches(pnrs[m], queue[m], streaming) /\ m \in Listeners
    BY CallerKeeps
  <2>2. \A m \in {"net_writer", "sap"} : m # l => Reaches(pnrs'[m], queue'[m], streaming')
    BY <1>1, <1>2, <2>1
  <2>3. l \in {"net_writer", "sap"} => Reaches(pnrs'[l], queue'[l], streaming')
    <3> SUFFICES ASSUME l \in {"net_writer", "sap"} PROVE Reaches(pnrs'[l], queue'[l], streaming)
      BY <1>1
    <3>1. /\ queue[l] # <<>> /\ queue[l] \in Seq(Events) /\ queue'[l] = Tail(queue[l])
          /\ pnrs'[l] = Served(pnrs[l], Head(queue[l]))
      BY ListenEffect DEF TuningInv, CallerInv
    <3>2. Reaches(Served(pnrs[l], Head(queue[l])), Tail(queue[l]), streaming)
      BY <2>1, <3>1, ReachesTail
    <3> QED BY <3>1, <3>2
  <2> QED BY <2>2, <2>3
<1> QED BY <1>1, <1>3, <1>4, <1>5, <1>6 DEF TuningInv

-----------------------------------------------------------------------------
(* Initially nothing is tuned, streamed or queued.                         *)
LEMMA TuningInit == Init => TuningInv
<1> SUFFICES ASSUME Init PROVE TuningInv
  OBVIOUS
<1> USE DEF Init
<1>1. TypeOK
  <2>1. queue \in [Listeners -> Seq(Events)]
    OBVIOUS
  <2>2. idle \in [Listeners -> BOOLEAN] /\ pids \in [Listeners -> BOOLEAN]
        /\ pnrs \in [Listeners -> SUBSET Pnrs] /\ disturbed \in BOOLEAN
    OBVIOUS
  <2>3. goal \in [tp : Transponders \cup {Untuned}, pnr : SUBSET Pnrs]
    BY DEF NoGoal
  <2>4. /\ tuned \in Transponders \cup {Untuned} /\ streaming \in SUBSET Pnrs /\ known \in SUBSET Transponders
        /\ pc \in {"ready", "wait_idle", "tune", "wait_tuned", "tuned", "wait_untuned"}
    OBVIOUS
  <2> QED BY <2>1, <2>2, <2>3, <2>4 DEF TypeOK
<1>2. CallerInv
  BY DEF CallerInv, Listeners
<1>3. \A l \in Listeners : Len(queue[l]) = 0 /\ idle[l] /\ ~pids[l]
  OBVIOUS
<1>4. \A l \in Listeners : TunedLast(l) /\ Settled(l)
  BY <1>3 DEF TunedLast, Settled
<1>5. \A l \in {"net_writer", "sap"} : queue[l] = <<>> /\ pnrs[l] = {} /\ streaming = {}
  BY DEF Listeners
<1>6. Reaches({}, <<>>, {})
  BY ReachesEmpty
<1>7. \A l \in {"net_writer", "sap"} : Reaches(pnrs[l], queue[l], streaming)
  BY <1>5, <1>6
<1> QED BY <1>1, <1>2, <1>4, <1>7 DEF TuningInv

LEMMA TuningStep == TuningInv /\ [Next]_vars => TuningInv'
<1> SUFFICES ASSUME TuningInv, [Next]_vars PROVE TuningInv'
  OBVIOUS
<1>1. CASE Caller
  BY <1>1, IdleSeenStep, TuneFailsStep, TuneNoDvrStep, TuneLocksStep, AllTunedStep,
     EndTuneStep DEF Caller
<1>2. CASE UNCHANGED vars
  BY <1>2 DEF vars, listening, TuningInv, TypeOK, CallerInv, TunedLast, Settled
<1> QED BY <1>1, <1>2, AddPnrStep, RmvPnrStep, SetSwitchStep, BeginTuneStep, UnTuneStep,
           ListenStep DEF Next

LEMMA TuningInvariant == Spec => []TuningInv
  BY TuningInit, TuningStep, PTL DEF Spec

(* When srvTuneTpi has seen all its listeners idle, none of them has a pid *)
(* open nor will open one: dvbTuneS's assertion holds, for any number of   *)
(* unread events, unless the switch was reconfigured or the dvr device     *)
(* failed since the last completed tuning.                                 *)
THEOREM AssertionHolds == Spec => []QuiesceBeforeTuning
<1>1. TuningInv => QuiesceBeforeTuning
  BY DEF TuningInv, CallerInv, Settled, QuiesceBeforeTuning, AssertHolds, PidsClosed
<1> QED BY <1>1, TuningInvariant, PTL

(* net_writer and sap serve what the connections stream as soon as they    *)
(* have read their events, through any sequence of tunings, failed ones    *)
(* and reconfigurations included.                                          *)
THEOREM StreamersAlwaysFollow == Spec => []StreamersFollow
<1>1. TuningInv => StreamersFollow
  <2> SUFFICES ASSUME TuningInv, NEW l \in {"net_writer", "sap"}, queue[l] = <<>>
               PROVE  pnrs[l] = streaming
    BY DEF TuningInv, StreamersFollow
  <2>1. pnrs[l] \in SUBSET Pnrs /\ Reaches(pnrs[l], queue[l], streaming)
    BY DEF TuningInv, TypeOK, Listeners
  <2> QED BY <2>1, ReachesEmpty
<1> QED BY <1>1, TuningInvariant, PTL
=============================================================================
