------------------------------- MODULE VaultProofs -------------------------------
(***************************************************************************)
(* That no node computes a deadline later than the lifetime of the Broker's*)
(* own Vault token allows, for any lifetime, latency, number of nodes and of*)
(* faults; and that the secret id handed out last is not destroyed, for any*)
(* number of requests, secret ids and failing calls.                       *)
(***************************************************************************)
EXTENDS VaultTokenRenewal, SecretIdCleanup, FiniteSetTheorems, TLAPS

(* Whatever a lookup has reported is at most what Vault knows now: the time  *)
(* of the last renewal only grows, and an old answer is an earlier one.     *)
AnswersAreOld == \A c \in calls : c.answer # Unserved => c.answer <= renewed

RenewedByNow == renewed <= now

RenewalInv == RenewalTypeOK /\ AnswersAreOld /\ RenewedByNow /\ DeadlineNeverLate

LEMMA RenewAfterInNat == RenewAfter \in Nat
  BY TtlIsPositive DEF RenewAfter

Sent(n, kind) == [node |-> n, kind |-> kind, sent |-> now, answer |-> Unserved]

LEMMA CallsAreCalls ==
  ASSUME NEW n \in Nodes, NEW kind \in {"lookup", "renew"}, now \in Nat
  PROVE  Sent(n, kind) \in Call /\ Sent(n, kind).answer = Unserved
  BY DEF Call, Unserved, Sent

LEMMA RenewalInitInv == RenewalInit => RenewalInv
<1> SUFFICES ASSUME RenewalInit PROVE RenewalInv
  OBVIOUS
<1>1. now \in 0 .. MaxTime /\ 0 \in 0 .. MaxTime /\ 0 \in 0 .. MaxFaults /\ 0 <= now
  BY StartAgesAreTimes, RenewalBounds DEF RenewalInit
<1>2. RenewalTypeOK
  BY <1>1 DEF RenewalInit, RenewalTypeOK
<1>3. DeadlineNeverLate
  BY DEF RenewalInit, DeadlineNeverLate
<1> QED
  BY <1>1, <1>2, <1>3 DEF RenewalInv, RenewalInit, AnswersAreOld, RenewedByNow

(* A step that changes neither the clock nor what Vault knows, gives no node *)
(* a deadline it did not have, and adds no call but one that is not served. *)
LEMMA Harmless ==
  ASSUME RenewalInv, UNCHANGED <<now, renewed>>,
         renewAt' \in [Nodes -> Nat \cup {NoDeadline}],
         \A n \in Nodes : renewAt'[n] \in {renewAt[n], NoDeadline},
         calls' \subseteq Call,
         \A c \in calls' : c \in calls \/ c.answer = Unserved,
         due' \subseteq Nodes \cup {Leader}, renewFaults' \in 0 .. MaxFaults
  PROVE  RenewalInv'
  BY DEF RenewalInv, RenewalTypeOK, AnswersAreOld, RenewedByNow, DeadlineNeverLate

LEMMA JobsKeep ==
  ASSUME RenewalInv, NEW n \in Nodes, LookupSelf(n) \/ HandleTokenRenewal(n)
  PROVE  RenewalInv'
<1>1. now \in Nat
  BY RenewalBounds DEF RenewalInv, RenewalTypeOK
<1>2. \/ calls' = calls
      \/ \E kind \in {"lookup", "renew"} : calls' = calls \cup {Sent(n, kind)}
  BY DEF LookupSelf, HandleTokenRenewal, Send, Sent
<1>3. calls' \subseteq Call /\ \A c \in calls' : c \in calls \/ c.answer = Unserved
  BY <1>1, <1>2, CallsAreCalls DEF RenewalInv, RenewalTypeOK
<1>4. UNCHANGED <<now, renewed, renewAt, renewFaults>> /\ due' \subseteq due
  BY DEF LookupSelf, HandleTokenRenewal
<1> QED
  BY <1>3, <1>4, Harmless DEF RenewalInv, RenewalTypeOK

LEMMA ServeKeeps ==
  ASSUME RenewalInv, NEW c \in calls, Serve(c)
  PROVE  RenewalInv'
<1>1. /\ renewed \in Nat /\ now \in Nat /\ RenewAfter \in Nat
      /\ renewed' \in 0 .. MaxTime /\ renewed <= renewed' /\ renewed' <= now
  BY RenewalBounds, RenewAfterInNat DEF RenewalInv, RenewalTypeOK, RenewedByNow, Serve
<1> DEFINE served == [c EXCEPT !.answer = renewed']
<1>2. served \in Call /\ served.answer = renewed'
  BY <1>1 DEF RenewalInv, RenewalTypeOK, Call
<1>3. calls' = (calls \ {c}) \cup {served}
  BY DEF Serve
<1>4. RenewalTypeOK'
  BY <1>1, <1>2, <1>3 DEF RenewalInv, RenewalTypeOK, Serve
<1>5. AnswersAreOld'
  <2> SUFFICES ASSUME NEW d \in calls', d.answer # Unserved PROVE d.answer <= renewed'
    BY DEF AnswersAreOld
  <2>1. CASE d = served
    BY <2>1, <1>1, <1>2
  <2>2. CASE d # served
    <3>1. d \in calls /\ d.answer \in Nat
      BY <2>2, <1>3 DEF RenewalInv, RenewalTypeOK, Call
    <3> QED
      BY <3>1, <1>1 DEF RenewalInv, AnswersAreOld
  <2> QED
    BY <2>1, <2>2
<1>6. DeadlineNeverLate'
  <2> SUFFICES ASSUME NEW n \in Nodes, renewAt[n] # NoDeadline
               PROVE  renewAt[n] <= renewed' + RenewAfter
    BY DEF DeadlineNeverLate, Serve, RenewAfter
  <2>1. renewAt[n] \in Nat /\ renewAt[n] <= renewed + RenewAfter
    BY DEF RenewalInv, RenewalTypeOK, DeadlineNeverLate
  <2> QED
    BY <2>1, <1>1
<1> QED
  BY <1>1, <1>4, <1>5, <1>6 DEF RenewalInv, RenewedByNow, Serve

LEMMA TakeLookupKeeps ==
  ASSUME RenewalInv, NEW c \in calls, TakeLookup(c)
  PROVE  RenewalInv'
<1>1. c.node \in Nodes /\ c.answer \in Nat /\ c.answer <= renewed /\ RenewAfter \in Nat
      /\ renewed \in Nat
  BY RenewAfterInNat, RenewalBounds
  DEF RenewalInv, RenewalTypeOK, AnswersAreOld, Call, TakeLookup
<1>2. Deadline(c.answer) \in Nat /\ Deadline(c.answer) <= renewed + RenewAfter
  BY <1>1 DEF Deadline
<1>3. RenewalTypeOK'
  BY <1>1, <1>2 DEF RenewalInv, RenewalTypeOK, TakeLookup
<1>4. AnswersAreOld' /\ RenewedByNow'
  BY DEF RenewalInv, AnswersAreOld, RenewedByNow, TakeLookup
<1>5. DeadlineNeverLate'
  BY <1>1, <1>2 DEF RenewalInv, RenewalTypeOK, DeadlineNeverLate, TakeLookup, RenewAfter
<1> QED
  BY <1>3, <1>4, <1>5 DEF RenewalInv

LEMMA CallsKeep ==
  ASSUME RenewalInv, NEW c \in calls, TakeRenewal(c) \/ LoseCall(c) \/ Refuse(c)
  PROVE  RenewalInv'
<1>1. c.node \in Nodes /\ now \in Nat
  BY RenewalBounds DEF RenewalInv, RenewalTypeOK, Call
<1>2. calls' \subseteq calls \cup {Sent(c.node, "lookup")}
  BY DEF TakeRenewal, LoseCall, Refuse, Sent
<1>3. calls' \subseteq Call /\ \A d \in calls' : d \in calls \/ d.answer = Unserved
  BY <1>1, <1>2, CallsAreCalls DEF RenewalInv, RenewalTypeOK
<1>4. UNCHANGED <<now, renewed, renewAt, due>> /\ renewFaults' \in 0 .. MaxFaults
  BY RenewalBounds DEF RenewalInv, RenewalTypeOK, TakeRenewal, LoseCall, Refuse, Fault
<1> QED
  BY <1>3, <1>4, Harmless DEF RenewalInv, RenewalTypeOK

LEMMA FaultsKeep ==
  ASSUME RenewalInv, (\E n \in Nodes : Restart(n)) \/ (\E j \in due : MissTick(j))
  PROVE  RenewalInv'
<1>1. UNCHANGED <<now, renewed>> /\ renewFaults' \in 0 .. MaxFaults /\ calls' \subseteq calls
  BY RenewalBounds DEF RenewalInv, RenewalTypeOK, Restart, MissTick, Fault
<1>2. renewAt' \in [Nodes -> Nat \cup {NoDeadline}] /\ \A n \in Nodes : renewAt'[n] \in {renewAt[n], NoDeadline}
  BY DEF RenewalInv, RenewalTypeOK, Restart, MissTick
<1>3. due' \subseteq due
  BY DEF Restart, MissTick
<1> QED
  BY <1>1, <1>2, <1>3, Harmless DEF RenewalInv, RenewalTypeOK

LEMMA MinuteKeeps == RenewalInv /\ Minute => RenewalInv'
<1> SUFFICES ASSUME RenewalInv, Minute PROVE RenewalInv'
  OBVIOUS
<1>1. now' \in 0 .. MaxTime /\ renewed <= now'
  BY RenewalBounds DEF RenewalInv, RenewalTypeOK, RenewedByNow, Minute
<1>2. RenewalTypeOK'
  BY <1>1 DEF RenewalInv, RenewalTypeOK, Minute
<1>3. AnswersAreOld' /\ DeadlineNeverLate'
  BY DEF RenewalInv, AnswersAreOld, DeadlineNeverLate, Minute, RenewAfter
<1> QED
  BY <1>1, <1>2, <1>3 DEF RenewalInv, RenewedByNow, Minute

LEMMA RenewalInvariance == RenewalInv /\ [RenewalNext]_renewalVars => RenewalInv'
<1>1. CASE RenewalNext
  BY <1>1, JobsKeep, ServeKeeps, TakeLookupKeeps, CallsKeep, FaultsKeep, MinuteKeeps
  DEF RenewalNext
<1>2. CASE UNCHANGED renewalVars
  BY <1>2 DEF renewalVars, RenewalInv, RenewalTypeOK, AnswersAreOld, RenewedByNow,
              DeadlineNeverLate
<1> QED
  BY <1>1, <1>2

(* The deadlines, the calls and the clock keep their shape. *)
THEOREM RenewalTypeCorrect == RenewalSpec => []RenewalTypeOK
<1>1. RenewalInv => RenewalTypeOK
  BY DEF RenewalInv
<1> QED
  BY RenewalInitInv, RenewalInvariance, <1>1, PTL DEF RenewalSpec

(* However late, lost or out of order the answers of Vault are, no node      *)
(* waits with the renewal for longer than three quarters of the lifetime     *)
(* after the last one.                                                       *)
THEOREM DeadlinesAreEarly == RenewalSpec => []DeadlineNeverLate
<1>1. RenewalInv => DeadlineNeverLate
  BY DEF RenewalInv
<1> QED
  BY RenewalInitInv, RenewalInvariance, <1>1, PTL DEF RenewalSpec

-----------------------------------------------------------------------------
(* What a fault can cost: the renewal that is lost is found missing after    *)
(* the latency, the next minute's job finds a node without a deadline, and   *)
(* the one after that sends a call whose answer takes the latency again.     *)
Cost == 2 * Latency + 2

(* The quarter of the lifetime that is left outlasts the faults and an       *)
(* answer, and the token was young enough when the application started.      *)
QuarterSuffices ==
    /\ RenewAfter + Cost * MaxFaults + Latency < Ttl
    /\ Latency + 2 <= RenewAfter
    /\ \A age \in StartAges : age + Latency + 1 <= RenewAfter

(* By then the token is renewed, if nothing more fails. *)
Horizon == renewed + RenewAfter + Cost * renewFaults + Latency

CallsAreYoung == \A c \in calls : c.sent <= now /\ now <= c.sent + Latency

RenewalUnderWay ==
    \E c \in calls : c.kind = "renew" /\ c.answer = Unserved /\ c.sent + Latency <= Horizon

LeaderInTime == \/ Leader \in due /\ now + Latency <= Horizon
                \/ now + Latency + 1 <= Horizon

(* The node has a deadline, or will have one early enough for the leader job *)
(* of the next minute to send a renewal that is served in time.              *)
Informed(n) ==
    \/ renewAt[n] # NoDeadline
    \/ \E c \in calls : c.node = n /\ c.kind = "lookup" /\ c.sent + 2 * Latency + 1 <= Horizon
    \/ n \in due /\ now + 2 * Latency + 1 <= Horizon
    \/ now + 2 * Latency + 2 <= Horizon

RenewalIsNear == LeaderInTime /\ \A n \in Nodes : Informed(n)

AliveInv == RenewalInv /\ CallsAreYoung /\ (RenewalUnderWay \/ RenewalIsNear)

LEMMA CostIs ==
  /\ Latency \in Nat /\ Cost \in Nat /\ Cost = 2 * Latency + 2
  /\ \A f \in Nat : Cost * f \in Nat /\ Cost * (f + 1) = Cost * f + Cost
  /\ \A f, g \in Nat : f <= g => Cost * f <= Cost * g
  BY LatencyInNat DEF Cost

LEMMA NumbersOfRenewal ==
  ASSUME RenewalInv
  PROVE  /\ now \in Nat /\ renewed \in Nat /\ renewed <= now /\ renewFaults \in Nat
         /\ RenewAfter \in Nat /\ Latency \in Nat /\ Horizon \in Nat
         /\ \A c \in calls : c.sent \in Nat
<1>1. now \in Nat /\ renewed \in Nat /\ renewed <= now /\ renewFaults \in Nat
      /\ RenewAfter \in Nat /\ \A c \in calls : c.sent \in Nat
  BY RenewalBounds, RenewAfterInNat DEF RenewalInv, RenewalTypeOK, RenewedByNow, Call
<1>2. Latency \in Nat /\ Cost * renewFaults \in Nat
  BY <1>1, CostIs
<1> QED
  BY <1>1, <1>2 DEF Horizon

LEMMA BeforeTheHorizon ==
  ASSUME AliveInv
  PROVE  now <= Horizon
<1>1. /\ now \in Nat /\ Horizon \in Nat /\ Latency \in Nat
      /\ \A c \in calls : c.sent \in Nat
  BY NumbersOfRenewal DEF AliveInv
<1>2. CASE RenewalUnderWay
  BY <1>1, <1>2 DEF AliveInv, CallsAreYoung, RenewalUnderWay
<1>3. CASE RenewalIsNear
  BY <1>1, <1>3 DEF RenewalIsNear, LeaderInTime
<1> QED
  BY <1>2, <1>3 DEF AliveInv

LEMMA AliveUntilThen ==
  ASSUME QuarterSuffices, AliveInv
  PROVE  Alive
<1>1. now <= Horizon
  BY BeforeTheHorizon
<1>2. /\ now \in Nat /\ renewed \in Nat /\ renewFaults \in Nat /\ RenewAfter \in Nat
      /\ Latency \in Nat
  BY NumbersOfRenewal DEF AliveInv
<1>3. renewFaults <= MaxFaults /\ MaxFaults \in Nat
  BY RenewalBounds DEF AliveInv, RenewalInv, RenewalTypeOK
<1>4. PICK spent \in Nat : spent = Cost * renewFaults
  BY <1>2, CostIs
<1>5. PICK all \in Nat : all = Cost * MaxFaults
  BY <1>3, CostIs
<1>6. spent <= all
  BY <1>2, <1>3, <1>4, <1>5, CostIs
<1>7. now <= renewed + RenewAfter + spent + Latency
  BY <1>1, <1>4 DEF Horizon
<1>8. RenewAfter + all + Latency < Ttl /\ Ttl \in Nat
  BY <1>5, TtlIsPositive DEF QuarterSuffices
<1> QED
  BY <1>2, <1>4, <1>5, <1>6, <1>7, <1>8 DEF Alive

LEMMA AliveInit ==
  ASSUME QuarterSuffices, RenewalInit
  PROVE  AliveInv
<1>1. RenewalInv
  BY RenewalInitInv
<1>2. /\ now \in Nat /\ RenewAfter \in Nat /\ Latency \in Nat
  BY <1>1, NumbersOfRenewal
<1>3. Cost * 0 = 0
  BY CostIs
<1>4. Horizon = RenewAfter + Latency
  BY <1>2, <1>3 DEF Horizon, RenewalInit
<1>5. now + Latency + 1 <= RenewAfter
  BY DEF QuarterSuffices, RenewalInit
<1>6. LeaderInTime
  BY <1>2, <1>4, <1>5 DEF LeaderInTime
<1>7. \A n \in Nodes : Informed(n)
  BY <1>2, <1>4, <1>5 DEF Informed, RenewalInit
<1> QED
  BY <1>1, <1>6, <1>7 DEF AliveInv, RenewalIsNear, CallsAreYoung, RenewalInit

(* Each fault moves the horizon by what it can cost. *)
LEMMA AliveAfterFault ==
  ASSUME AliveInv, RenewalInv', renewFaults' = renewFaults + 1,
         UNCHANGED <<now, renewed>>, calls' \subseteq calls
  PROVE  AliveInv'
<1>1. /\ now \in Nat /\ Horizon \in Nat /\ Latency \in Nat /\ renewed \in Nat
      /\ renewFaults \in Nat /\ RenewAfter \in Nat
  BY NumbersOfRenewal DEF AliveInv
<1>2. PICK spent \in Nat : spent = Cost * renewFaults
  BY <1>1, CostIs
<1>3. Cost * (renewFaults + 1) = spent + 2 * Latency + 2
  BY <1>1, <1>2, CostIs
<1>4. Horizon' = renewed + RenewAfter + (spent + 2 * Latency + 2) + Latency
  BY <1>3 DEF Horizon, RenewAfter
<1>5. Horizon = renewed + RenewAfter + spent + Latency
  BY <1>2 DEF Horizon
<1>6. now' + 2 * Latency + 2 <= Horizon'
  BY <1>1, <1>2, <1>4, <1>5, BeforeTheHorizon
<1>7. Horizon' \in Nat
  BY <1>1, <1>2, <1>4
<1>8. LeaderInTime'
  BY <1>1, <1>6, <1>7 DEF LeaderInTime
<1>9. \A n \in Nodes : Informed(n)'
  BY <1>6 DEF Informed
<1> QED
  BY <1>8, <1>9 DEF AliveInv, RenewalIsNear, CallsAreYoung

(* Nodes stay informed while the clock, the horizon and the lookups stay, or *)
(* a lookup ends with a deadline.                                            *)
LEMMA StaysInformed ==
  ASSUME UNCHANGED <<now, renewed, renewFaults>>, NEW n \in Nodes, Informed(n),
         n \in due => n \in due',
         renewAt[n] # NoDeadline => renewAt'[n] # NoDeadline,
         \A c \in calls : c.node = n /\ c.kind = "lookup" =>
            \/ renewAt'[n] # NoDeadline
            \/ \E d \in calls' : d.node = n /\ d.kind = "lookup" /\ d.sent = c.sent
  PROVE  Informed(n)'
<1>1. Horizon' = Horizon
  BY DEF Horizon, RenewAfter
<1>2. CASE renewAt[n] # NoDeadline
  BY <1>2 DEF Informed
<1>3. CASE \E c \in calls : c.node = n /\ c.kind = "lookup" /\ c.sent + 2 * Latency + 1 <= Horizon
  <2>1. PICK c \in calls : c.node = n /\ c.kind = "lookup" /\ c.sent + 2 * Latency + 1 <= Horizon
    BY <1>3
  <2>2. CASE renewAt'[n] # NoDeadline
    BY <2>2 DEF Informed
  <2>3. CASE \E d \in calls' : d.node = n /\ d.kind = "lookup" /\ d.sent = c.sent
    BY <1>1, <2>1, <2>3 DEF Informed
  <2> QED
    BY <2>1, <2>2, <2>3
<1>4. CASE n \in due /\ now + 2 * Latency + 1 <= Horizon
  BY <1>1, <1>4 DEF Informed
<1>5. CASE now + 2 * Latency + 2 <= Horizon
  BY <1>1, <1>5 DEF Informed
<1> QED
  BY <1>2, <1>3, <1>4, <1>5 DEF Informed

LEMMA RenewalGoesOn ==
  ASSUME RenewalUnderWay, UNCHANGED <<renewed, renewFaults>>,
         \A c \in calls : c.kind = "renew" /\ c.answer = Unserved => c \in calls'
  PROVE  RenewalUnderWay'
<1>1. Horizon' = Horizon
  BY DEF Horizon, RenewAfter
<1> QED
  BY <1>1 DEF RenewalUnderWay

LEMMA YoungCalls ==
  ASSUME AliveInv, now' = now,
         \A c \in calls' : c.sent = now \/ \E d \in calls : c.sent = d.sent
  PROVE  CallsAreYoung'
<1>1. now \in Nat /\ Latency \in Nat
  BY NumbersOfRenewal DEF AliveInv
<1> QED
  BY <1>1 DEF AliveInv, CallsAreYoung

LEMMA LookupSelfInTime ==
  ASSUME AliveInv, RenewalInv', NEW n \in Nodes, LookupSelf(n)
  PROVE  AliveInv'
<1> PICK asked : asked = Sent(n, "lookup")
  OBVIOUS
<1>a. asked.node = n /\ asked.kind = "lookup" /\ asked.sent = now
  BY DEF Sent
<1>b. /\ UNCHANGED <<now, renewed, renewAt, renewFaults>> /\ due' = due \ {n}
      /\ IF renewAt[n] = NoDeadline \/ Passed(n) THEN calls' = calls \cup {asked} ELSE calls' = calls
  BY DEF LookupSelf, Send, Sent
<1>1. /\ UNCHANGED <<now, renewed, renewAt, renewFaults>> /\ due' = due \ {n} /\ calls \subseteq calls'
      /\ \A c \in calls' \ calls : c.sent = now
      /\ renewAt[n] = NoDeadline =>
            \E c \in calls' : c.node = n /\ c.kind = "lookup" /\ c.sent = now
  BY <1>a, <1>b
<1>2. CallsAreYoung'
  BY <1>1, YoungCalls
<1>3. CASE RenewalUnderWay
  BY <1>1, <1>2, <1>3, RenewalGoesOn DEF AliveInv
<1>4. CASE RenewalIsNear
  <2>1. now \in Nat /\ Horizon \in Nat /\ Latency \in Nat
    BY NumbersOfRenewal DEF AliveInv
  <2>2. Horizon' = Horizon
    BY <1>1 DEF Horizon, RenewAfter
  <2>3. LeaderInTime'
    BY <1>1, <1>4, <2>2, LeaderIsNoNode DEF RenewalIsNear, LeaderInTime, Leader
  <2>4. ASSUME NEW m \in Nodes, m # n PROVE Informed(m)'
    BY <1>1, <1>4, <2>4, StaysInformed DEF RenewalIsNear
  <2>5. Informed(n)'
    <3>1. Informed(n)
      BY <1>4 DEF RenewalIsNear
    <3>2. CASE n \in due /\ now + 2 * Latency + 1 <= Horizon
      BY <1>1, <2>2, <3>2 DEF Informed
    <3>3. CASE now + 2 * Latency + 2 <= Horizon
      BY <1>1, <2>2, <3>3 DEF Informed
    <3> QED
      BY <1>1, <2>2, <3>1, <3>2, <3>3 DEF Informed
  <2> QED
    BY <1>2, <2>3, <2>4, <2>5 DEF AliveInv, RenewalIsNear
<1> QED
  BY <1>3, <1>4 DEF AliveInv

(* The leader job sends the renewal, or it is too early for it, or the node  *)
(* has no deadline and will have one in time.                                *)
LEMMA LeaderJobInTime ==
  ASSUME AliveInv, RenewalInv', NEW n \in Nodes, HandleTokenRenewal(n)
  PROVE  AliveInv'
<1>1. /\ UNCHANGED <<now, renewed, renewAt, renewFaults>> /\ due' = due \ {Leader} /\ calls \subseteq calls'
      /\ \A c \in calls' \ calls : c.sent = now
  BY DEF HandleTokenRenewal, Send
<1>2. CallsAreYoung'
  BY <1>1, YoungCalls
<1>3. CASE RenewalUnderWay
  BY <1>1, <1>2, <1>3, RenewalGoesOn DEF AliveInv
<1>4. CASE RenewalIsNear
  <2>1. /\ now \in Nat /\ Horizon \in Nat /\ Latency \in Nat /\ renewed \in Nat /\ RenewAfter \in Nat
        /\ renewFaults \in Nat /\ \A c \in calls : c.sent \in Nat
    BY NumbersOfRenewal DEF AliveInv
  <2>2. Horizon' = Horizon
    BY <1>1 DEF Horizon, RenewAfter
  <2>3. \A m \in Nodes : Informed(m)'
    BY <1>1, <1>4, StaysInformed, LeaderIsNoNode DEF RenewalIsNear, Leader
  <2>4. now + Latency <= Horizon
    BY <1>4, <2>1 DEF RenewalIsNear, LeaderInTime
  <2>5. CASE renewAt[n] = NoDeadline
    <3>1. Informed(n)
      BY <1>4 DEF RenewalIsNear
    <3>2. now + Latency + 1 <= Horizon
      BY <2>1, <2>5, <3>1 DEF Informed, AliveInv, CallsAreYoung
    <3> QED
      BY <1>1, <1>2, <2>2, <2>3, <3>2 DEF AliveInv, RenewalIsNear, LeaderInTime
  <2>6. CASE Passed(n) /\ Send(n, "renew")
    <3> PICK asked : asked = Sent(n, "renew")
      OBVIOUS
    <3>a. asked.kind = "renew" /\ asked.sent = now /\ asked.answer = Unserved
      BY DEF Sent
    <3>b. asked \in calls'
      BY <2>6 DEF Send, Sent
    <3>1. RenewalUnderWay'
      BY <2>2, <2>4, <3>a, <3>b DEF RenewalUnderWay
    <3> QED
      BY <1>2, <3>1 DEF AliveInv
  <2>7. CASE renewAt[n] # NoDeadline /\ ~Passed(n)
    <3>1. renewAt[n] \in Nat /\ renewAt[n] <= renewed + RenewAfter
      BY <2>7 DEF AliveInv, RenewalInv, RenewalTypeOK, DeadlineNeverLate
    <3>2. now < renewAt[n]
      BY <2>1, <2>7, <3>1 DEF Passed
    <3>3. PICK spent \in Nat : spent = Cost * renewFaults
      BY <2>1, CostIs
    <3>4. Horizon = renewed + RenewAfter + spent + Latency
      BY <3>3 DEF Horizon
    <3>5. now + Latency + 1 <= Horizon
      BY <2>1, <3>1, <3>2, <3>3, <3>4
    <3> QED
      BY <1>1, <1>2, <2>2, <2>3, <3>5 DEF AliveInv, RenewalIsNear, LeaderInTime
  <2> QED
    BY <2>5, <2>6, <2>7 DEF HandleTokenRenewal
<1> QED
  BY <1>3, <1>4 DEF AliveInv

LEMMA ServeInTime ==
  ASSUME QuarterSuffices, AliveInv, RenewalInv', NEW c \in calls, Serve(c)
  PROVE  AliveInv'
<1> PICK d : d = [c EXCEPT !.answer = renewed']
  OBVIOUS
<1>1. /\ UNCHANGED <<now, renewAt, due, renewFaults>> /\ calls' = (calls \ {c}) \cup {d}
      /\ c.answer = Unserved /\ c \in Call
  BY DEF Serve, AliveInv, RenewalInv, RenewalTypeOK
<1>2. d.node = c.node /\ d.kind = c.kind /\ d.sent = c.sent
  BY <1>1 DEF Call
<1>3. CallsAreYoung'
  BY <1>1, <1>2, YoungCalls
<1>4. /\ now \in Nat /\ Latency \in Nat /\ RenewAfter \in Nat /\ renewFaults \in Nat
  BY NumbersOfRenewal DEF AliveInv
<1>5. CASE c.kind = "renew"
  <2>1. renewed' = now
    BY <1>5 DEF Serve
  <2>2. PICK spent \in Nat : spent = Cost * renewFaults
    BY <1>4, CostIs
  <2>3. Horizon' = now + RenewAfter + spent + Latency
    BY <1>1, <2>1, <2>2 DEF Horizon, RenewAfter
  <2>4. Latency + 2 <= RenewAfter
    BY DEF QuarterSuffices
  <2>5. now' + 2 * Latency + 2 <= Horizon' /\ now' + Latency + 1 <= Horizon'
    BY <1>1, <1>4, <2>2, <2>3, <2>4
  <2> QED
    BY <1>3, <2>5 DEF AliveInv, RenewalIsNear, LeaderInTime, Informed
<1>6. CASE c.kind # "renew"
  <2>1. renewed' = renewed
    BY <1>6 DEF Serve
  <2>2. CASE RenewalUnderWay
    BY <1>1, <1>3, <1>6, <2>1, <2>2, RenewalGoesOn DEF AliveInv
  <2>3. CASE RenewalIsNear
    <3>1. Horizon' = Horizon
      BY <1>1, <2>1 DEF Horizon, RenewAfter
    <3>2. LeaderInTime'
      BY <1>1, <2>3, <3>1 DEF RenewalIsNear, LeaderInTime
    <3>3. ASSUME NEW m \in Nodes PROVE Informed(m)'
      <4>1. \A e \in calls : e.node = m /\ e.kind = "lookup" =>
               \E x \in calls' : x.node = m /\ x.kind = "lookup" /\ x.sent = e.sent
        BY <1>1, <1>2
      <4> QED
        BY <1>1, <2>1, <2>3, <4>1, StaysInformed DEF RenewalIsNear
    <3> QED
      BY <1>3, <3>2, <3>3 DEF AliveInv, RenewalIsNear
  <2> QED
    BY <2>2, <2>3 DEF AliveInv
<1> QED
  BY <1>5, <1>6

LEMMA TakeLookupInTime ==
  ASSUME AliveInv, RenewalInv', NEW c \in calls, TakeLookup(c)
  PROVE  AliveInv'
<1>1. /\ UNCHANGED <<now, renewed, due, renewFaults>> /\ calls' = calls \ {c}
      /\ c.answer # Unserved /\ c \in Call
      /\ renewAt' = [renewAt EXCEPT ![c.node] = Deadline(c.answer)]
  BY DEF TakeLookup, AliveInv, RenewalInv, RenewalTypeOK
<1>2. CallsAreYoung'
  BY <1>1, YoungCalls
<1>3. Deadline(c.answer) \in Int /\ c.node \in Nodes
  BY <1>1, RenewAfterInNat DEF Call, Deadline
<1>4. renewAt'[c.node] # NoDeadline
      /\ \A m \in Nodes : renewAt[m] # NoDeadline => renewAt'[m] # NoDeadline
  BY <1>1, <1>3, NoDeadlineIsNoTime DEF AliveInv, RenewalInv, RenewalTypeOK
<1>5. CASE RenewalUnderWay
  BY <1>1, <1>2, <1>5, RenewalGoesOn DEF AliveInv
<1>6. CASE RenewalIsNear
  <2>1. Horizon' = Horizon
    BY <1>1 DEF Horizon, RenewAfter
  <2>2. LeaderInTime'
    BY <1>1, <1>6, <2>1 DEF RenewalIsNear, LeaderInTime
  <2>3. ASSUME NEW m \in Nodes PROVE Informed(m)'
    <3>1. \A e \in calls : e.node = m /\ e.kind = "lookup" =>
             \/ renewAt'[m] # NoDeadline
             \/ \E x \in calls' : x.node = m /\ x.kind = "lookup" /\ x.sent = e.sent
      BY <1>1, <1>4
    <3> QED
      BY <1>1, <1>4, <1>6, <3>1, StaysInformed DEF RenewalIsNear
  <2> QED
    BY <1>2, <2>2, <2>3 DEF AliveInv, RenewalIsNear
<1> QED
  BY <1>5, <1>6 DEF AliveInv

LEMMA TakeRenewalInTime ==
  ASSUME AliveInv, RenewalInv', NEW c \in calls, TakeRenewal(c)
  PROVE  AliveInv'
<1>1. /\ UNCHANGED <<now, renewed, renewAt, due, renewFaults>> /\ calls \ {c} \subseteq calls'
      /\ \A e \in calls' : e \in calls \/ e.sent = now
      /\ c.kind = "renew" /\ c.answer # Unserved
  BY DEF TakeRenewal
<1>2. CallsAreYoung'
  BY <1>1, YoungCalls
<1>3. CASE RenewalUnderWay
  BY <1>1, <1>2, <1>3, RenewalGoesOn DEF AliveInv
<1>4. CASE RenewalIsNear
  <2>1. Horizon' = Horizon
    BY <1>1 DEF Horizon, RenewAfter
  <2>2. LeaderInTime'
    BY <1>1, <1>4, <2>1 DEF RenewalIsNear, LeaderInTime
  <2>3. \A m \in Nodes : Informed(m)'
    BY <1>1, <1>4, StaysInformed DEF RenewalIsNear
  <2> QED
    BY <1>2, <2>2, <2>3 DEF AliveInv, RenewalIsNear
<1> QED
  BY <1>3, <1>4 DEF AliveInv

LEMMA MinuteInTime ==
  ASSUME AliveInv, RenewalInv', Minute
  PROVE  AliveInv'
<1>1. /\ now' = now + 1 /\ due' = Nodes \cup {Leader} /\ due = {}
      /\ UNCHANGED <<renewed, renewAt, calls, renewFaults>>
      /\ \A c \in calls : now - c.sent < Latency
  BY DEF Minute
<1>2. /\ now \in Nat /\ Horizon \in Nat /\ Latency \in Nat /\ \A c \in calls : c.sent \in Nat
  BY NumbersOfRenewal DEF AliveInv
<1>3. CallsAreYoung'
  BY <1>1, <1>2 DEF AliveInv, CallsAreYoung
<1>4. CASE RenewalUnderWay
  BY <1>1, <1>3, <1>4, RenewalGoesOn DEF AliveInv
<1>5. CASE RenewalIsNear
  <2>1. Horizon' = Horizon
    BY <1>1 DEF Horizon, RenewAfter
  <2>2. now + Latency + 1 <= Horizon
    BY <1>1, <1>5 DEF RenewalIsNear, LeaderInTime
  <2>3. LeaderInTime'
    BY <1>1, <1>2, <2>1, <2>2 DEF LeaderInTime
  <2>4. ASSUME NEW m \in Nodes PROVE Informed(m)'
    BY <1>1, <1>2, <1>5, <2>1 DEF RenewalIsNear, Informed
  <2> QED
    BY <1>3, <2>3, <2>4 DEF AliveInv, RenewalIsNear
<1> QED
  BY <1>4, <1>5 DEF AliveInv

LEMMA AliveStep ==
  ASSUME QuarterSuffices, AliveInv, [RenewalNext]_renewalVars
  PROVE  AliveInv'
<1>1. RenewalInv'
  BY RenewalInvariance DEF AliveInv
<1>2. CASE UNCHANGED renewalVars
  BY <1>1, <1>2 DEF renewalVars, AliveInv, CallsAreYoung, RenewalUnderWay, RenewalIsNear, LeaderInTime,
                    Informed, Horizon, RenewAfter
<1>3. ASSUME NEW c \in calls, LoseCall(c) PROVE AliveInv'
  BY <1>1, <1>3, AliveAfterFault DEF LoseCall, Fault
<1>4. ASSUME NEW n \in Nodes, Restart(n) PROVE AliveInv'
  <2>1. renewFaults' = renewFaults + 1 /\ UNCHANGED <<now, renewed>> /\ calls' \subseteq calls
    BY <1>4 DEF Restart, Fault
  <2> QED
    BY <1>1, <2>1, AliveAfterFault
<1>5. ASSUME NEW j \in due, MissTick(j) PROVE AliveInv'
  BY <1>1, <1>5, AliveAfterFault DEF MissTick, Fault
<1>6. ASSUME NEW c \in calls PROVE ~Refuse(c)
  BY AliveUntilThen DEF Refuse
<1>7. CASE RenewalNext
  BY <1>1, <1>3, <1>4, <1>5, <1>6, <1>7, MinuteInTime, LookupSelfInTime, LeaderJobInTime, ServeInTime,
     TakeLookupInTime, TakeRenewalInTime DEF RenewalNext
<1> QED
  BY <1>2, <1>7

(* The Broker's Vault token never expires, on any number of nodes, whichever *)
(* of them runs the leader job, as long as the quarter of the lifetime that  *)
(* is left at the deadline is longer than twice the latency and two minutes  *)
(* for each fault, and one latency more (vault-token.service.ts).            *)
THEOREM TokenIsRenewedInTime ==
  ASSUME QuarterSuffices
  PROVE  RenewalSpec => []TokenStaysAlive
<1>1. RenewalInit => AliveInv
  BY AliveInit
<1>2. AliveInv /\ [RenewalNext]_renewalVars => AliveInv'
  BY AliveStep
<1>3. AliveInv => TokenStaysAlive
  BY AliveUntilThen DEF TokenStaysAlive
<1> QED
  BY <1>1, <1>2, <1>3, PTL DEF RenewalSpec

-----------------------------------------------------------------------------
Ids == (1..generated) \cup Foreign

Steps == {"none", "list", "lookup", "create", "done"}

ShapeOK ==
    /\ generated \in Nat
    /\ secretIds \subseteq Ids
    /\ provision \in [Provisions -> [step : Steps, todo : SUBSET Ids]]
    /\ \A j \in destroyQueue : j.accessor \in 1..generated
    /\ barren \subseteq Provisions

(* The newest secret id waits for its destruction only where the request     *)
(* that scheduled it is still to be given a newer one, or was not given one. *)
NewestIsSpared ==
    \A j \in destroyQueue :
        j.accessor = generated => barren # {} \/ j.after \cap Underway # {}

SecretInv == ShapeOK /\ NewestIsSpared /\ NewestSurvives

LEMMA SecretInitInv == SecretInit => SecretInv
<1> SUFFICES ASSUME SecretInit PROVE SecretInv
  OBVIOUS
<1>1. Waiting \in [step : Steps, todo : SUBSET Ids]
  BY DEF Waiting, Steps
<1>2. ShapeOK
  BY <1>1 DEF SecretInit, ShapeOK, Ids
<1> QED
  BY <1>2 DEF SecretInit, SecretInv, NewestIsSpared, NewestSurvives

(* A step of a request that goes on, and may schedule the destruction of a   *)
(* secret id.                                                               *)
LEMMA GoesOn ==
  ASSUME SecretInv, NEW r \in Provisions, NEW s \in [step : Steps, todo : SUBSET Ids],
         provision' = [provision EXCEPT ![r] = s], s.step \notin {"none", "done"},
         UNCHANGED <<secretIds, generated, barren>>,
         \A j \in destroyQueue' : \/ j \in destroyQueue
                                  \/ j.accessor \in 1..generated /\ j.after = Underway /\ r \in Underway
  PROVE  SecretInv'
<1>1. \A q \in Provisions : provision'[q] = IF q = r THEN s ELSE provision[q]
  BY DEF SecretInv, ShapeOK
<1>2. Underway \subseteq Underway' /\ r \in Underway'
  BY <1>1 DEF Underway
<1>3. ShapeOK'
  BY DEF SecretInv, ShapeOK, Ids
<1>4. NewestIsSpared'
  BY <1>2 DEF SecretInv, NewestIsSpared
<1> QED
  BY <1>3, <1>4 DEF SecretInv, NewestSurvives

LEMMA BeginKeeps ==
  ASSUME SecretInv, NEW r \in Provisions, BeginProvision(r)
  PROVE  SecretInv'
<1> DEFINE s == [provision[r] EXCEPT !.step = "list"]
<1>1. provision' = [provision EXCEPT ![r] = s]
  BY DEF BeginProvision, NextStep, SecretInv, ShapeOK
<1>2. s \in [step : Steps, todo : SUBSET Ids] /\ s.step = "list"
  BY DEF SecretInv, ShapeOK, Steps
<1> QED
  BY <1>1, <1>2, GoesOn DEF BeginProvision

LEMMA ListKeeps ==
  ASSUME SecretInv, NEW r \in Provisions, ListSecretIds(r)
  PROVE  SecretInv'
<1>1. PICK s \in [step : Steps, todo : SUBSET Ids] :
        provision' = [provision EXCEPT ![r] = s] /\ s.step \in {"lookup", "create"}
  <2>1. CASE provision' = [provision EXCEPT ![r] = [step |-> "lookup", todo |-> secretIds]]
    <3>1. [step |-> "lookup", todo |-> secretIds] \in [step : Steps, todo : SUBSET Ids]
      BY DEF SecretInv, ShapeOK, Steps
    <3> QED
      BY <2>1, <3>1
  <2>2. CASE provision' = [provision EXCEPT ![r].step = NextStep("list")]
    <3> DEFINE s == [provision[r] EXCEPT !.step = NextStep("list")]
    <3>1. NextStep("list") \in {"lookup", "create"}
      BY DEF NextStep
    <3>2. s \in [step : Steps, todo : SUBSET Ids] /\ s.step \in {"lookup", "create"}
      BY <3>1 DEF SecretInv, ShapeOK, Steps
    <3>3. provision' = [provision EXCEPT ![r] = s]
      BY <2>2 DEF SecretInv, ShapeOK
    <3> QED
      BY <3>2, <3>3
  <2> QED
    BY <2>1, <2>2 DEF ListSecretIds
<1> QED
  BY <1>1, GoesOn DEF ListSecretIds

LEMMA LookupKeeps ==
  ASSUME SecretInv, NEW r \in Provisions, LookupSecretId(r)
  PROVE  SecretInv'
<1>1. provision[r].step = "lookup" /\ r \in Underway
  BY DEF LookupSecretId, Underway
<1>2. PICK id \in provision[r].todo :
        /\ provision' = [provision EXCEPT
              ![r].todo = @ \ {id},
              ![r].step = IF @ = "lookup" /\ provision[r].todo = {id}
                            THEN NextStep("lookup") ELSE @]
        /\ \/ id \in secretIds /\ IsGenerated(id) /\ Enqueue(id)
           \/ UNCHANGED destroyQueue
  BY DEF LookupSecretId
<1>3. PICK s \in [step : Steps, todo : SUBSET Ids] :
        provision' = [provision EXCEPT ![r] = s] /\ s.step \in {"lookup", "create"}
  <2> DEFINE s == [step |-> IF provision[r].todo = {id} THEN NextStep("lookup") ELSE "lookup",
                   todo |-> provision[r].todo \ {id}]
  <2>1. NextStep("lookup") = "create"
    BY DEF NextStep
  <2>2. s \in [step : Steps, todo : SUBSET Ids] /\ s.step \in {"lookup", "create"}
    BY <2>1 DEF SecretInv, ShapeOK, Steps
  <2>3. provision \in [Provisions -> [step : Steps, todo : SUBSET Ids]]
    BY DEF SecretInv, ShapeOK
  <2> DEFINE first == [provision EXCEPT ![r].todo = @ \ {id}]
             step == IF first[r].step = "lookup" /\ provision[r].todo = {id}
                       THEN NextStep("lookup") ELSE first[r].step
  <2>4. provision' = [first EXCEPT ![r].step = step]
    BY <1>2
  <2>5. first[r] = [step |-> "lookup", todo |-> provision[r].todo \ {id}]
    BY <1>1, <2>3
  <2>6. [first[r] EXCEPT !.step = step] = s
    BY <2>5
  <2>7. provision' = [provision EXCEPT ![r] = s]
    BY <2>3, <2>4, <2>6
  <2> QED
    BY <2>2, <2>7
<1>4. \A j \in destroyQueue' : \/ j \in destroyQueue
                               \/ j.accessor \in 1..generated /\ j.after = Underway
  <2>1. CASE id \in secretIds /\ IsGenerated(id) /\ Enqueue(id)
    <3>1. id \in 1..generated
      BY <2>1 DEF SecretInv, ShapeOK, Ids, IsGenerated
    <3>2. destroyQueue' \subseteq destroyQueue \cup {[accessor |-> id, after |-> Underway]}
      BY <2>1 DEF Enqueue
    <3> QED
      BY <3>1, <3>2
  <2> QED
    BY <2>1, <1>2
<1> QED
  BY <1>1, <1>3, <1>4, GoesOn DEF LookupSecretId

(* A new secret id is newer than everything that waits for its destruction. *)
LEMMA CreateKeeps ==
  ASSUME SecretInv, NEW r \in Provisions, CreateSecretId(r)
  PROVE  SecretInv'
<1>1. PICK s \in [step : Steps, todo : SUBSET Ids] : provision' = [provision EXCEPT ![r] = s]
  <2> DEFINE s == [provision[r] EXCEPT !.step = "done"]
  <2>1. NextStep("create") = "done"
    BY DEF NextStep
  <2>2. s \in [step : Steps, todo : SUBSET Ids]
    BY DEF SecretInv, ShapeOK, Steps
  <2>3. provision' = [provision EXCEPT ![r] = s]
    BY <2>1 DEF CreateSecretId, SecretInv, ShapeOK
  <2> QED
    BY <2>2, <2>3
<1>2. CASE generated' = generated + 1 /\ secretIds' = secretIds \cup {generated'} /\ UNCHANGED barren
  <2>1. generated \in Nat /\ generated' \in Nat /\ Ids \subseteq Ids' /\ generated' \in Ids'
    BY <1>2 DEF SecretInv, ShapeOK, Ids
  <2>2. [step : Steps, todo : SUBSET Ids] \subseteq [step : Steps, todo : SUBSET Ids']
    BY <2>1
  <2>3. provision' \in [Provisions -> [step : Steps, todo : SUBSET Ids']]
    BY <1>1, <2>2 DEF SecretInv, ShapeOK
  <2>4. \A j \in destroyQueue : j.accessor \in 1..generated' /\ j.accessor # generated'
    BY <1>2, <2>1 DEF SecretInv, ShapeOK
  <2>5. ShapeOK'
    BY <1>2, <2>1, <2>3, <2>4 DEF SecretInv, ShapeOK, CreateSecretId
  <2>6. NewestIsSpared'
    BY <2>4 DEF NewestIsSpared, CreateSecretId
  <2> QED
    BY <1>2, <2>5, <2>6 DEF SecretInv, NewestSurvives
<1>3. CASE barren' = barren \cup {r} /\ UNCHANGED <<secretIds, generated>>
  BY <1>1, <1>3 DEF SecretInv, ShapeOK, Ids, NewestIsSpared, NewestSurvives, CreateSecretId
<1> QED
  BY <1>2, <1>3 DEF CreateSecretId

(* Once nobody is under way who was when it was scheduled, a job's secret id *)
(* is not the newest, unless somebody was not given one.                    *)
LEMMA DestroyKeeps ==
  ASSUME SecretInv, NEW j \in destroyQueue, RunDestroyJob(j)
  PROVE  SecretInv'
<1>1. barren # {} \/ j.accessor # generated
  BY DEF SecretInv, NewestIsSpared, RunDestroyJob
<1>2. j.accessor \in 1..generated /\ generated \in Nat
  BY DEF SecretInv, ShapeOK
<1>3. j.accessor \notin Foreign
  BY <1>2, ForeignAreNotGenerated
<1>4. /\ UNCHANGED <<generated, provision, barren>> /\ destroyQueue' \subseteq destroyQueue
      /\ secretIds' \subseteq secretIds /\ secretIds \ {j.accessor} \subseteq secretIds'
  BY DEF RunDestroyJob
<1>5. ShapeOK'
  BY <1>4 DEF SecretInv, ShapeOK, Ids
<1>6. NewestIsSpared'
  BY <1>4 DEF SecretInv, NewestIsSpared, Underway
<1>7. NewestSurvives'
  BY <1>1, <1>3, <1>4 DEF SecretInv, NewestSurvives
<1> QED
  BY <1>5, <1>6, <1>7 DEF SecretInv

LEMMA SecretInvariance == SecretInv /\ [SecretNext]_secretVars => SecretInv'
<1>1. CASE SecretNext
  BY <1>1, BeginKeeps, ListKeeps, LookupKeeps, CreateKeeps, DestroyKeeps
  DEF SecretNext, ProvisionStep
<1>2. CASE UNCHANGED secretVars
  BY <1>2 DEF secretVars, SecretInv, ShapeOK, Ids, NewestIsSpared, Underway, NewestSurvives
<1> QED
  BY <1>1, <1>2

(* However many requests overlap and whichever calls fail, the secret id     *)
(* handed out last is valid unless a request scheduled the others and was    *)
(* not given one, and a secret id from elsewhere is never destroyed.         *)
THEOREM NewestIsKept == SecretSpec => []NewestSurvives
<1>1. SecretInv => NewestSurvives
  BY DEF SecretInv
<1> QED
  BY SecretInitInv, SecretInvariance, <1>1, PTL DEF SecretSpec
-----------------------------------------------------------------------------
Done == {r \in Provisions : provision[r].step = "done"}

(* A secret id has at most one job, which Redis knows; each request is given *)
(* at most one secret id.                                                    *)
JobsOK ==
    /\ \A j \in destroyQueue : j.accessor \in jobIds /\ j.after \subseteq Provisions
    /\ \A j, k \in destroyQueue : j.accessor = k.accessor => j = k
    /\ jobIds \subseteq Ids
    /\ vaultFaults \in 0 .. MaxVaultFaults
    /\ generated <= Cardinality(Done)

SecretTypeInv == SecretInv /\ JobsOK

LEMMA DoneIsFinite ==
  /\ IsFiniteSet(Done) /\ Cardinality(Done) \in Nat
  /\ Cardinality(Done) <= Cardinality(Provisions) /\ Cardinality(Provisions) \in Nat
  /\ IsFiniteSet(Done') /\ Cardinality(Done') \in Nat
<1>1. Done \in SUBSET Provisions /\ Done' \in SUBSET Provisions
  BY DEF Done
<1> QED
  BY <1>1, ProvisionsAreFinite, FS_Subset, FS_CardinalityType

LEMMA DoneGrows ==
  ASSUME SecretInv, NEW r \in Provisions, provision[r].step # "done",
         \A q \in Provisions : q # r => provision'[q] = provision[q]
  PROVE  Done \subseteq Done' /\ Cardinality(Done) <= Cardinality(Done')
<1>1. Done \subseteq Done'
  BY DEF Done
<1> QED
  BY <1>1, DoneIsFinite, FS_Subset

LEMMA FaultsCount ==
  ASSUME vaultFaults \in 0 .. MaxVaultFaults, VaultFails \/ UNCHANGED vaultFaults
  PROVE  vaultFaults' \in 0 .. MaxVaultFaults
  BY VaultFaultsInNat DEF VaultFails

LEMMA SecretInitType == SecretInit => SecretTypeInv
<1> SUFFICES ASSUME SecretInit PROVE SecretTypeInv
  OBVIOUS
<1>1. generated <= Cardinality(Done)
  BY DoneIsFinite DEF SecretInit
<1> QED
  BY <1>1, SecretInitInv, VaultFaultsInNat DEF SecretTypeInv, JobsOK, SecretInit

(* A request that goes on without a new secret id and adds no job. *)
LEMMA TypeOnRequest ==
  ASSUME SecretTypeInv, SecretInv', NEW r \in Provisions, provision[r].step # "done",
         \A q \in Provisions : q # r => provision'[q] = provision[q],
         UNCHANGED <<generated, destroyQueue, jobIds>>, VaultFails \/ UNCHANGED vaultFaults
  PROVE  SecretTypeInv'
<1>1. generated <= Cardinality(Done')
  BY DoneGrows, DoneIsFinite DEF SecretTypeInv, JobsOK, SecretInv, ShapeOK
<1>2. vaultFaults' \in 0 .. MaxVaultFaults
  BY FaultsCount DEF SecretTypeInv, JobsOK
<1> QED
  BY <1>1, <1>2 DEF SecretTypeInv, JobsOK, Ids

LEMMA TypeOnLookup ==
  ASSUME SecretTypeInv, SecretInv', NEW r \in Provisions, LookupSecretId(r)
  PROVE  SecretTypeInv'
<1>1. /\ provision[r].step = "lookup" /\ UNCHANGED generated
      /\ \A q \in Provisions : q # r => provision'[q] = provision[q]
      /\ VaultFails \/ UNCHANGED vaultFaults
      /\ \/ UNCHANGED <<destroyQueue, jobIds>>
         \/ \E id \in secretIds : IsGenerated(id) /\ Enqueue(id)
  BY DEF LookupSecretId, SecretTypeInv, SecretInv, ShapeOK
<1>2. CASE UNCHANGED <<destroyQueue, jobIds>>
  BY <1>1, <1>2, TypeOnRequest
<1>3. CASE \E id \in secretIds : IsGenerated(id) /\ Enqueue(id)
  <2>1. PICK id \in secretIds : Enqueue(id)
    BY <1>3
  <2>2. CASE id \in jobIds
    BY <1>1, <2>1, <2>2, TypeOnRequest DEF Enqueue
  <2>3. CASE id \notin jobIds
    <3> PICK job : job = [accessor |-> id, after |-> Underway]
      OBVIOUS
    <3>1. job.accessor = id /\ job.after \subseteq Provisions /\ id \in Ids
      BY DEF Underway, SecretTypeInv, SecretInv, ShapeOK
    <3>2. destroyQueue' = destroyQueue \cup {job} /\ jobIds' = jobIds \cup {id}
      BY <2>1, <2>3 DEF Enqueue
    <3>3. /\ \A j \in destroyQueue' : j.accessor \in jobIds' /\ j.after \subseteq Provisions
          /\ jobIds' \subseteq Ids
      BY <3>1, <3>2 DEF SecretTypeInv, JobsOK
    <3>4. \A j, k \in destroyQueue' : j.accessor = k.accessor => j = k
      BY <2>3, <3>1, <3>2 DEF SecretTypeInv, JobsOK
    <3>5. vaultFaults' \in 0 .. MaxVaultFaults
      BY <1>1, FaultsCount DEF SecretTypeInv, JobsOK
    <3>6. generated <= Cardinality(Done')
      BY <1>1, DoneGrows, DoneIsFinite DEF SecretTypeInv, JobsOK, SecretInv, ShapeOK
    <3> QED
      BY <1>1, <3>3, <3>4, <3>5, <3>6 DEF SecretTypeInv, JobsOK, Ids
  <2> QED
    BY <2>2, <2>3
<1> QED
  BY <1>1, <1>2, <1>3

LEMMA TypeOnCreate ==
  ASSUME SecretTypeInv, SecretInv', NEW r \in Provisions, CreateSecretId(r)
  PROVE  SecretTypeInv'
<1>1. /\ provision[r].step = "create" /\ UNCHANGED <<destroyQueue, jobIds>>
      /\ \A q \in Provisions : q # r => provision'[q] = provision[q]
      /\ VaultFails \/ UNCHANGED vaultFaults
      /\ \/ generated' = generated
         \/ generated' = generated + 1 /\ provision' = [provision EXCEPT ![r].step = NextStep("create")]
  BY DEF CreateSecretId, SecretTypeInv, SecretInv, ShapeOK
<1>2. CASE generated' = generated
  BY <1>1, <1>2, TypeOnRequest
<1>3. CASE generated' = generated + 1 /\ provision' = [provision EXCEPT ![r].step = NextStep("create")]
  <2>1. provision'[r].step = "done"
    BY <1>3 DEF NextStep, SecretTypeInv, SecretInv, ShapeOK
  <2>2. Done' = Done \cup {r} /\ r \notin Done
    BY <1>1, <2>1 DEF Done
  <2>3. Cardinality(Done') = Cardinality(Done) + 1
    BY <2>2, DoneIsFinite, FS_AddElement
  <2>4. generated' <= Cardinality(Done')
    BY <1>3, <2>3, DoneIsFinite DEF SecretTypeInv, JobsOK, SecretInv, ShapeOK
  <2>5. generated \in Nat /\ Ids \subseteq Ids'
    BY <1>3 DEF Ids, SecretTypeInv, SecretInv, ShapeOK
  <2>6. vaultFaults' \in 0 .. MaxVaultFaults
    BY <1>1, FaultsCount DEF SecretTypeInv, JobsOK
  <2> QED
    BY <1>1, <2>4, <2>5, <2>6 DEF SecretTypeInv, JobsOK
<1> QED
  BY <1>1, <1>2, <1>3

LEMMA TypeOnDestroy ==
  ASSUME SecretTypeInv, SecretInv', NEW j \in destroyQueue, RunDestroyJob(j)
  PROVE  SecretTypeInv'
<1>1. /\ UNCHANGED <<generated, provision>> /\ destroyQueue' = destroyQueue \ {j}
      /\ jobIds' = jobIds \ {j.accessor} /\ (VaultFails \/ UNCHANGED vaultFaults)
  BY DEF RunDestroyJob, RemovedOnComplete
<1>2. Done' = Done
  BY <1>1 DEF Done
<1>3. vaultFaults' \in 0 .. MaxVaultFaults
  BY <1>1, FaultsCount DEF SecretTypeInv, JobsOK
<1> QED
  BY <1>1, <1>2, <1>3 DEF SecretTypeInv, JobsOK, Ids

LEMMA SecretTypeStep == SecretTypeInv /\ [SecretNext]_secretVars => SecretTypeInv'
<1> SUFFICES ASSUME SecretTypeInv, [SecretNext]_secretVars PROVE SecretTypeInv'
  OBVIOUS
<1>1. SecretInv'
  BY SecretInvariance DEF SecretTypeInv
<1>2. ASSUME NEW r \in Provisions, BeginProvision(r) \/ ListSecretIds(r) PROVE SecretTypeInv'
  <2>1. /\ provision[r].step \in {"none", "list"} /\ UNCHANGED <<generated, destroyQueue, jobIds>>
        /\ \A q \in Provisions : q # r => provision'[q] = provision[q]
        /\ VaultFails \/ UNCHANGED vaultFaults
    BY <1>2 DEF BeginProvision, ListSecretIds, SecretTypeInv, SecretInv, ShapeOK
  <2> QED
    BY <1>1, <2>1, TypeOnRequest
<1>3. CASE UNCHANGED secretVars
  BY <1>1, <1>3 DEF secretVars, SecretTypeInv, JobsOK, Ids, Done
<1>4. CASE SecretNext
  BY <1>1, <1>2, <1>4, TypeOnLookup, TypeOnCreate, TypeOnDestroy DEF SecretNext, ProvisionStep
<1> QED
  BY <1>3, <1>4

LEMMA SecretIsTyped == SecretTypeInv => SecretTypeOK
<1> SUFFICES ASSUME SecretTypeInv PROVE SecretTypeOK
  OBVIOUS
<1>1. generated \in 0 .. Cardinality(Provisions)
  BY DoneIsFinite DEF SecretTypeInv, JobsOK, SecretInv, ShapeOK
<1> QED
  BY <1>1 DEF SecretTypeInv, JobsOK, SecretInv, ShapeOK, SecretTypeOK, Ids, Steps

(* Requests, jobs and secret ids are of their types: every secret id that is *)
(* accepted was handed out or is foreign, no request is handed two, and each *)
(* job is known to Redis until it has run (removeOnComplete).                 *)
THEOREM SecretTypeCorrect == SecretSpec => []SecretTypeOK
BY SecretIsTyped, SecretInitType, SecretTypeStep, PTL DEF SecretSpec

=============================================================================
