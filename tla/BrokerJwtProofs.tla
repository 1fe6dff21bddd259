-------------------------- MODULE BrokerJwtProofs --------------------------
(***************************************************************************)
(* Proofs about BrokerJwt for every set of tokens, accounts, requests and  *)
(* job runs.  The invariant says what the lists that requests and the job  *)
(* carry around are still worth when they are used: a token on its way out *)
(* of the block list is expired and has no row any more, and a token that  *)
(* was found superseded stays so.                                          *)
(***************************************************************************)
EXTENDS BrokerJwt, FiniteSetTheorems, TLAPS

\* Two newer tokens, or one that has been there for the grace period.
Fair(j) ==
    \/ Cardinality(Newer(j, issued)) >= 2
    \/ \E k \in Newer(j, issued) : claims[k].created + Grace < now

RegistryOK ==
    /\ now \in 0 .. MaxTime
    /\ accounts \in SUBSET Account
    /\ issued \in SUBSET Jti
    /\ IsFiniteSet(issued)
    /\ claims \in [Jti -> Claims]
    /\ rows \in SUBSET issued
    /\ flagged \in SUBSET rows
    /\ flagged \subseteq block
    /\ block \in SUBSET issued
    /\ crashes \in 0 .. MaxCrashes

\* What process state s may rely on, whatever happened since it read its lists.
Timely(s) ==
    /\ s.at <= now
    /\ s.todo \subseteq issued
    /\ s.seen \subseteq issued
    /\ s.pc \in {"expire", "unblock"} => \A j \in s.todo : claims[j].exp < now
    /\ s.pc = "unblock" => /\ s.current \in issued \ rows
                           /\ claims[s.current].exp < now
    /\ s.pc = "flag" => /\ s.current \in issued
                        /\ s.current \in rows => s.current \in block
    /\ s.pc \notin {"flag", "unblock"} => s.current = None
    /\ s.rotation => /\ s.pc \in {"blocking", "flag"}
                     /\ \A j \in s.todo : Fair(j)
                     /\ s.pc = "flag" => Fair(s.current)

ProcOK ==
    /\ proc \in [Proc -> ProcState]
    /\ \A p \in Proc : Timely(proc[p])

IInv == RegistryOK /\ ProcOK

\* The tokens keep their claims, tokens are only added, rows do not come
\* back, and the block list only loses what has no row and is expired.
Growing ==
    /\ now <= now'
    /\ issued \subseteq issued'
    /\ \A j \in issued : claims'[j] = claims[j]
    /\ rows' \intersect issued \subseteq rows
    /\ block \intersect rows' \subseteq block'
    /\ \A j \in block \ block' : claims[j].exp < now

-----------------------------------------------------------------------------
\* A larger group only adds newer tokens.
LEMMA NewerGrows ==
    ASSUME NEW g, NEW h, g \subseteq h, IsFiniteSet(h), NEW j
    PROVE  /\ Newer(j, g) \subseteq Newer(j, h)
           /\ Cardinality(Newer(j, g)) \in Nat
           /\ Cardinality(Newer(j, h)) \in Nat
           /\ Cardinality(Newer(j, g)) <= Cardinality(Newer(j, h))
  <1>1. Newer(j, g) \subseteq Newer(j, h) /\ Newer(j, h) \subseteq h
    BY DEF Newer
  <1>2. IsFiniteSet(Newer(j, h)) /\ IsFiniteSet(Newer(j, g))
    BY <1>1, FS_Subset
  <1>3. QED
    BY <1>1, <1>2, FS_Subset, FS_CardinalityType

\* What the job finds superseded among the rows it read is fair to block.
LEMMA SupersededIsFair ==
    ASSUME RegistryOK, NEW group \in SUBSET issued, NEW j \in issued,
           NEW t \in Nat, t <= now, Superseded(j, group, t)
    PROVE  Fair(j)
  <1>1. /\ Newer(j, group) \subseteq Newer(j, issued)
        /\ Cardinality(Newer(j, group)) \in Nat
        /\ Cardinality(Newer(j, issued)) \in Nat
        /\ Cardinality(Newer(j, group)) <= Cardinality(Newer(j, issued))
    BY NewerGrows DEF RegistryOK
  <1>2. CASE Cardinality(Newer(j, group)) >= 2
    BY <1>1, <1>2 DEF Fair
  <1>3. ASSUME NEW k \in group, Newer(j, group) = {k}, claims[k].created + Grace < t
        PROVE  Fair(j)
    <2>1. k \in Newer(j, issued) /\ claims[k].created \in Nat
      BY <1>1, <1>3 DEF RegistryOK, Claims
    <2>2. claims[k].created + Grace < now
      BY <1>3, <2>1, NumbersAreNatural DEF RegistryOK
    <2>3. QED
      BY <2>1, <2>2 DEF Fair
  <1>4. QED
    BY <1>2, <1>3 DEF Superseded

\* Once fair, always fair.
LEMMA FairStays ==
    ASSUME RegistryOK, RegistryOK', Growing, NEW j \in issued, Fair(j)
    PROVE  Fair(j)'
  <1>1. Newer(j, issued) \subseteq Newer(j, issued)' /\ Newer(j, issued) \subseteq issued
    BY DEF Newer, Growing
  <1>2. CASE Cardinality(Newer(j, issued)) >= 2
    <2>1. Newer(j, issued)' \subseteq issued'
      BY DEF Newer
    <2>2. IsFiniteSet(Newer(j, issued)')
      BY <2>1, FS_Subset DEF RegistryOK
    <2>3. /\ Cardinality(Newer(j, issued)) <= Cardinality(Newer(j, issued)')
          /\ IsFiniteSet(Newer(j, issued))
      BY <1>1, <2>2, FS_Subset
    <2>4. Cardinality(Newer(j, issued)) \in Nat /\ Cardinality(Newer(j, issued)') \in Nat
      BY <2>2, <2>3, FS_CardinalityType
    <2>5. QED
      BY <1>2, <2>3, <2>4 DEF Fair
  <1>3. ASSUME NEW k \in Newer(j, issued), claims[k].created + Grace < now
        PROVE  Fair(j)'
    <2>1. k \in Newer(j, issued)' /\ claims'[k].created = claims[k].created
      BY <1>1, <1>3 DEF Growing
    <2>2. claims[k].created \in Nat
      BY <1>1, <1>3 DEF RegistryOK, Claims
    <2>3. claims[k].created + Grace < now'
      BY <1>3, <2>2, NumbersAreNatural DEF RegistryOK, Growing
    <2>4. QED
      BY <2>1, <2>3 DEF Fair
  <1>4. QED
    BY <1>2, <1>3 DEF Fair

\* What a process relies on is not disturbed by what others do.
LEMMA TimelyStays ==
    ASSUME RegistryOK, RegistryOK', Growing, NEW s \in ProcState, Timely(s)
    PROVE  Timely(s)'
  <1>1. s.at <= now'
    BY NumbersAreNatural DEF Timely, ProcState, RegistryOK, Growing
  <1>2. s.todo \subseteq issued' /\ s.seen \subseteq issued'
    BY DEF Timely, Growing
  <1>3. ASSUME NEW j \in issued, claims[j].exp < now
        PROVE  claims'[j].exp < now'
    <2>1. claims[j].exp \in Nat /\ claims'[j] = claims[j]
      BY DEF RegistryOK, Claims, Growing
    <2>2. QED
      BY <1>3, <2>1, NumbersAreNatural DEF RegistryOK, Growing
  <1>4. s.pc \in {"expire", "unblock"} => \A j \in s.todo : claims'[j].exp < now'
    BY <1>3 DEF Timely
  <1>5. s.pc = "unblock" => s.current \in issued' \ rows' /\ claims'[s.current].exp < now'
    BY <1>3 DEF Timely, Growing
  <1>6. s.pc = "flag" => s.current \in issued' /\ (s.current \in rows' => s.current \in block')
    BY DEF Timely, Growing
  <1>7. s.rotation => /\ s.pc \in {"blocking", "flag"}
                      /\ \A j \in s.todo : Fair(j)'
    BY FairStays DEF Timely
  <1>8. s.rotation /\ s.pc = "flag" => Fair(s.current)'
    BY FairStays DEF Timely
  <1>9. QED
    BY <1>1, <1>2, <1>4, <1>5, <1>6, <1>7, <1>8 DEF Timely

-----------------------------------------------------------------------------
(* Steps.                                                                  *)

Kept == IInv' /\ Growing

\* A step of process p that leaves p with s.
LEMMA StepKeeps ==
    ASSUME IInv, NEW p \in Proc, NEW s \in ProcState, Goto(p, s),
           RegistryOK', Growing, Timely(s)'
    PROVE  Kept
  <1>1. proc' \in [Proc -> ProcState]
    BY DEF IInv, ProcOK, Goto
  <1>2. ASSUME NEW q \in Proc PROVE Timely(proc[q])'
    <2>1. CASE q = p
      <3>1. proc'[q] = s
        BY <2>1 DEF IInv, ProcOK, Goto
      <3>2. QED
        BY <3>1 DEF Timely
    <2>2. CASE q # p
      <3>1. PICK t \in ProcState : t = proc[q] /\ Timely(t)
        BY DEF IInv, ProcOK
      <3>2. proc'[q] = t
        BY <2>2, <3>1 DEF IInv, ProcOK, Goto
      <3>3. Timely(t)'
        BY <3>1, TimelyStays DEF IInv
      <3>4. QED
        BY <3>2, <3>3 DEF Timely
    <2>3. QED
      BY <2>1, <2>2
  <1>3. QED
    BY <1>1, <1>2 DEF Kept, IInv, ProcOK

\* Steps that read the registry and write nothing.
LEMMA ReadKeeps ==
    ASSUME IInv, NEW p \in Proc, NEW s \in ProcState, Goto(p, s),
           RegistryUntouched, Timely(s)
    PROVE  Kept
  <1>1. RegistryOK' /\ Growing
    BY DEF IInv, RegistryOK, RegistryUntouched, Growing
  <1>2. Timely(s)'
    BY <1>1, TimelyStays DEF IInv
  <1>3. QED
    BY <1>1, <1>2, StepKeeps

\* What the invariant says of one process.
LEMMA ProcFacts ==
    ASSUME IInv, NEW p \in Proc
    PROVE  proc[p] \in ProcState /\ Timely(proc[p]) /\ RegistryOK
  BY DEF IInv, ProcOK

\* A process that does nothing relies on nothing.
LEMMA IdleIsFine ==
    ASSUME RegistryOK
    PROVE  Idle \in ProcState /\ Timely(Idle)
  <1>1. FALSE \in BOOLEAN
    OBVIOUS
  <1>2. ASSUME NEW b \in BOOLEAN
        PROVE  [pc |-> "idle", account |-> None, via |-> None, at |-> 0, rotation |-> b,
                todo |-> {}, seen |-> {}, open |-> {}, current |-> None] \in ProcState
    BY DEF ProcState, PC
  <1>3. Idle \in ProcState
    BY <1>1, <1>2, Zenon DEF Idle
  <1>4. 0 <= now
    BY NumbersAreNatural DEF RegistryOK
  <1>5. QED
    BY <1>3, <1>4 DEF Timely, Idle

\* Steps after which p has nothing more to do, or no list to rely on.
LEMMA NoLists ==
    ASSUME IInv, NEW p \in Proc, NEW s \in ProcState, Goto(p, s), RegistryUntouched,
           s.at <= now, s.todo = {}, s.seen = {}, ~s.rotation, s.current = None,
           s.pc \in {"idle", "renew", "generate"}
    PROVE  Kept
  <1>1. Timely(s)
    BY DEF Timely
  <1>2. QED
    BY <1>1, ReadKeeps

\* A request begins to generate.
LEMMA BeginGenerateKeeps ==
    ASSUME IInv, NEW p \in Proc, NEW a \in Account, BeginGenerate(p, a)
    PROVE  Kept
  <1>1. Idle \in ProcState /\ now \in Nat /\ RegistryOK
    BY IdleIsFine, NumbersAreNatural DEF IInv, RegistryOK
  <1>2. PICK s : s = [Idle EXCEPT !.pc = "generate", !.account = a, !.at = now]
    OBVIOUS
  <1>3. s \in ProcState /\ s.at = now /\ s.pc = "generate" /\ s.todo = Idle.todo
        /\ s.seen = Idle.seen /\ s.rotation = Idle.rotation
        /\ s.current = Idle.current
    BY <1>1, <1>2 DEF ProcState, PC
  <1>4. Goto(p, s) /\ RegistryUntouched
    BY <1>2 DEF BeginGenerate
  <1>5. s.at <= now /\ s.todo = {} /\ s.seen = {} /\ ~s.rotation
        /\ s.current = None
    BY <1>1, <1>3 DEF Idle
  <1>6. QED
    BY <1>3, <1>4, <1>5, NoLists

\* A renewal begins with a token the strategy accepts.
LEMMA BeginRenewKeeps ==
    ASSUME IInv, NEW p \in Proc, NEW j \in Jti, BeginRenew(p, j)
    PROVE  Kept
  <1>1. Idle \in ProcState /\ Idle.at = 0 /\ 0 <= now
    BY IdleIsFine, NumbersAreNatural DEF IInv, RegistryOK, Idle
  <1>2. PICK s : s = [Idle EXCEPT !.pc = "renew", !.via = j]
    OBVIOUS
  <1>3. s \in ProcState /\ s.at = Idle.at /\ s.pc = "renew" /\ s.todo = Idle.todo
        /\ s.seen = Idle.seen /\ s.rotation = Idle.rotation
        /\ s.current = Idle.current
    BY <1>1, <1>2 DEF ProcState, PC
  <1>4. Goto(p, s) /\ RegistryUntouched
    BY <1>2 DEF BeginRenew
  <1>5. s.at <= now /\ s.todo = {} /\ s.seen = {} /\ ~s.rotation
        /\ s.current = None
    BY <1>1, <1>3 DEF Idle
  <1>6. QED
    BY <1>3, <1>4, <1>5, NoLists

\* The renewal goes on when its row is there and not blocked.
LEMMA CheckRenewalKeeps ==
    ASSUME IInv, NEW p \in Proc, CheckRenewal(p)
    PROVE  Kept
  <1>1. /\ proc[p] \in ProcState /\ Timely(proc[p]) /\ RegistryOK
        /\ now \in Nat /\ RegistryUntouched /\ proc[p].pc = "renew"
    BY ProcFacts, NumbersAreNatural DEF RegistryOK, CheckRenewal
  <1>2. CASE Goto(p, Idle)
    BY <1>1, <1>2, IdleIsFine, ReadKeeps
  <1>3. CASE ~Goto(p, Idle)
    <2>1. PICK s : s = [proc[p] EXCEPT !.pc = "generate", !.at = now,
                                       !.account = claims[proc[p].via].account]
      OBVIOUS
    <2>2. proc[p].via \in issued /\ Goto(p, s)
      BY <1>1, <1>3, <2>1 DEF CheckRenewal, RegistryOK
    <2>3. claims[proc[p].via].account \in Account \union {None}
      BY <1>1, <2>2 DEF RegistryOK, Claims
    <2>4. s \in ProcState /\ s.at = now /\ s.pc = "generate" /\ s.todo = proc[p].todo
          /\ s.seen = proc[p].seen /\ s.rotation = proc[p].rotation
          /\ s.current = proc[p].current
      BY <1>1, <2>1, <2>3 DEF ProcState, PC
    <2>5. Timely(s)
      BY <1>1, <2>4 DEF Timely
    <2>6. QED
      BY <1>1, <2>2, <2>4, <2>5, ReadKeeps
  <1>4. QED
    BY <1>2, <1>3

\* A new token gets its row; no row of an earlier token comes back.
LEMMA RegisterJwtKeeps ==
    ASSUME IInv, NEW p \in Proc, NEW j \in Jti, NEW ttl \in Ttl, RegisterJwt(p, j, ttl)
    PROVE  Kept
  <1>1. /\ proc[p] \in ProcState /\ RegistryOK /\ now \in Nat /\ ttl \in Nat
        /\ proc[p].at + ttl \in Nat
    BY ProcFacts, NumbersAreNatural DEF RegistryOK, ProcState
  <1>2. j \notin issued /\ issued' = issued \union {j} /\ rows' = rows \union {j}
        /\ Goto(p, Idle) /\ UNCHANGED <<now, accounts, flagged, block, crashes>>
    BY DEF RegisterJwt, Fresh
  <1>3. PICK c : c = [account |-> proc[p].account, exp |-> proc[p].at + ttl,
                      created |-> now, order |-> Cardinality(issued) + 1]
    OBVIOUS
  <1>4. Cardinality(issued) \in Nat /\ IsFiniteSet(issued')
    BY <1>1, <1>2, FS_CardinalityType, FS_AddElement DEF RegistryOK
  <1>5. c \in Claims
    BY <1>1, <1>3, <1>4 DEF Claims, ProcState
  <1>6. claims' = [claims EXCEPT ![j] = c]
    BY <1>3 DEF RegisterJwt
  <1>7. RegistryOK'
    BY <1>1, <1>2, <1>4, <1>5, <1>6 DEF RegistryOK
  <1>8. Growing
    BY <1>1, <1>2, <1>6 DEF RegistryOK, Growing
  <1>9. PICK s : s = Idle
    OBVIOUS
  <1>10. s \in ProcState /\ Timely(s)
    BY <1>1, <1>9, IdleIsFine
  <1>11. Timely(s)'
    BY <1>1, <1>7, <1>8, <1>10, TimelyStays
  <1>12. QED
    BY <1>2, <1>7, <1>8, <1>9, <1>10, <1>11, StepKeeps

\* A revocation reads the rows of the account.
LEMMA BeginRevokeKeeps ==
    ASSUME IInv, NEW p \in Proc, NEW a \in Account, BeginRevoke(p, a)
    PROVE  Kept
  <1>1. Idle \in ProcState /\ Timely(Idle) /\ RegistryOK
    BY IdleIsFine DEF IInv
  <1>2. PICK s : s = [Idle EXCEPT !.pc = "blocking", !.todo = RowsOf(a) \ flagged]
    OBVIOUS
  <1>3. RowsOf(a) \ flagged \in SUBSET issued /\ issued \in SUBSET Jti
    BY <1>1 DEF RowsOf, RegistryOK
  <1>4. s \in ProcState /\ s.at = Idle.at /\ s.pc = "blocking" /\ s.todo \subseteq issued
        /\ s.seen = Idle.seen /\ s.rotation = Idle.rotation /\ s.current = Idle.current
    BY <1>1, <1>2, <1>3 DEF ProcState, PC
  <1>5. ~s.rotation /\ s.current = None
    BY <1>4 DEF Idle
  <1>6. Timely(s)
    BY <1>1, <1>4, <1>5 DEF Timely
  <1>7. Goto(p, s) /\ RegistryUntouched
    BY <1>2 DEF BeginRevoke
  <1>8. QED
    BY <1>4, <1>6, <1>7, ReadKeeps

\* The block list grows by a token of the list.
LEMMA BlockRowKeeps ==
    ASSUME IInv, NEW p \in Proc, NEW j \in Jti, BlockRow(p, j)
    PROVE  Kept
  <1>1. /\ proc[p] \in ProcState /\ Timely(proc[p]) /\ RegistryOK
        /\ proc[p].pc = "blocking" /\ j \in proc[p].todo /\ block' = block \union {j}
        /\ UNCHANGED <<now, accounts, issued, claims, rows, flagged, crashes>>
    BY ProcFacts DEF BlockRow, Blocked
  <1>2. PICK s : s = [proc[p] EXCEPT !.pc = "flag", !.todo = @ \ {j}, !.current = j]
    OBVIOUS
  <1>3. s \in ProcState /\ s.at = proc[p].at /\ s.pc = "flag" /\ s.todo \subseteq proc[p].todo
        /\ s.seen = proc[p].seen /\ s.rotation = proc[p].rotation /\ s.current = j
    BY <1>1, <1>2 DEF ProcState, PC
  <1>4. RegistryOK' /\ Growing
    BY <1>1, NumbersAreNatural DEF RegistryOK, Growing, Timely
  <1>5. PICK t : t = proc[p]
    OBVIOUS
  <1>6. Timely(t)'
    BY <1>1, <1>4, <1>5, TimelyStays
  <1>7. t.rotation => Fair(j)'
    BY <1>1, <1>5, <1>6 DEF Timely
  <1>8. Timely(s)'
    BY <1>1, <1>3, <1>5, <1>6, <1>7 DEF Timely
  <1>9. Goto(p, s)
    BY <1>2 DEF BlockRow
  <1>10. QED
    BY <1>3, <1>4, <1>8, <1>9, StepKeeps

\* The flag follows, if the row is still there: it is in the block list then.
LEMMA FlagRowKeeps ==
    ASSUME IInv, NEW p \in Proc, FlagRow(p)
    PROVE  Kept
  <1>1. /\ proc[p] \in ProcState /\ Timely(proc[p]) /\ RegistryOK
        /\ proc[p].pc = "flag" /\ flagged' = Flagged(proc[p].current)
        /\ UNCHANGED <<now, accounts, issued, claims, rows, block, crashes>>
    BY ProcFacts DEF FlagRow
  <1>2. PICK s : s = [proc[p] EXCEPT !.pc = "blocking", !.current = None]
    OBVIOUS
  <1>3. s \in ProcState /\ s.at = proc[p].at /\ s.pc = "blocking" /\ s.todo = proc[p].todo
        /\ s.seen = proc[p].seen /\ s.rotation = proc[p].rotation /\ s.current = None
    BY <1>1, <1>2 DEF ProcState, PC
  <1>4. flagged' \subseteq rows /\ flagged' \subseteq block
    BY <1>1 DEF Flagged, RegistryOK, Timely
  <1>5. RegistryOK' /\ Growing
    BY <1>1, <1>4, NumbersAreNatural DEF RegistryOK, Growing
  <1>6. Timely(s)
    BY <1>1, <1>3 DEF Timely
  <1>7. Timely(s)'
    BY <1>1, <1>3, <1>5, <1>6, TimelyStays
  <1>8. Goto(p, s)
    BY <1>2 DEF FlagRow
  <1>9. QED
    BY <1>3, <1>5, <1>7, <1>8, StepKeeps

\* The list is empty: a revocation is over, the job goes to the next account.
LEMMA BlockingDoneKeeps ==
    ASSUME IInv, NEW p \in Proc, BlockingDone(p)
    PROVE  Kept
  <1>1. /\ proc[p] \in ProcState /\ Timely(proc[p]) /\ RegistryOK
        /\ proc[p].pc = "blocking" /\ RegistryUntouched
    BY ProcFacts DEF BlockingDone
  <1>2. PICK s : s = [proc[p] EXCEPT !.pc = "group", !.rotation = FALSE]
    OBVIOUS
  <1>3. s \in ProcState
    <2>1. FALSE \in BOOLEAN
      OBVIOUS
    <2>2. ASSUME NEW b \in BOOLEAN
          PROVE  [proc[p] EXCEPT !.pc = "group", !.rotation = b] \in ProcState
      BY <1>1 DEF ProcState, PC
    <2>3. QED
      BY <1>2, <2>1, <2>2, Zenon
  <1>4. s.at = proc[p].at /\ s.pc = "group" /\ s.todo = proc[p].todo
        /\ s.seen = proc[p].seen /\ ~s.rotation /\ s.current = proc[p].current
    BY <1>1, <1>2 DEF ProcState
  <1>5. Timely(s)
    BY <1>1, <1>4 DEF Timely
  <1>6. Goto(p, Idle) \/ Goto(p, s)
    BY <1>2 DEF BlockingDone
  <1>7. QED
    BY <1>1, <1>3, <1>5, <1>6, IdleIsFine, ReadKeeps

\* The job begins with the rows that are expired by now.
LEMMA BeginLifecycleKeeps ==
    ASSUME IInv, NEW p \in Proc, BeginLifecycle(p)
    PROVE  Kept
  <1>1. Idle \in ProcState /\ now \in Nat /\ RegistryOK
    BY IdleIsFine, NumbersAreNatural DEF IInv, RegistryOK
  <1>2. PICK s : s = [Idle EXCEPT !.pc = "expire", !.at = now, !.todo = Expired(now)]
    OBVIOUS
  <1>3. Expired(now) \in SUBSET issued /\ issued \in SUBSET Jti
        /\ \A j \in Expired(now) : claims[j].exp < now
    BY <1>1 DEF Expired, RegistryOK
  <1>4. s \in ProcState /\ s.at = now /\ s.pc = "expire" /\ s.todo = Expired(now)
        /\ s.seen = Idle.seen /\ s.rotation = Idle.rotation
        /\ s.current = Idle.current
    BY <1>1, <1>2, <1>3 DEF ProcState, PC
  <1>5. s.seen = {} /\ ~s.rotation /\ s.current = None
    BY <1>4 DEF Idle
  <1>6. Timely(s)
    BY <1>1, <1>3, <1>4, <1>5 DEF Timely
  <1>7. Goto(p, s) /\ RegistryUntouched
    BY <1>2 DEF BeginLifecycle
  <1>8. QED
    BY <1>4, <1>6, <1>7, ReadKeeps

\* The row of an expired token goes first...
LEMMA DeleteRowKeeps ==
    ASSUME IInv, NEW p \in Proc, NEW j \in Jti, DeleteRow(p, j)
    PROVE  Kept
  <1>1. /\ proc[p] \in ProcState /\ Timely(proc[p]) /\ RegistryOK
        /\ proc[p].pc = "expire" /\ j \in proc[p].todo
        /\ rows' = rows \ {j} /\ flagged' = flagged \ {j}
        /\ UNCHANGED <<now, accounts, issued, claims, block, crashes>>
    BY ProcFacts DEF DeleteRow
  <1>2. PICK s : s = [proc[p] EXCEPT !.pc = "unblock", !.todo = @ \ {j}, !.current = j]
    OBVIOUS
  <1>3. s \in ProcState /\ s.at = proc[p].at /\ s.pc = "unblock"
        /\ s.todo \subseteq proc[p].todo /\ s.seen = proc[p].seen
        /\ s.rotation = proc[p].rotation /\ s.current = j
    BY <1>1, <1>2 DEF ProcState, PC
  <1>4. RegistryOK' /\ Growing
    BY <1>1, NumbersAreNatural DEF RegistryOK, Growing
  <1>5. Timely(s)'
    BY <1>1, <1>3 DEF Timely
  <1>6. Goto(p, s)
    BY <1>2 DEF DeleteRow
  <1>7. QED
    BY <1>3, <1>4, <1>5, <1>6, StepKeeps

\* ... then what the block list says of it.
LEMMA DeleteBlockKeeps ==
    ASSUME IInv, NEW p \in Proc, DeleteBlock(p)
    PROVE  Kept
  <1>1. /\ proc[p] \in ProcState /\ Timely(proc[p]) /\ RegistryOK
        /\ proc[p].pc = "unblock" /\ block' = block \ {proc[p].current}
        /\ UNCHANGED <<now, accounts, issued, claims, rows, flagged, crashes>>
    BY ProcFacts DEF DeleteBlock
  <1>2. PICK s : s = [proc[p] EXCEPT !.pc = "expire", !.current = None]
    OBVIOUS
  <1>3. s \in ProcState /\ s.at = proc[p].at /\ s.pc = "expire" /\ s.todo = proc[p].todo
        /\ s.seen = proc[p].seen /\ s.rotation = proc[p].rotation
        /\ s.current = None
    BY <1>1, <1>2 DEF ProcState, PC
  <1>4. proc[p].current \notin rows /\ claims[proc[p].current].exp < now
    BY <1>1 DEF Timely
  <1>5. RegistryOK' /\ Growing
    BY <1>1, <1>4, NumbersAreNatural DEF RegistryOK, Growing
  <1>6. Timely(s)
    BY <1>1, <1>3 DEF Timely
  <1>7. Timely(s)'
    BY <1>1, <1>3, <1>5, <1>6, TimelyStays
  <1>8. Goto(p, s)
    BY <1>2 DEF DeleteBlock
  <1>9. QED
    BY <1>3, <1>5, <1>7, <1>8, StepKeeps

\* The rows are read at once.
LEMMA GroupRegistryKeeps ==
    ASSUME IInv, NEW p \in Proc, GroupRegistry(p)
    PROVE  Kept
  <1>1. /\ proc[p] \in ProcState /\ Timely(proc[p]) /\ RegistryOK
        /\ proc[p].pc = "expire" /\ RegistryUntouched
    BY ProcFacts DEF GroupRegistry
  <1>2. PICK s : s = [proc[p] EXCEPT !.pc = "group", !.seen = rows, !.open = rows \ flagged]
    OBVIOUS
  <1>3. rows \subseteq issued /\ issued \subseteq Jti
    BY <1>1 DEF RegistryOK
  <1>4. s \in ProcState /\ s.at = proc[p].at /\ s.pc = "group" /\ s.todo = proc[p].todo
        /\ s.seen = rows /\ s.rotation = proc[p].rotation
        /\ s.current = proc[p].current
    BY <1>1, <1>2, <1>3 DEF ProcState, PC
  <1>5. Timely(s)
    BY <1>1, <1>3, <1>4 DEF Timely
  <1>6. Goto(p, s)
    BY <1>2 DEF GroupRegistry
  <1>7. QED
    BY <1>1, <1>4, <1>5, <1>6, ReadKeeps

\* What the job decides to block is fair to block.
LEMMA TakeAccountKeeps ==
    ASSUME IInv, NEW p \in Proc, NEW a \in Account, TakeAccount(p, a)
    PROVE  Kept
  <1>1. /\ proc[p] \in ProcState /\ Timely(proc[p]) /\ RegistryOK
        /\ proc[p].pc = "group" /\ RegistryUntouched
    BY ProcFacts DEF TakeAccount
  <1>2. PICK mine : mine = {j \in proc[p].seen : claims[j].account = a}
    OBVIOUS
  <1>3. PICK open : open = mine \intersect proc[p].open
    OBVIOUS
  <1>4. PICK todo : todo = IF a \in accounts
                           THEN {j \in open : Superseded(j, mine, proc[p].at)}
                           ELSE open
    OBVIOUS
  <1>5. PICK s : s = [proc[p] EXCEPT
                        !.pc = "blocking", !.seen = @ \ mine, !.open = @ \ mine,
                        !.rotation = a \in accounts, !.todo = todo]
    OBVIOUS
  <1>6. Goto(p, s)
    BY <1>2, <1>3, <1>4, <1>5 DEF TakeAccount
  <1>7. mine \in SUBSET issued /\ todo \in SUBSET issued /\ issued \in SUBSET Jti
    BY <1>1, <1>2, <1>3, <1>4 DEF Timely, RegistryOK
  <1>8. s \in ProcState
    <2>1. (a \in accounts) \in BOOLEAN
      OBVIOUS
    <2>2. ASSUME NEW b \in BOOLEAN
          PROVE  [proc[p] EXCEPT
                        !.pc = "blocking", !.seen = @ \ mine, !.open = @ \ mine,
                        !.rotation = b, !.todo = todo] \in ProcState
      BY <1>1, <1>7 DEF ProcState, PC
    <2>3. QED
      BY <1>5, <2>1, <2>2, Zenon
  <1>9. s.at = proc[p].at /\ s.pc = "blocking" /\ s.todo = todo
        /\ s.seen \subseteq proc[p].seen /\ (s.rotation <=> a \in accounts)
        /\ s.current = proc[p].current
    BY <1>1, <1>5 DEF ProcState
  <1>10. ASSUME a \in accounts, NEW j \in todo
         PROVE  Fair(j)
    <2>1. Superseded(j, mine, proc[p].at) /\ j \in issued
      BY <1>4, <1>7, <1>10
    <2>2. proc[p].at \in Nat /\ proc[p].at <= now
      BY <1>1 DEF ProcState, Timely
    <2>3. QED
      BY <1>1, <1>7, <2>1, <2>2, SupersededIsFair
  <1>11. Timely(s)
    BY <1>1, <1>7, <1>9, <1>10 DEF Timely
  <1>12. QED
    BY <1>1, <1>6, <1>8, <1>11, ReadKeeps

\* The run of the job is over, or whoever was at work dies.
LEMMA StoppingKeeps ==
    ASSUME IInv, NEW p \in Proc, LifecycleDone(p) \/ Crash(p)
    PROVE  Kept
  <1>1. PICK s : s = Idle
    OBVIOUS
  <1>2. s \in ProcState /\ Timely(s) /\ Goto(p, s)
    BY <1>1, IdleIsFine DEF IInv, LifecycleDone, Crash
  <1>3. RegistryOK' /\ Growing
    BY NumbersAreNatural DEF IInv, RegistryOK, Growing, LifecycleDone, Crash, RegistryUntouched
  <1>4. Timely(s)'
    BY <1>2, <1>3, TimelyStays DEF IInv
  <1>5. QED
    BY <1>2, <1>3, <1>4, StepKeeps

\* The clock, and accounts that are deleted.
LEMMA EnvironmentKeeps ==
    ASSUME IInv, Tick \/ \E a \in Account : DeleteAccount(a)
    PROVE  Kept
  <1>1. UNCHANGED <<issued, claims, rows, flagged, block, proc, crashes>>
    BY DEF Tick, DeleteAccount
  <1>2. RegistryOK' /\ Growing
    BY <1>1, NumbersAreNatural DEF IInv, RegistryOK, Growing, Tick, DeleteAccount
  <1>3. ASSUME NEW q \in Proc PROVE Timely(proc[q])'
    <2>1. PICK t \in ProcState : t = proc[q] /\ Timely(t)
      BY DEF IInv, ProcOK
    <2>2. Timely(t)'
      BY <1>2, <2>1, TimelyStays DEF IInv
    <2>3. QED
      BY <1>1, <2>1, <2>2 DEF Timely
  <1>4. QED
    BY <1>1, <1>2, <1>3 DEF Kept, IInv, ProcOK

\* Every step keeps the invariant and what the lists rely on.
LEMMA NextKeeps == IInv /\ [Next]_vars => Kept
  <1> SUFFICES ASSUME IInv, [Next]_vars PROVE Kept
    OBVIOUS
  <1>1. CASE Tick \/ \E a \in Account : DeleteAccount(a)
    BY <1>1, EnvironmentKeeps
  <1>2. ASSUME NEW p \in Proc, Step(p)
        PROVE  Kept
    <2>1. CASE BeginRequest(p)
      BY <2>1, BeginGenerateKeeps, BeginRevokeKeeps, BeginRenewKeeps DEF BeginRequest
    <2>2. CASE BeginJob(p)
      BY <2>2, BeginLifecycleKeeps DEF BeginJob
    <2>3. CASE Continue(p)
      <3>1. CASE CheckRenewal(p) \/ FlagRow(p) \/ BlockingDone(p) \/ LifecycleDone(p)
        BY <3>1, CheckRenewalKeeps, FlagRowKeeps, BlockingDoneKeeps, StoppingKeeps
      <3>2. CASE \E j \in Jti : BlockRow(p, j) \/ DeleteRow(p, j)
        BY <3>2, BlockRowKeeps, DeleteRowKeeps
      <3>3. CASE \E j \in Jti, ttl \in Ttl : RegisterJwt(p, j, ttl)
        BY <3>3, RegisterJwtKeeps
      <3>4. CASE DeleteBlock(p) \/ GroupRegistry(p)
        BY <3>4, DeleteBlockKeeps, GroupRegistryKeeps
      <3>5. CASE \E a \in Account : TakeAccount(p, a)
        BY <3>5, TakeAccountKeeps
      <3>6. QED
        BY <2>3, <3>1, <3>2, <3>3, <3>4, <3>5 DEF Continue
    <2>4. CASE Crash(p)
      BY <2>4, StoppingKeeps
    <2>5. QED
      BY <1>2, <2>1, <2>2, <2>3, <2>4 DEF Step
  <1>3. CASE UNCHANGED vars
    <2>1. UNCHANGED <<now, accounts, issued, claims, rows, flagged, block, proc, crashes>>
      BY <1>3 DEF vars
    <2>2. RegistryOK' /\ Growing
      BY <2>1, NumbersAreNatural DEF IInv, RegistryOK, Growing
    <2>3. ASSUME NEW q \in Proc PROVE Timely(proc[q])'
      <3>1. PICK t \in ProcState : t = proc[q] /\ Timely(t)
        BY DEF IInv, ProcOK
      <3>2. Timely(t)'
        BY <2>2, <3>1, TimelyStays DEF IInv
      <3>3. QED
        BY <2>1, <3>1, <3>2 DEF Timely
    <2>4. QED
      BY <2>1, <2>2, <2>3 DEF Kept, IInv, ProcOK
  <1>4. QED
    BY <1>1, <1>2, <1>3 DEF Next

\* No token was handed out yet.
LEMMA InitIInv == Init => IInv
  <1> SUFFICES ASSUME Init PROVE IInv
    OBVIOUS
  <1>1. RegistryOK
    BY NumbersAreNatural, FS_EmptySet DEF Init, RegistryOK, NoClaims, Claims
  <1>2. ProcOK
    BY <1>1, IdleIsFine DEF Init, ProcOK
  <1>3. QED
    BY <1>1, <1>2 DEF IInv

-----------------------------------------------------------------------------
(* Every reachable state satisfies the inductive invariant.                 *)
THEOREM Invariance == Spec => []IInv
  <1>1. IInv /\ [Next]_vars => IInv'
    BY NextKeeps DEF Kept
  <1>2. QED
    BY InitIInv, <1>1, PTL DEF Spec

(* Registry, block list and locals keep their shape.                        *)
THEOREM TypeCorrectness == Spec => []TypeOK
  <1>1. IInv => TypeOK
    BY DEF IInv, RegistryOK, ProcOK, TypeOK
  <1>2. QED
    BY Invariance, <1>1, PTL

(* A row that says blocked is in the block list the guard reads, whoever    *)
(* dies between the two writes, whatever the job deletes meanwhile.         *)
THEOREM FlagFollowsBlock == Spec => []FlaggedIsBlocked
  <1>1. IInv => FlaggedIsBlocked
    BY DEF IInv, RegistryOK, FlaggedIsBlocked
  <1>2. QED
    BY Invariance, <1>1, PTL

(* No token that was refused, blocked or expired, is accepted again.        *)
THEOREM RefusalIsFinal == Spec => RefusedForGood
  <1>1. IInv /\ [Next]_vars =>
          [\A j \in Jti : j \in issued /\ ~Usable(j) => ~Usable(j)']_vars
    <2> SUFFICES ASSUME IInv, Kept, NEW j \in Jti, j \in issued, ~Usable(j)
                 PROVE  ~Usable(j)'
      BY NextKeeps
    <2>1. /\ now \in Nat /\ now' \in Nat /\ now <= now'
          /\ claims[j].exp \in Nat /\ claims'[j] = claims[j]
      BY NumbersAreNatural DEF IInv, RegistryOK, Claims, Kept, Growing
    <2>2. CASE ~(now < claims[j].exp)
      BY <2>1, <2>2 DEF Usable
    <2>3. CASE j \in block
      <3>1. CASE j \in block'
        BY <3>1 DEF Usable
      <3>2. CASE j \notin block'
        BY <2>1, <2>3, <3>2 DEF Usable, Kept, Growing
      <3>3. QED
        BY <3>1, <3>2
    <2>4. QED
      BY <2>2, <2>3 DEF Usable
  <1>2. QED
    BY Invariance, <1>1, PTL DEF Spec, RefusedForGood

(* The job blocks a token of a living account only when two newer ones were *)
(* registered or one has been there for the grace period.                   *)
THEOREM FairRotation == Spec => RotationIsFair
  <1>1. IInv /\ [Next]_vars =>
          [\A w \in Worker, j \in Jti :
             /\ j \in block' \ block
             /\ proc[w].rotation /\ proc'[w].current = j
             => \/ Cardinality(Newer(j, issued)) >= 2
                \/ \E k \in Newer(j, issued) : claims[k].created + Grace < now]_vars
    <2> SUFFICES ASSUME IInv, Next, NEW w \in Worker, NEW j \in Jti,
                        j \in block' \ block, proc[w].rotation, proc'[w].current = j
                 PROVE  Fair(j)
      BY DEF Fair, vars
    <2>1. w \in Proc /\ Timely(proc[w]) /\ proc \in [Proc -> ProcState]
      BY DEF Proc, IInv, ProcOK
    <2>2. PICK p \in Proc, i \in Jti : BlockRow(p, i)
      BY DEF Next, Step, BeginRequest, BeginJob, Continue, Tick, DeleteAccount,
             BeginGenerate, BeginRenew, BeginRevoke, BeginLifecycle, CheckRenewal,
             RegisterJwt, FlagRow, BlockingDone, DeleteRow, DeleteBlock, GroupRegistry,
             TakeAccount, LifecycleDone, Crash, RegistryUntouched
    <2>3. /\ i = j /\ i \in proc[p].todo
          /\ Goto(p, [proc[p] EXCEPT !.pc = "flag", !.todo = @ \ {i}, !.current = i])
      BY <2>2 DEF BlockRow, Blocked
    <2>4. CASE w = p
      BY <2>1, <2>3, <2>4 DEF Timely
    <2>5. CASE w # p
      <3>1. proc[w].current = j
        BY <2>1, <2>3, <2>5 DEF Goto
      <3>2. QED
        BY <2>1, <3>1, NoneIsNeither DEF Timely
    <2>6. QED
      BY <2>4, <2>5
  <1>2. QED
    BY Invariance, <1>1, PTL DEF Spec, RotationIsFair

=============================================================================
