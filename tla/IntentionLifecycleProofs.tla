---------------------- MODULE IntentionLifecycleProofs ----------------------
(***************************************************************************)
(* Proofs about IntentionLifecycle for every set of actions, requests, job *)
(* runs and Vault tokens.                                                  *)
(*                                                                         *)
(* None of the properties is inductive as it stands.  What makes them so   *)
(* is what each process holds in memory: no copy of the document is ever   *)
(* dirty in "closed" between two steps, an outcome that is dirty is a real *)
(* one, and a copy that shows an outcome either still has to write it or   *)
(* has it from the stored document.                                        *)
(***************************************************************************)
EXTENDS IntentionLifecycle, TLAPS

Finalizer == {"revoke", "revoking", "builds", "sync", "close"}

\* The copy of a process, against the stored document d.
Copied(s, d) ==
    /\ s \in ProcState
    /\ "closed" \notin s.dirty
    /\ "outcome" \in s.dirty => s.copy.outcome # "none"
    /\ s.copy.outcome # "none" => "outcome" \in s.dirty \/ d.outcome # "none"

\* What a process has done by the time it is where it is.
Staged(s) ==
    /\ s.pc \in Finalizer => s.outcome # "none"
    /\ s.pc \in {"sync", "close"} => s.copy.outcome # "none"
    /\ s.pc = "idle" => s = Idle

StoreOK ==
    /\ present \in {"absent", "stored", "removed"}
    /\ age \in {"live", "expired", "aged"}
    /\ tokens \in [Token -> TokenFate]
    /\ accessors \in SUBSET Token
    /\ synced \in BOOLEAN
    /\ crashes \in 0 .. MaxCrashes

DocOK ==
    /\ doc \in Doc
    /\ doc.closed => doc.outcome # "none"
    /\ present = "absent" => ~doc.closed
    /\ present = "removed" => doc.closed

ProcOK ==
    /\ proc \in [Proc -> ProcState]
    /\ \A p \in Proc : Copied(proc[p], doc) /\ Staged(proc[p])
    /\ present = "absent" => \A p \in Proc : proc[p].pc = "idle"

IInv == StoreOK /\ DocOK /\ ProcOK

-----------------------------------------------------------------------------
(* The operators the actions are built from.                               *)

\* A document as open() stores it has the shape of one.
LEMMA NewDocType ==
    ASSUME NEW violating
    PROVE  /\ NewDoc(violating) \in Doc
           /\ NewDoc(violating).closed <=> violating # {}
           /\ NewDoc(violating).outcome = IF violating = {} THEN "none" ELSE "rejected"
  BY DEF NewDoc, NewAction, Doc, ActionState, Lifecycle, Verdict

\* A process that does nothing holds a copy of no consequence.
LEMMA IdleIsFine ==
    ASSUME NEW d
    PROVE  Copied(Idle, d) /\ Staged(Idle) /\ Idle.pc = "idle"
  <1>1. Idle \in ProcState
    BY NewDocType DEF Idle, ProcState, PC, Verdict
  <1>2. Idle.copy.outcome = "none" /\ Idle.dirty = {} /\ Idle.pc = "idle"
    BY NewDocType DEF Idle
  <1>3. QED
    BY <1>1, <1>2 DEF Copied, Staged, Finalizer

\* A flush of a copy keeps the shape of the document, its closed flag, and
\* an outcome that is there.
LEMMA MergeKeeps ==
    ASSUME NEW d \in Doc, NEW s, Copied(s, d)
    PROVE  LET m == Merge(s.copy, s.dirty, d) IN
           /\ m \in Doc
           /\ m.closed = d.closed
           /\ d.outcome # "none" => m.outcome # "none"
           /\ s.copy.outcome # "none" => m.outcome # "none"
           /\ m.outcome # "none" => "outcome" \in s.dirty \/ d.outcome # "none"
  <1>1. s.copy \in Doc
    BY DEF Copied, ProcState
  <1>2. QED
    BY <1>1 DEF Merge, Doc, Copied

\* A copy that was just loaded agrees with the document.
LEMMA LoadedCopied ==
    ASSUME NEW pc \in PC, doc \in Doc
    PROVE  LET s == Loaded(pc) IN
           /\ Copied(s, doc)
           /\ s.pc = pc /\ s.copy = doc /\ s.dirty = {} /\ s.outcome = "none"
  <1>1. /\ Loaded(pc).pc = pc /\ Loaded(pc).copy = doc
        /\ Loaded(pc).dirty = {} /\ Loaded(pc).outcome = "none"
    BY DEF Loaded, Idle
  <1>2. Loaded(pc) \in ProcState
    BY DEF Loaded, Idle, ProcState, Verdict
  <1>3. QED
    BY <1>1, <1>2 DEF Copied

\* Changing the actions of a copy changes nothing else.
LEMMA WithActionsCopied ==
    ASSUME NEW d, NEW s, Copied(s, d), NEW actions \in [Action -> ActionState]
    PROVE  LET n == WithActions(s, actions) IN
           /\ Copied(n, d)
           /\ n.pc = s.pc /\ n.outcome = s.outcome
           /\ n.copy.outcome = s.copy.outcome
           /\ n.copy.closed = s.copy.closed
           /\ n.todo = s.todo
  <1>1. s \in ProcState /\ s.copy \in Doc
    BY DEF Copied, ProcState
  <1>2. WithActions(s, actions) \in ProcState
    BY <1>1 DEF WithActions, ProcState, Doc, Field
  <1>3. /\ WithActions(s, actions).pc = s.pc
        /\ WithActions(s, actions).outcome = s.outcome
        /\ WithActions(s, actions).todo = s.todo
        /\ WithActions(s, actions).copy.outcome = s.copy.outcome
        /\ WithActions(s, actions).copy.closed = s.copy.closed
        /\ "closed" \in WithActions(s, actions).dirty <=> "closed" \in s.dirty
        /\ "outcome" \in WithActions(s, actions).dirty <=> "outcome" \in s.dirty
    BY <1>1 DEF WithActions, ProcState, Doc
  <1>4. QED
    BY <1>2, <1>3 DEF Copied

\* A document's actions stay a function on the actions, whatever one becomes.
LEMMA EndedType ==
    ASSUME NEW actions \in [Action -> ActionState], NEW o \in Verdict
    PROVE  /\ Ending(actions, o) \in [Action -> ActionState]
           /\ \A a \in Action : Ended(actions[a], o) \in ActionState
  BY DEF Ending, Ended, ActionState, Lifecycle

\* What a finalizer starts from: its outcome, and its copy as it was.
LEMMA FinalizingCopied ==
    ASSUME NEW d, NEW s, Copied(s, d), NEW o \in Verdict
    PROVE  LET n == Finalizing(s, o) IN
           Copied(n, d) /\ n.pc = "revoke" /\ n.outcome = o
  <1> DEFINE t == [s EXCEPT !.pc = "revoke", !.outcome = o]
  <1>1. s \in ProcState /\ s.copy.actions \in [Action -> ActionState]
    BY DEF Copied, ProcState, Doc
  <1>2. t \in ProcState /\ t.copy = s.copy /\ t.dirty = s.dirty
        /\ t.pc = "revoke" /\ t.outcome = o
    BY <1>1 DEF ProcState, PC
  <1>3. Copied(t, d)
    BY <1>2 DEF Copied
  <1>4. Ending(s.copy.actions, o) \in [Action -> ActionState]
    BY <1>1, EndedType
  <1>5. Finalizing(s, o) = WithActions(t, Ending(s.copy.actions, o))
    BY DEF Finalizing
  <1> HIDE DEF t
  <1>6. QED
    BY <1>2, <1>3, <1>4, <1>5, WithActionsCopied

\* Once settled, the copy shows the outcome, and still has to write it unless
\* the document has one.
LEMMA SettledCopied ==
    ASSUME NEW d, NEW s, Copied(s, d), s.outcome # "none"
    PROVE  LET n == Settled(s) IN
           /\ Copied(n, d)
           /\ n.pc = s.pc /\ n.outcome = s.outcome
           /\ n.copy.outcome # "none"
  <1>1. s \in ProcState /\ s.copy \in Doc
    BY DEF Copied, ProcState
  <1>2. Settled(s) \in ProcState
    BY <1>1 DEF Settled, ProcState, Doc, Field
  <1>3. /\ Settled(s).pc = s.pc /\ Settled(s).outcome = s.outcome
        /\ Settled(s).copy.outcome = s.outcome
        /\ "closed" \in Settled(s).dirty <=> "closed" \in s.dirty
        /\ "outcome" \in Settled(s).dirty
              <=> "outcome" \in s.dirty \/ s.copy.outcome # s.outcome
    BY <1>1 DEF Settled, ProcState, Doc
  <1>4. QED
    BY <1>2, <1>3 DEF Copied

\* The last write of a finalizer: closed, with an outcome.
LEMMA MarkedClosedMerge ==
    ASSUME NEW d \in Doc, NEW s, Copied(s, d), s.copy.outcome # "none"
    PROVE  LET n == MarkedClosed(s)
               m == Merge(n.copy, n.dirty, d) IN
           m \in Doc /\ m.closed /\ m.outcome # "none"
  <1>1. s \in ProcState /\ s.copy \in Doc
    BY DEF Copied, ProcState
  <1>2. /\ MarkedClosed(s).copy \in Doc
        /\ MarkedClosed(s).copy.closed = TRUE
        /\ MarkedClosed(s).copy.outcome = s.copy.outcome
        /\ "closed" \in MarkedClosed(s).dirty
        /\ "outcome" \in MarkedClosed(s).dirty <=> "outcome" \in s.dirty
    BY <1>1 DEF MarkedClosed, ProcState, Doc
  <1>3. QED
    BY <1>2 DEF Merge, Doc, Copied

-----------------------------------------------------------------------------
(* Steps.                                                                  *)

\* What every step guarantees: the invariant, and that closed stays closed.
Kept == IInv' /\ (doc.closed => doc'.closed)

\* A step of process p that leaves p sound with respect to the new document.
LEMMA StepKeeps ==
    ASSUME IInv, NEW p \in Proc, NEW s, Goto(p, s),
           Copied(s, doc'), Staged(s),
           StoreOK', present' = present, present # "absent",
           doc' \in Doc,
           doc'.closed => doc'.outcome # "none",
           doc.closed => doc'.closed,
           doc.outcome # "none" => doc'.outcome # "none"
    PROVE  Kept
  <1>1. DocOK'
    BY DEF IInv, DocOK
  <1>2. proc' \in [Proc -> ProcState]
    BY DEF IInv, ProcOK, Goto, Copied
  <1>3. ASSUME NEW q \in Proc PROVE Copied(proc'[q], doc') /\ Staged(proc'[q])
    <2>1. CASE q = p
      BY <2>1 DEF IInv, ProcOK, Goto
    <2>2. CASE q # p
      <3>1. proc'[q] = proc[q] /\ Copied(proc[q], doc) /\ Staged(proc[q])
        BY <2>2 DEF IInv, ProcOK, Goto
      <3>2. QED
        BY <3>1 DEF Copied
    <2>3. QED
      BY <2>1, <2>2
  <1>4. QED
    BY <1>1, <1>2, <1>3 DEF Kept, IInv, ProcOK

\* Most steps read the document and write nothing.
LEMMA ReadKeeps ==
    ASSUME IInv, NEW p \in Proc, NEW s, Goto(p, s), StoreUntouched,
           present # "absent", Copied(s, doc), Staged(s)
    PROVE  Kept
  <1>1. StoreOK' /\ present' = present /\ doc' = doc
    BY DEF IInv, StoreOK, StoreUntouched
  <1>2. doc \in Doc /\ (doc.closed => doc.outcome # "none")
    BY DEF IInv, DocOK
  <1>3. QED
    BY <1>1, <1>2, StepKeeps

\* A process that is on its way found the intention stored.
LEMMA BusyIsPresent ==
    ASSUME IInv, NEW p \in Proc, proc[p].pc # "idle"
    PROVE  present # "absent"
  BY DEF IInv, ProcOK

\* Write(p) keeps the document in shape, closed and decided.
LEMMA WriteKeeps ==
    ASSUME IInv, NEW p \in Proc, Write(p)
    PROVE  /\ doc' \in Doc
           /\ doc'.closed = doc.closed
           /\ doc.outcome # "none" => doc'.outcome # "none"
           /\ present # "absent" /\ proc[p].copy.outcome # "none"
                => doc'.outcome # "none"
  <1>1. Copied(proc[p], doc) /\ doc \in Doc
    BY DEF IInv, ProcOK, DocOK
  <1>2. CASE present = "stored"
    BY <1>1, <1>2, MergeKeeps DEF Write
  <1>3. CASE present # "stored"
    BY <1>1, <1>3 DEF Write, IInv, DocOK, StoreOK
  <1>4. QED
    BY <1>2, <1>3

\* One action of a copy changes: the copy stays sound.
LEMMA WithActionCopied ==
    ASSUME NEW d, NEW s, Copied(s, d), NEW a \in Action, NEW value \in ActionState
    PROVE  LET n == WithAction(s, a, value) IN
           /\ Copied(n, d)
           /\ n.pc = s.pc /\ n.outcome = s.outcome
           /\ n.copy.outcome = s.copy.outcome
  <1>1. [s.copy.actions EXCEPT ![a] = value] \in [Action -> ActionState]
    BY DEF Copied, ProcState, Doc
  <1>2. QED
    BY <1>1, WithActionsCopied DEF WithAction

\* A handler that answers while the flush of its one change is under way.
LEMMA AnsweredKeeps ==
    ASSUME IInv, NEW p \in Proc, NEW a \in Action, NEW value \in ActionState,
           NEW pc \in {"flush", "patch"}, present # "absent",
           Goto(p, WithAction(Loaded(pc), a, value)), StoreUntouched
    PROVE  Kept
  <1> DEFINE s == WithAction(Loaded(pc), a, value)
  <1>1. doc \in Doc
    BY DEF IInv, DocOK
  <1>2. Copied(Loaded(pc), doc) /\ Loaded(pc).pc = pc
    BY <1>1, LoadedCopied DEF PC
  <1>3. Copied(s, doc) /\ s.pc = pc
    BY <1>2, WithActionCopied
  <1>4. Staged(s)
    BY <1>3 DEF Staged, Finalizer
  <1> HIDE DEF s
  <1>5. QED
    BY <1>3, <1>4, ReadKeeps DEF s

\* action/start marks the action as started.
LEMMA StartKeeps ==
    ASSUME IInv, NEW p \in Proc, NEW a \in Action, StartAction(p, a)
    PROVE  Kept
  <1>1. doc.actions[a] \in ActionState /\ present # "absent"
    BY DEF IInv, DocOK, Doc, StartAction, Findable
  <1>2. [doc.actions[a] EXCEPT !.lifecycle = "started"] \in ActionState
    BY <1>1 DEF ActionState, Lifecycle
  <1>3. QED
    BY <1>1, <1>2, AnsweredKeeps DEF StartAction

\* action/end marks it as ended, with the client's outcome.
LEMMA EndKeeps ==
    ASSUME IInv, NEW p \in Proc, NEW a \in Action, NEW o \in ClientOutcome,
           EndAction(p, a, o)
    PROVE  Kept
  <1>1. doc.actions[a] \in ActionState /\ present # "absent"
    BY DEF IInv, DocOK, Doc, EndAction, Findable
  <1>2. Ended(doc.actions[a], o) \in ActionState
    BY <1>1, ClientOutcomes DEF Ended, ActionState, Lifecycle, Verdict
  <1>3. QED
    BY <1>1, <1>2, AnsweredKeeps DEF EndAction

\* A process that holds no copy is sound wherever it is.
LEMMA NoCopy ==
    ASSUME NEW d, NEW s \in ProcState, s.copy = Idle.copy, s.dirty = {},
           s.pc \notin Finalizer \union {"idle"}
    PROVE  Copied(s, d) /\ Staged(s)
  <1>1. s.copy.outcome = "none"
    BY NewDocType DEF Idle
  <1>2. QED
    BY <1>1 DEF Copied, Staged, Finalizer

\* Going back to idle without a write.
LEMMA Leaving ==
    ASSUME IInv, NEW p \in Proc, present # "absent", Goto(p, Idle), StoreUntouched
    PROVE  Kept
  BY IdleIsFine, ReadKeeps

\* The handlers that look the intention up and come back to it later.
LEMMA LateHandlers ==
    ASSUME IInv, NEW p \in Proc, NEW a \in Action,
           RegisterArtifact(p, a) \/ PatchInvalid(p, a) \/ Provision(p, a)
    PROVE  Kept
  <1>1. present # "absent"
    BY DEF RegisterArtifact, PatchInvalid, Provision, Findable
  <1>2. ASSUME NEW pc \in {"register", "patchError", "issue"},
               Goto(p, [Idle EXCEPT !.pc = pc, !.action = {a}]), StoreUntouched
        PROVE  Kept
    <2> DEFINE s == [Idle EXCEPT !.pc = pc, !.action = {a}]
    <2>1. Idle \in ProcState
      BY IdleIsFine DEF Copied
    <2>2. s \in ProcState /\ s.copy = Idle.copy /\ s.dirty = Idle.dirty /\ s.pc = pc
      BY <2>1 DEF ProcState, PC
    <2>3. Copied(s, doc) /\ Staged(s)
      BY <2>2, NoCopy DEF Finalizer, Idle
    <2> HIDE DEF s
    <2>4. QED
      BY <1>1, <1>2, <2>3, ReadKeeps DEF s
  <1>3. QED
    BY <1>2 DEF RegisterArtifact, PatchInvalid, Provision

\* A copy that becomes a finalizer's.
LEMMA FinalizingKeeps ==
    ASSUME IInv, NEW p \in Proc, NEW s, Copied(s, doc), NEW o \in Verdict \ {"none"},
           present # "absent", Goto(p, Finalizing(s, o)), StoreUntouched
    PROVE  Kept
  <1>1. /\ Copied(Finalizing(s, o), doc) /\ Finalizing(s, o).pc = "revoke"
        /\ Finalizing(s, o).outcome = o
    BY FinalizingCopied
  <1>2. Staged(Finalizing(s, o))
    BY <1>1 DEF Staged
  <1>3. QED
    BY <1>1, <1>2, ReadKeeps

\* close(), and the expiry job.
LEMMA CloseKeeps ==
    ASSUME IInv, NEW p \in Proc, NEW o \in ClientOutcome \union {"unknown"}, Close(p, o)
    PROVE  Kept
  <1>1. doc \in Doc /\ present # "absent"
    BY DEF IInv, DocOK, Close, Findable
  <1>2. Copied(Loaded("revoke"), doc)
    BY <1>1, LoadedCopied DEF PC
  <1>3. o \in Verdict \ {"none"}
    BY ClientOutcomes DEF Verdict
  <1>4. QED
    BY <1>1, <1>2, <1>3, FinalizingKeeps DEF Close

\* The artifact of a request is pushed on a copy loaded again.
LEMMA AddArtifactKeeps ==
    ASSUME IInv, NEW p \in Proc, AddArtifact(p)
    PROVE  Kept
  <1>1. present # "absent"
    BY BusyIsPresent DEF AddArtifact
  <1>2. PICK a \in proc[p].action :
          IF Findable
          THEN Goto(p, WithAction(Loaded("flush"), a, WithArtifact(doc.actions[a])))
          ELSE Goto(p, Idle)
    BY DEF AddArtifact
  <1>3. a \in Action /\ doc \in Doc /\ doc.actions[a] \in ActionState
    BY DEF IInv, ProcOK, DocOK, ProcState, Doc
  <1>4. WithArtifact(doc.actions[a]) \in ActionState
    BY <1>3 DEF WithArtifact, ActionState
  <1> DEFINE s == WithAction(Loaded("flush"), a, WithArtifact(doc.actions[a]))
  <1>5. Copied(s, doc) /\ s.pc = "flush"
    BY <1>3, <1>4, LoadedCopied, WithActionCopied DEF PC
  <1>6. Staged(s)
    BY <1>5 DEF Staged, Finalizer
  <1>7. StoreUntouched
    BY DEF AddArtifact
  <1> HIDE DEF s
  <1>8. CASE Findable
    BY <1>1, <1>2, <1>5, <1>6, <1>7, <1>8, ReadKeeps DEF s
  <1>9. CASE ~Findable
    BY <1>1, <1>2, <1>7, <1>9, Leaving
  <1>10. QED
    BY <1>8, <1>9

\* What the invariant says of one process.
LEMMA ProcFacts ==
    ASSUME IInv, NEW p \in Proc
    PROVE  /\ proc[p] \in ProcState /\ proc[p].copy \in Doc
           /\ proc[p].copy.actions \in [Action -> ActionState]
           /\ Copied(proc[p], doc) /\ Staged(proc[p])
           /\ doc \in Doc /\ (doc.closed => doc.outcome # "none")
  BY DEF IInv, ProcOK, DocOK, ProcState, Doc

\* A process that moves on with the copy it has.
LEMMA SameCopy ==
    ASSUME NEW d, NEW s, Copied(s, d), NEW n \in ProcState,
           n.copy = s.copy, n.dirty = s.dirty
    PROVE  Copied(n, d)
  BY DEF Copied

\* The write of an answered request, and of an accepted patch.
LEMMA LastWriteKeeps ==
    ASSUME IInv, NEW p \in Proc, proc[p].pc # "idle", Write(p), Goto(p, Idle),
           UNCHANGED <<present, age, tokens, accessors, synced, crashes>>
    PROVE  Kept
  <1>1. present # "absent"
    BY BusyIsPresent
  <1>2. StoreOK'
    BY DEF IInv, StoreOK
  <1>3. QED
    BY <1>1, <1>2, WriteKeeps, ProcFacts, IdleIsFine, StepKeeps

\* A finalizer's flush on the way clears what is dirty.
LEMMA FlushUnderwayKeeps ==
    ASSUME IInv, NEW p \in Proc, FlushUnderway(p)
    PROVE  Kept
  <1> DEFINE s == [proc[p] EXCEPT !.dirty = {}]
  <1>1. present # "absent"
    BY BusyIsPresent DEF FlushUnderway
  <1>2. s \in ProcState /\ s.copy = proc[p].copy /\ s.dirty = {}
        /\ s.pc = proc[p].pc /\ s.outcome = proc[p].outcome /\ s.pc # "idle"
    BY ProcFacts DEF ProcState, FlushUnderway
  <1>3. Copied(s, doc')
    BY <1>1, <1>2, WriteKeeps DEF Copied, FlushUnderway
  <1>4. Staged(s)
    BY <1>2, ProcFacts DEF Staged
  <1>5. StoreOK' /\ Goto(p, s) /\ present' = present /\ Write(p)
    BY DEF IInv, StoreOK, FlushUnderway
  <1> HIDE DEF s
  <1>6. QED
    BY <1>1, <1>3, <1>4, <1>5, WriteKeeps, ProcFacts, StepKeeps

\* The accessors there are by now become the list to revoke.
LEMMA ReadAccessorsKeeps ==
    ASSUME IInv, NEW p \in Proc, ReadAccessors(p)
    PROVE  Kept
  <1> DEFINE s == [proc[p] EXCEPT !.pc = "revoking", !.todo = RecordedAccessors]
  <1>1. present # "absent"
    BY BusyIsPresent DEF ReadAccessors
  <1>2. s \in ProcState /\ s.copy = proc[p].copy /\ s.dirty = proc[p].dirty
        /\ s.pc = "revoking" /\ s.outcome = proc[p].outcome /\ proc[p].pc = "revoke"
    BY ProcFacts DEF ProcState, PC, RecordedAccessors, IInv, StoreOK, ReadAccessors
  <1>3. Copied(s, doc) /\ Staged(s)
    BY <1>2, ProcFacts, SameCopy DEF Staged, Finalizer
  <1> HIDE DEF s
  <1>4. QED
    BY <1>1, <1>3, ReadKeeps DEF s, ReadAccessors

\* One of them is revoked.
LEMMA RevokeTokenKeeps ==
    ASSUME IInv, NEW p \in Proc, NEW t \in Token, RevokeToken(p, t)
    PROVE  Kept
  <1> DEFINE s == [proc[p] EXCEPT !.todo = @ \ {t}]
  <1>1. present # "absent"
    BY BusyIsPresent DEF RevokeToken
  <1>2. s \in ProcState /\ s.copy = proc[p].copy /\ s.dirty = proc[p].dirty
        /\ s.pc = "revoking" /\ s.outcome = proc[p].outcome /\ proc[p].pc = "revoking"
    BY ProcFacts DEF ProcState, RevokeToken
  <1>3. Copied(s, doc) /\ Staged(s)
    BY <1>2, ProcFacts, SameCopy DEF Staged, Finalizer
  <1>4. StoreOK' /\ Goto(p, s) /\ UNCHANGED <<present, doc>>
    BY DEF IInv, StoreOK, RevokeToken, TokenFate
  <1> HIDE DEF s
  <1>5. QED
    BY <1>1, <1>3, <1>4, ProcFacts, StepKeeps

\* The records are dropped; a success goes on to the builds, anything else
\* settles the outcome at once.
LEMMA DropAccessorsKeeps ==
    ASSUME IInv, NEW p \in Proc, DropAccessors(p)
    PROVE  Kept
  <1>1. present # "absent"
    BY BusyIsPresent DEF DropAccessors
  <1>2. StoreOK' /\ UNCHANGED <<present, doc>> /\ proc[p].pc = "revoking"
        /\ proc[p].outcome # "none"
    BY ProcFacts DEF IInv, StoreOK, DropAccessors, Staged, Finalizer
  <1>3. CASE proc[p].outcome = "success"
    <2> DEFINE s == [proc[p] EXCEPT !.pc = "builds",
                                    !.builds = SuccessfulBuilds(proc[p].copy)]
    <2>1. s \in ProcState /\ s.copy = proc[p].copy /\ s.dirty = proc[p].dirty
          /\ s.pc = "builds" /\ s.outcome = proc[p].outcome
      BY ProcFacts, ActionKinds DEF ProcState, PC, SuccessfulBuilds
    <2>2. Copied(s, doc) /\ Staged(s)
      BY <1>2, <2>1, ProcFacts, SameCopy DEF Staged
    <2>3. Goto(p, s)
      BY <1>3 DEF DropAccessors
    <2> HIDE DEF s
    <2>4. QED
      BY <1>1, <1>2, <2>2, <2>3, ProcFacts, StepKeeps
  <1>4. CASE proc[p].outcome # "success"
    <2> DEFINE t == [proc[p] EXCEPT !.pc = "close"]
    <2>1. t \in ProcState /\ t.copy = proc[p].copy /\ t.dirty = proc[p].dirty
          /\ t.pc = "close" /\ t.outcome = proc[p].outcome
      BY ProcFacts DEF ProcState, PC
    <2>2. Copied(t, doc)
      BY <2>1, ProcFacts, SameCopy
    <2>3. Goto(p, Settled(t))
      BY <1>4 DEF DropAccessors
    <2> HIDE DEF t
    <2>4. Copied(Settled(t), doc) /\ Staged(Settled(t))
      BY <1>2, <2>1, <2>2, SettledCopied DEF Staged
    <2>5. QED
      BY <1>1, <1>2, <2>3, <2>4, ProcFacts, StepKeeps
  <1>5. QED
    BY <1>3, <1>4

\* A build is registered on a copy loaded again, over what is dirty.
LEMMA RegisterBuildKeeps ==
    ASSUME IInv, NEW p \in Proc, NEW b \in Build, RegisterBuild(p, b)
    PROVE  Kept
  <1>1. present # "absent" /\ StoreUntouched /\ proc[p].pc = "builds" /\ b \in Action
    BY BusyIsPresent, ActionKinds DEF RegisterBuild
  <1>2. CASE proc[p].copy.actions[b].artifacts = 0 /\ Findable
    <2> DEFINE fresh == Merge(proc[p].copy, proc[p].dirty, doc)
               t == [proc[p] EXCEPT !.copy = fresh, !.builds = @ \ {b}]
               s == WithAction(t, b, WithArtifact(fresh.actions[b]))
    <2>1. /\ fresh \in Doc
          /\ proc[p].copy.outcome # "none" => fresh.outcome # "none"
          /\ fresh.outcome # "none" => "outcome" \in proc[p].dirty \/ doc.outcome # "none"
      BY ProcFacts, MergeKeeps
    <2> HIDE DEF fresh
    <2>2. t \in ProcState /\ t.copy = fresh /\ t.dirty = proc[p].dirty
          /\ t.pc = "builds" /\ t.outcome = proc[p].outcome
      BY <1>1, <2>1, ProcFacts DEF ProcState
    <2>3. Copied(t, doc)
      BY <2>1, <2>2, ProcFacts DEF Copied
    <2>4. WithArtifact(fresh.actions[b]) \in ActionState
      BY <1>1, <2>1 DEF WithArtifact, ActionState, Doc
    <2>5. Goto(p, s)
      BY <1>2 DEF RegisterBuild, fresh
    <2> HIDE DEF t
    <2>6. Copied(s, doc) /\ s.pc = "builds" /\ s.outcome = proc[p].outcome
      BY <1>1, <2>2, <2>3, <2>4, WithActionCopied
    <2> HIDE DEF s
    <2>7. Staged(s)
      BY <1>1, <2>6, ProcFacts DEF Staged, Finalizer
    <2>8. QED
      BY <1>1, <2>5, <2>6, <2>7, ReadKeeps
  <1>3. CASE ~(proc[p].copy.actions[b].artifacts = 0 /\ Findable)
    <2> DEFINE s == [proc[p] EXCEPT !.pc = "flush"]
    <2>1. s \in ProcState /\ s.copy = proc[p].copy /\ s.dirty = proc[p].dirty
          /\ s.pc = "flush"
      BY ProcFacts DEF ProcState, PC
    <2>2. Copied(s, doc) /\ Staged(s)
      BY <2>1, ProcFacts, SameCopy DEF Staged, Finalizer
    <2>3. Goto(p, s)
      BY <1>3 DEF RegisterBuild
    <2> HIDE DEF s
    <2>4. QED
      BY <1>1, <2>2, <2>3, ReadKeeps
  <1>4. QED
    BY <1>2, <1>3

\* The outcome is settled before the graph is touched.
LEMMA BuildsRegisteredKeeps ==
    ASSUME IInv, NEW p \in Proc, BuildsRegistered(p)
    PROVE  Kept
  <1> DEFINE t == [proc[p] EXCEPT !.pc = "sync"]
  <1>1. present # "absent" /\ proc[p].outcome # "none"
    BY BusyIsPresent, ProcFacts DEF BuildsRegistered, Staged, Finalizer
  <1>2. t \in ProcState /\ t.copy = proc[p].copy /\ t.dirty = proc[p].dirty
        /\ t.pc = "sync" /\ t.outcome = proc[p].outcome
    BY ProcFacts DEF ProcState, PC
  <1>3. Copied(t, doc)
    BY <1>2, ProcFacts, SameCopy
  <1>4. Goto(p, Settled(t)) /\ StoreUntouched
    BY DEF BuildsRegistered
  <1> HIDE DEF t
  <1>5. Copied(Settled(t), doc) /\ Staged(Settled(t))
    BY <1>1, <1>2, <1>3, SettledCopied DEF Staged
  <1>6. QED
    BY <1>1, <1>4, <1>5, ReadKeeps

\* The graph update succeeds and the finalizer goes on, or it throws.
LEMMA SyncGraphKeeps ==
    ASSUME IInv, NEW p \in Proc, SyncGraph(p)
    PROVE  Kept
  <1> DEFINE s == [proc[p] EXCEPT !.pc = "close"]
  <1>1. present # "absent" /\ StoreOK' /\ UNCHANGED <<present, doc>>
        /\ proc[p].pc = "sync"
    BY BusyIsPresent DEF SyncGraph, IInv, StoreOK
  <1>2. s \in ProcState /\ s.copy = proc[p].copy /\ s.dirty = proc[p].dirty
        /\ s.pc = "close" /\ s.outcome = proc[p].outcome
    BY ProcFacts DEF ProcState, PC
  <1>3. Copied(s, doc) /\ Staged(s)
    BY <1>1, <1>2, ProcFacts, SameCopy DEF Staged, Finalizer
  <1>4. Goto(p, s) \/ Goto(p, Idle)
    BY DEF SyncGraph
  <1> HIDE DEF s
  <1>5. QED
    BY <1>1, <1>3, <1>4, IdleIsFine, ProcFacts, StepKeeps

\* A flag of an action is set.
LEMMA FlaggedAction ==
    ASSUME NEW x \in ActionState
    PROVE  /\ [x EXCEPT !.patched = TRUE] \in ActionState
           /\ [x EXCEPT !.linked = TRUE] \in ActionState
  <1>1. TRUE \in BOOLEAN
    OBVIOUS
  <1>2. ASSUME NEW f \in BOOLEAN
        PROVE  /\ [x EXCEPT !.patched = f] \in ActionState
               /\ [x EXCEPT !.linked = f] \in ActionState
    BY DEF ActionState
  <1>3. QED
    BY <1>1, <1>2, Zenon

\* The one write of the closed flag.
LEMMA CloseIntentionKeeps ==
    ASSUME IInv, NEW p \in Proc, CloseIntention(p)
    PROVE  Kept
  <1>1. present # "absent" /\ StoreOK' /\ present' = present /\ Goto(p, Idle)
        /\ proc[p].pc = "close"
    BY BusyIsPresent DEF CloseIntention, IInv, StoreOK
  <1>2. PICK actions \in {proc[p].copy.actions, Linked(proc[p].copy.actions)} :
          LET final == MarkedClosed(WithActions(proc[p], actions))
          IN doc' = IF present = "stored"
                    THEN Merge(final.copy, final.dirty, doc) ELSE doc
    BY DEF CloseIntention
  <1>3. Linked(proc[p].copy.actions) \in [Action -> ActionState]
    BY ProcFacts, FlaggedAction DEF Linked
  <1>4. actions \in [Action -> ActionState]
    BY <1>3, ProcFacts
  <1>5. /\ Copied(WithActions(proc[p], actions), doc)
        /\ WithActions(proc[p], actions).copy.outcome # "none"
    BY <1>1, <1>4, ProcFacts, WithActionsCopied DEF Staged
  <1>6. CASE present = "stored"
    BY <1>1, <1>2, <1>5, <1>6, ProcFacts, MarkedClosedMerge, IdleIsFine, StepKeeps
  <1>7. CASE present # "stored"
    BY <1>1, <1>2, <1>7, ProcFacts, IdleIsFine, StepKeeps
  <1>8. QED
    BY <1>6, <1>7

\* A violation of the patched actions turns the request into a finalizer.
LEMMA PatchRejectedKeeps ==
    ASSUME IInv, NEW p \in Proc, PatchRejected(p)
    PROVE  Kept
  <1>1. present # "absent" /\ StoreUntouched
    BY BusyIsPresent DEF PatchRejected
  <1>2. PICK violating \in SUBSET Action :
          Goto(p, Finalizing(WithActions(proc[p],
                    [c \in Action |-> IF c \in violating
                                      THEN [proc[p].copy.actions[c] EXCEPT !.outcome = "rejected"]
                                      ELSE proc[p].copy.actions[c]]), PatchOutcome))
    BY DEF PatchRejected
  <1> DEFINE judged == [c \in Action |-> IF c \in violating
                                        THEN [proc[p].copy.actions[c] EXCEPT !.outcome = "rejected"]
                                        ELSE proc[p].copy.actions[c]]
  <1>3. judged \in [Action -> ActionState]
    BY ProcFacts DEF ActionState, Verdict
  <1>4. Goto(p, Finalizing(WithActions(proc[p], judged), PatchOutcome))
    BY <1>2
  <1> HIDE DEF judged
  <1>5. Copied(WithActions(proc[p], judged), doc)
    BY <1>3, ProcFacts, WithActionsCopied
  <1>6. PatchOutcome \in Verdict \ {"none"}
    BY DEF PatchOutcome, Verdict
  <1>7. QED
    BY <1>1, <1>4, <1>5, <1>6, FinalizingKeeps

\* The controller closes the intention of a patch that threw.
LEMMA PatchFailedKeeps ==
    ASSUME IInv, NEW p \in Proc, PatchFailed(p)
    PROVE  Kept
  <1>1. present # "absent" /\ StoreUntouched
    BY BusyIsPresent DEF PatchFailed
  <1>2. Copied(Loaded("revoke"), doc) /\ "failure" \in Verdict \ {"none"}
    BY ProcFacts, LoadedCopied DEF PC, Verdict
  <1>3. Goto(p, Finalizing(Loaded("revoke"), "failure")) \/ Goto(p, Idle)
    BY DEF PatchFailed
  <1>4. QED
    BY <1>1, <1>2, <1>3, FinalizingKeeps, Leaving

\* A patch changes the copy the guard loaded.
LEMMA PatchKeeps ==
    ASSUME IInv, NEW p \in Proc, NEW a \in Action, Patch(p, a)
    PROVE  Kept
  <1>1. doc.actions[a] \in ActionState /\ present # "absent"
    BY ProcFacts DEF Doc, Patch, Findable
  <1>2. [doc.actions[a] EXCEPT !.patched = TRUE] \in ActionState
    BY <1>1, FlaggedAction
  <1>3. QED
    BY <1>1, <1>2, AnsweredKeeps DEF Patch

\* A token is issued beside the document.
LEMMA IssueTokenKeeps ==
    ASSUME IInv, NEW p \in Proc, NEW t \in Token, IssueToken(p, t)
    PROVE  Kept
  <1> DEFINE s == [Idle EXCEPT !.pc = "record", !.todo = {t}]
  <1>1. present # "absent"
    BY BusyIsPresent DEF IssueToken
  <1>2. Idle \in ProcState
    BY IdleIsFine DEF Copied
  <1>3. s \in ProcState /\ s.copy = Idle.copy /\ s.dirty = Idle.dirty /\ s.pc = "record"
    BY <1>2 DEF ProcState, PC
  <1>4. Copied(s, doc) /\ Staged(s)
    BY <1>3, NoCopy DEF Finalizer, Idle
  <1>5. StoreOK' /\ Goto(p, s) /\ UNCHANGED <<present, doc>>
    BY DEF IssueToken, IInv, StoreOK, TokenFate
  <1> HIDE DEF s
  <1>6. QED
    BY <1>1, <1>4, <1>5, ProcFacts, StepKeeps

\* Its accessor is recorded, or it is refused.
LEMMA RecordAccessorKeeps ==
    ASSUME IInv, NEW p \in Proc, RecordAccessor(p) \/ IssueFails(p)
    PROVE  Kept
  <1>1. present # "absent"
    BY BusyIsPresent DEF RecordAccessor, IssueFails
  <1>2. CASE IssueFails(p)
    BY <1>1, <1>2, Leaving DEF IssueFails
  <1>3. CASE RecordAccessor(p)
    <2>1. StoreOK' /\ Goto(p, Idle) /\ UNCHANGED <<present, doc>>
      BY <1>3, ProcFacts DEF RecordAccessor, IInv, StoreOK, ProcState, TokenFate
    <2>2. QED
      BY <1>1, <2>1, ProcFacts, IdleIsFine, StepKeeps
  <1>4. QED
    BY <1>2, <1>3

\* A process that dies forgets its copy.
LEMMA CrashKeeps ==
    ASSUME IInv, NEW p \in Proc, Crash(p)
    PROVE  Kept
  <1>1. present # "absent"
    BY BusyIsPresent DEF Crash
  <1>2. StoreOK' /\ Goto(p, Idle) /\ UNCHANGED <<present, doc>>
    BY MaxCrashesInNat DEF Crash, IInv, StoreOK
  <1>3. QED
    BY <1>1, <1>2, ProcFacts, IdleIsFine, StepKeeps

\* The first write, the clock and the cleanup.
LEMMA EnvironmentKeeps ==
    ASSUME IInv, Environment
    PROVE  Kept
  <1>1. CASE Open
    <2>1. PICK violating \in SUBSET Action :
             /\ doc' = NewDoc(violating)
             /\ age' = IF violating = {} THEN "live" ELSE "expired"
      BY <1>1 DEF Open
    <2>2. /\ present = "absent" /\ present' = "stored" /\ proc' = proc
          /\ UNCHANGED <<tokens, accessors, synced, crashes>>
      BY <1>1 DEF Open
    <2>3. doc' \in Doc /\ (doc'.closed => doc'.outcome # "none")
      BY <2>1, NewDocType
    <2>4. \A p \in Proc : proc[p] = Idle
      BY <2>2 DEF IInv, ProcOK, Staged
    <2>5. ProcOK'
      BY <2>2, <2>4, IdleIsFine DEF IInv, ProcOK
    <2>6. StoreOK' /\ DocOK' /\ ~doc.closed
      BY <2>1, <2>2, <2>3 DEF IInv, StoreOK, DocOK
    <2>7. QED
      BY <2>5, <2>6 DEF Kept, IInv
  <1>2. CASE TimePasses \/ CleanupTransient
    <2>1. UNCHANGED <<doc, tokens, accessors, synced, proc, crashes>>
      BY <1>2 DEF TimePasses, CleanupTransient
    <2>2. StoreOK' /\ DocOK' /\ present # "absent" /\ present' # "absent"
      BY <1>2 DEF TimePasses, CleanupTransient, IInv, StoreOK, DocOK
    <2>3. ProcOK'
      BY <2>1, <2>2 DEF IInv, ProcOK
    <2>4. QED
      BY <2>1, <2>2, <2>3 DEF Kept, IInv
  <1>3. QED
    BY <1>1, <1>2 DEF Environment

\* What a process does to begin.
LEMMA BeginKeeps ==
    ASSUME IInv, NEW p \in Proc, BeginRequest(p) \/ BeginSweep(p)
    PROVE  Kept
  <1>1. CASE BeginSweep(p)
    BY <1>1, CloseKeeps DEF BeginSweep, SweepExpired
  <1>2. CASE BeginRequest(p)
    <2>1. ASSUME NEW a \in Action, StartAction(p, a)
          PROVE  Kept
      BY <2>1, StartKeeps
    <2>2. ASSUME NEW a \in Action, NEW o \in ClientOutcome, EndAction(p, a, o)
          PROVE  Kept
      BY <2>2, EndKeeps
    <2>3. ASSUME NEW a \in Action,
                 RegisterArtifact(p, a) \/ PatchInvalid(p, a) \/ Provision(p, a)
          PROVE  Kept
      BY <2>3, LateHandlers
    <2>4. ASSUME NEW a \in Action, Patch(p, a)
          PROVE  Kept
      BY <2>4, PatchKeeps
    <2>5. ASSUME NEW o \in ClientOutcome, Close(p, o)
          PROVE  Kept
      BY <2>5, CloseKeeps
    <2>6. QED
      BY <1>2, <2>1, <2>2, <2>3, <2>4, <2>5, ActionKinds DEF BeginRequest
  <1>3. QED
    BY <1>1, <1>2

\* What it does next.
LEMMA ContinueKeeps ==
    ASSUME IInv, NEW p \in Proc, Continue(p)
    PROVE  Kept
  <1>1. CASE FlushAnswered(p) \/ PatchAccepted(p)
    BY <1>1, LastWriteKeeps DEF FlushAnswered, PatchAccepted
  <1>2. CASE AddArtifact(p)
    BY <1>2, AddArtifactKeeps
  <1>3. CASE FlushUnderway(p)
    BY <1>3, FlushUnderwayKeeps
  <1>4. CASE ReadAccessors(p)
    BY <1>4, ReadAccessorsKeeps
  <1>5. CASE \E t \in Token : RevokeToken(p, t) \/ IssueToken(p, t)
    BY <1>5, RevokeTokenKeeps, IssueTokenKeeps
  <1>6. CASE DropAccessors(p)
    BY <1>6, DropAccessorsKeeps
  <1>7. CASE \E b \in Build : RegisterBuild(p, b)
    BY <1>7, RegisterBuildKeeps
  <1>8. CASE BuildsRegistered(p) \/ SyncGraph(p) \/ CloseIntention(p)
    BY <1>8, BuildsRegisteredKeeps, SyncGraphKeeps, CloseIntentionKeeps
  <1>9. CASE PatchRejected(p) \/ PatchFailed(p)
    BY <1>9, PatchRejectedKeeps, PatchFailedKeeps
  <1>10. CASE IssueFails(p) \/ RecordAccessor(p)
    BY <1>10, RecordAccessorKeeps
  <1>11. QED
    BY <1>1, <1>2, <1>3, <1>4, <1>5, <1>6, <1>7, <1>8, <1>9, <1>10 DEF Continue

-----------------------------------------------------------------------------
(* The invariant.                                                          *)

\* Nothing runs before the intention is opened.
LEMMA InitIInv == Init => IInv
  <1> SUFFICES ASSUME Init PROVE IInv
    OBVIOUS
  <1>1. StoreOK
    <2>1. synced \in BOOLEAN
      BY Zenon DEF Init
    <2>2. crashes \in 0 .. MaxCrashes
      BY MaxCrashesInNat DEF Init
    <2>3. QED
      BY <2>1, <2>2 DEF Init, StoreOK, TokenFate
  <1>2. DocOK
    BY NewDocType DEF Init, DocOK
  <1>3. ProcOK
    BY IdleIsFine DEF Init, ProcOK, Copied
  <1>4. QED
    BY <1>1, <1>2, <1>3 DEF IInv

\* Every step keeps the invariant, and no step reopens the intention.
LEMMA NextKeeps == IInv /\ [Next]_vars => Kept
  <1> SUFFICES ASSUME IInv, [Next]_vars PROVE Kept
    OBVIOUS
  <1>1. CASE Environment
    BY <1>1, EnvironmentKeeps
  <1>2. ASSUME NEW p \in Proc, Step(p)
        PROVE  Kept
    BY <1>2, BeginKeeps, ContinueKeeps, CrashKeeps DEF Step
  <1>3. CASE UNCHANGED vars
    BY <1>3 DEF vars, Kept, IInv, StoreOK, DocOK, ProcOK
  <1>4. QED
    BY <1>1, <1>2, <1>3 DEF Next

(* Every reachable state satisfies the inductive invariant.                 *)
THEOREM Invariance == Spec => []IInv
  <1>1. IInv /\ [Next]_vars => IInv'
    BY NextKeeps DEF Kept
  <1>2. QED
    BY InitIInv, <1>1, PTL DEF Spec

(* The document, the ORM copies and the locals keep their shape.            *)
THEOREM TypeCorrectness == Spec => []TypeOK
  <1>1. IInv => TypeOK
    BY DEF IInv, StoreOK, DocOK, ProcOK, TypeOK
  <1>2. QED
    BY Invariance, <1>1, PTL

(* A closed intention has the outcome of its transaction, however many      *)
(* requests and jobs race to close it, and whichever of them die.           *)
THEOREM ClosedOutcome == Spec => []ClosedHasOutcome
  <1>1. IInv => ClosedHasOutcome
    BY DEF IInv, DocOK, ClosedHasOutcome
  <1>2. QED
    BY Invariance, <1>1, PTL

(* No write of a copy taken earlier reopens a closed intention.             *)
THEOREM ClosedForever == Spec => ClosedIsPermanent
  <1>1. IInv /\ [Next]_vars => [doc.closed => doc'.closed]_vars
    BY NextKeeps DEF Kept
  <1>2. QED
    BY Invariance, <1>1, PTL DEF Spec, ClosedIsPermanent

(* Once it is closed and the requests inside are done, nothing gets in.     *)
THEOREM Frozen == Spec => FrozenOnceDrained
  <1> DEFINE Still == doc.closed /\ Drained
                        => UNCHANGED <<doc, tokens, accessors, synced, proc>>
  <1>1. IInv /\ [Next]_vars => [Still]_vars
    <2> SUFFICES ASSUME IInv, [Next]_vars, doc.closed, Drained
                 PROVE  UNCHANGED <<doc, tokens, accessors, synced, proc>>
      OBVIOUS
    <2>1. present # "absent"
      BY DEF IInv, DocOK
    <2>2. CASE Environment
      BY <2>1, <2>2 DEF Environment, Open, TimePasses, CleanupTransient
    <2>3. ASSUME NEW p \in Proc, Step(p)
          PROVE  FALSE
      <3>1. proc[p].pc = "idle" /\ ~Findable
        BY DEF Drained, Findable
      <3>2. ~BeginRequest(p) /\ ~BeginSweep(p)
        BY <3>1 DEF BeginRequest, BeginSweep, SweepExpired, StartAction, EndAction,
                    RegisterArtifact, Patch, PatchInvalid, Provision, Close
      <3>3. ~Continue(p) /\ ~Crash(p)
        BY <3>1 DEF Continue, Crash, FlushAnswered, AddArtifact, FlushUnderway,
                    ReadAccessors, DropAccessors, RevokeToken, IssueToken,
                    RegisterBuild, BuildsRegistered, SyncGraph, CloseIntention,
                    PatchAccepted, PatchRejected, PatchFailed, IssueFails, RecordAccessor
      <3>4. QED
        BY <2>3, <3>2, <3>3 DEF Step
    <2>4. QED
      BY <2>2, <2>3 DEF Next, vars
  <1>2. QED
    BY Invariance, <1>1, PTL DEF Spec, FrozenOnceDrained

-----------------------------------------------------------------------------
(* The tokens of an intention whose handlers do not overlap.  A recorded    *)
(* token leaves the accessors only through the hands of a finalizer, which  *)
(* has it on its list until it was tried.                                   *)

Accounted(s, fate, closed) ==
    /\ s.pc = "revoking" => \A t \in Token : fate[t] = "recorded" => t \in s.todo
    /\ s.pc \in {"builds", "sync", "close"} => \A t \in Token : fate[t] # "recorded"
    /\ s.pc \in {"issue", "record"} => ~closed

TInv ==
    /\ TokensTriedByClose
    /\ present = "absent" => \A t \in Token : tokens[t] # "recorded"
    /\ \A p \in Proc : Accounted(proc[p], tokens, doc.closed)

\* A step of the only process that runs, which leaves it accounted for.
LEMMA AloneAccounted ==
    ASSUME IInv, NEW p \in Proc, Alone(p), NEW s, Goto(p, s), Accounted(s, tokens', doc'.closed),
           TokensTriedByClose', present' # "absent"
    PROVE  TInv'
  <1>1. ASSUME NEW q \in Proc PROVE Accounted(proc'[q], tokens', doc'.closed)
    <2>1. CASE q = p
      BY <2>1 DEF IInv, ProcOK, Goto
    <2>2. CASE q # p
      <3>1. proc'[q] = proc[q] /\ proc[q].pc = "idle"
        BY <2>2 DEF Alone, Goto, IInv, ProcOK
      <3>2. QED
        BY <3>1 DEF Accounted
    <2>3. QED
      BY <2>1, <2>2
  <1>2. QED
    BY <1>1 DEF TInv

\* One that leaves the tokens, and the closed flag, as they are.
LEMMA TokensAside ==
    ASSUME IInv, TInv, NEW p \in Proc, Alone(p), NEW s, Goto(p, s),
           tokens' = tokens, accessors' = accessors, doc'.closed = doc.closed,
           present' = present, present # "absent",
           Accounted(s, tokens, doc.closed)
    PROVE  TInv'
  <1>1. Accounted(s, tokens', doc'.closed)
    OBVIOUS
  <1>2. TokensTriedByClose'
    BY DEF TInv, TokensTriedByClose
  <1>3. QED
    BY <1>1, <1>2, AloneAccounted

Careless == {"idle", "flush", "register", "patch", "patchError", "revoke"}

\* Where nothing is claimed of the tokens.
LEMMA CarelessAccounted ==
    ASSUME NEW s, s.pc \in Careless
    PROVE  Accounted(s, tokens, doc.closed)
  BY DEF Careless, Accounted

\* What a process does to begin finds the intention open.
LEMMA BeginTried ==
    ASSUME IInv, TInv, NEW p \in Proc, Alone(p), BeginRequest(p) \/ BeginSweep(p)
    PROVE  TInv'
  <1>1. present # "absent" /\ ~doc.closed /\ StoreUntouched /\ doc \in Doc
    BY DEF BeginRequest, BeginSweep, SweepExpired, StartAction, EndAction, RegisterArtifact,
           Patch, PatchInvalid, Provision, Close, Findable, IInv, DocOK
  <1>2. PICK s : Goto(p, s) /\ s.pc \in Careless \union {"issue"}
    <2>1. ASSUME NEW a \in Action, NEW pc \in {"flush", "patch"}, NEW value \in ActionState
          PROVE  WithAction(Loaded(pc), a, value).pc = pc
      BY <1>1, LoadedCopied, WithActionCopied DEF PC
    <2>2. ASSUME NEW o \in Verdict
          PROVE  Finalizing(Loaded("revoke"), o).pc = "revoke"
      BY <1>1, LoadedCopied, FinalizingCopied DEF PC
    <2>3. ASSUME NEW a \in Action, NEW o \in ClientOutcome
          PROVE  /\ [doc.actions[a] EXCEPT !.lifecycle = "started"] \in ActionState
                 /\ [doc.actions[a] EXCEPT !.patched = TRUE] \in ActionState
                 /\ Ended(doc.actions[a], o) \in ActionState
                 /\ o \in Verdict
      BY <1>1, ClientOutcomes DEF Doc, ActionState, Ended, Lifecycle, Verdict
    <2>4. CASE BeginSweep(p)
      BY <2>2, <2>4 DEF BeginSweep, SweepExpired, Close, Careless, Verdict
    <2>5. ASSUME NEW a \in Action, StartAction(p, a) \/ Patch(p, a)
          PROVE  \E s : Goto(p, s) /\ s.pc \in Careless \union {"issue"}
      <3>1. /\ [doc.actions[a] EXCEPT !.lifecycle = "started"] \in ActionState
            /\ [doc.actions[a] EXCEPT !.patched = TRUE] \in ActionState
        BY <1>1 DEF Doc, ActionState, Lifecycle
      <3>2. QED
        BY <3>1, <2>1, <2>5 DEF StartAction, Patch, Careless
    <2>6. ASSUME NEW a \in Action, NEW o \in ClientOutcome, EndAction(p, a, o)
          PROVE  \E s : Goto(p, s) /\ s.pc \in Careless \union {"issue"}
      BY <2>1, <2>3, <2>6 DEF EndAction, Careless
    <2>7. ASSUME NEW o \in ClientOutcome, Close(p, o)
          PROVE  \E s : Goto(p, s) /\ s.pc \in Careless \union {"issue"}
      BY <2>2, <2>7, ClientOutcomes DEF Close, Careless, Verdict
    <2>8. ASSUME NEW a \in Action,
                 RegisterArtifact(p, a) \/ PatchInvalid(p, a) \/ Provision(p, a)
          PROVE  \E s : Goto(p, s) /\ s.pc \in Careless \union {"issue"}
      <3>1. /\ [Idle EXCEPT !.pc = "register", !.action = {a}].pc = "register"
            /\ [Idle EXCEPT !.pc = "patchError", !.action = {a}].pc = "patchError"
            /\ [Idle EXCEPT !.pc = "issue", !.action = {a}].pc = "issue"
        BY DEF Idle
      <3>2. {"register", "patchError", "issue"} \subseteq Careless \union {"issue"}
        BY DEF Careless
      <3>3. CASE RegisterArtifact(p, a)
        BY <3>1, <3>2, <3>3 DEF RegisterArtifact
      <3>4. CASE PatchInvalid(p, a)
        BY <3>1, <3>2, <3>4 DEF PatchInvalid
      <3>5. CASE Provision(p, a)
        BY <3>1, <3>2, <3>5 DEF Provision
      <3>6. QED
        BY <2>8, <3>3, <3>4, <3>5
    <2>9. QED
      BY <2>4, <2>5, <2>6, <2>7, <2>8, ActionKinds DEF BeginRequest
  <1>3. Accounted(s, tokens, doc.closed)
    BY <1>1, <1>2 DEF Careless, Accounted
  <1>4. QED
    BY <1>1, <1>2, <1>3, TokensAside DEF StoreUntouched

\* The steps that touch neither tokens nor the flag.
LEMMA OtherStepsTried ==
    ASSUME IInv, TInv, NEW p \in Proc, Alone(p), present # "absent",
           \/ FlushAnswered(p) \/ AddArtifact(p) \/ FlushUnderway(p) \/ ReadAccessors(p)
           \/ \E b \in Build : RegisterBuild(p, b)
           \/ BuildsRegistered(p) \/ SyncGraph(p)
           \/ PatchAccepted(p) \/ PatchRejected(p) \/ PatchFailed(p)
           \/ IssueFails(p) \/ Crash(p)
    PROVE  TInv'
  <1> DEFINE s == proc'[p]
  <1>1. /\ Copied(proc[p], doc) /\ Staged(proc[p]) /\ Accounted(proc[p], tokens, doc.closed)
        /\ doc \in Doc /\ proc[p] \in ProcState /\ proc[p].copy \in Doc
    BY DEF IInv, ProcOK, DocOK, TInv, Copied, ProcState
  <1>2. /\ tokens' = tokens /\ accessors' = accessors /\ present' = present
        /\ doc'.closed = doc.closed
    BY WriteKeeps DEF FlushAnswered, AddArtifact, FlushUnderway, ReadAccessors, RegisterBuild,
         BuildsRegistered, SyncGraph, PatchAccepted, PatchRejected, PatchFailed, IssueFails,
         Crash, StoreUntouched
  <1>3. Goto(p, s)
    <2>1. PICK n : Goto(p, n)
      BY DEF FlushAnswered, AddArtifact, FlushUnderway, ReadAccessors, RegisterBuild,
             BuildsRegistered, SyncGraph, PatchAccepted, PatchRejected, PatchFailed,
             IssueFails, Crash
    <2>2. QED
      BY <2>1 DEF Goto, IInv, ProcOK
  <1>4. Accounted(s, tokens, doc.closed)
    <2>1. ASSUME NEW n, Goto(p, n) PROVE s = n
      BY <2>1 DEF Goto, IInv, ProcOK
    <2>2. CASE FlushAnswered(p) \/ PatchAccepted(p) \/ IssueFails(p) \/ Crash(p)
      <3>1. s = Idle
        BY <2>1, <2>2 DEF FlushAnswered, PatchAccepted, IssueFails, Crash
      <3>2. QED
        BY <3>1, IdleIsFine, CarelessAccounted DEF Careless
    <2>3. CASE AddArtifact(p)
      <3>1. PICK a \in proc[p].action :
               \/ s = WithAction(Loaded("flush"), a, WithArtifact(doc.actions[a]))
               \/ s = Idle
        BY <2>1, <2>3 DEF AddArtifact
      <3>2. a \in Action /\ WithArtifact(doc.actions[a]) \in ActionState
        BY <1>1 DEF ProcState, Doc, ActionState, WithArtifact
      <3>3. Copied(Loaded("flush"), doc) /\ Loaded("flush").pc = "flush"
        BY <1>1, LoadedCopied DEF PC
      <3>4. WithAction(Loaded("flush"), a, WithArtifact(doc.actions[a])).pc = "flush"
        BY <3>2, <3>3, WithActionCopied
      <3>5. s.pc \in {"flush", "idle"}
        BY <3>1, <3>4, IdleIsFine
      <3>6. QED
        BY <3>5, CarelessAccounted DEF Careless
    <2>4. CASE FlushUnderway(p)
      <3>1. s = [proc[p] EXCEPT !.dirty = {}]
        BY <2>1, <2>4 DEF FlushUnderway
      <3>2. s.pc = proc[p].pc /\ s.todo = proc[p].todo
        BY <1>1, <3>1 DEF ProcState
      <3>3. QED
        BY <1>1, <3>2 DEF Accounted
    <2>5. CASE ReadAccessors(p)
      <3>1. s = [proc[p] EXCEPT !.pc = "revoking", !.todo = accessors]
        BY <2>1, <2>5 DEF ReadAccessors, RecordedAccessors
      <3>2. s.pc = "revoking" /\ s.todo = accessors
        BY <1>1, <3>1 DEF ProcState
      <3>3. QED
        BY <3>2 DEF Accounted, TInv, TokensTriedByClose
    <2>6. ASSUME NEW b \in Build, RegisterBuild(p, b)
          PROVE  Accounted(s, tokens, doc.closed)
      <3>1. proc[p].pc = "builds" /\ s.pc \in {"builds", "flush"}
        BY <1>1, <2>1, <2>6 DEF RegisterBuild, WithAction, WithActions, ProcState
      <3>2. QED
        BY <1>1, <3>1 DEF Accounted
    <2>7. CASE BuildsRegistered(p) \/ SyncGraph(p)
      <3>1. /\ proc[p].pc \in {"builds", "sync"}
            /\ s.pc \in {"sync", "close", "idle"}
        BY <1>1, <2>1, <2>7, IdleIsFine DEF BuildsRegistered, SyncGraph, Settled, ProcState
      <3>2. QED
        BY <1>1, <3>1 DEF Accounted
    <2>8. CASE PatchRejected(p) \/ PatchFailed(p)
      <3>1. ASSUME PatchRejected(p) PROVE s.pc = "revoke"
        <4>1. PICK judged \in [Action -> ActionState] :
                 s = Finalizing(WithActions(proc[p], judged), PatchOutcome)
          <5>1. ASSUME NEW violating \in SUBSET Action
                PROVE  [a \in Action |->
                          IF a \in violating
                          THEN [proc[p].copy.actions[a] EXCEPT !.outcome = "rejected"]
                          ELSE proc[p].copy.actions[a]] \in [Action -> ActionState]
            BY <1>1 DEF Doc, ActionState, Verdict
          <5>2. QED
            BY <2>1, <3>1, <5>1 DEF PatchRejected
        <4>2. PatchOutcome \in Verdict /\ Copied(WithActions(proc[p], judged), doc)
          BY <1>1, WithActionsCopied DEF PatchOutcome, Verdict
        <4>3. QED
          BY <4>1, <4>2, FinalizingCopied
      <3>2. ASSUME PatchFailed(p) PROVE s.pc \in {"revoke", "idle"}
        <4>1. s = Finalizing(Loaded("revoke"), "failure") \/ s = Idle
          BY <2>1, <3>2 DEF PatchFailed
        <4>2. Copied(Loaded("revoke"), doc)
          BY <1>1, LoadedCopied DEF PC
        <4>3. QED
          BY <4>1, <4>2, FinalizingCopied, IdleIsFine DEF Verdict
      <3>3. QED
        BY <2>8, <3>1, <3>2, CarelessAccounted DEF Careless
    <2>9. QED
      BY <2>2, <2>3, <2>4, <2>5, <2>6, <2>7, <2>8
  <1> HIDE DEF s
  <1>5. QED
    BY <1>2, <1>3, <1>4, TokensAside

\* The steps of provisioning and revocation.
LEMMA TokenStepsTried ==
    ASSUME IInv, TInv, NEW p \in Proc, Alone(p), present # "absent",
           \/ \E t \in Token : RevokeToken(p, t) \/ IssueToken(p, t)
           \/ RecordAccessor(p) \/ DropAccessors(p)
    PROVE  TInv'
  <1>1. /\ Accounted(proc[p], tokens, doc.closed) /\ proc[p] \in ProcState
        /\ tokens \in [Token -> TokenFate]
        /\ \A t \in Token : tokens[t] = "recorded" => t \in accessors /\ ~doc.closed
    BY DEF IInv, ProcOK, StoreOK, TInv, TokensTriedByClose
  <1>2. ASSUME NEW t \in Token, RevokeToken(p, t)
        PROVE  TInv'
    <2> DEFINE s == [proc[p] EXCEPT !.todo = @ \ {t}]
    <2>1. s.pc = "revoking" /\ s.todo = proc[p].todo \ {t}
      BY <1>1, <1>2 DEF RevokeToken, ProcState
    <2>2. \A u \in Token : tokens'[u] = "recorded" => u # t /\ tokens[u] = "recorded"
      BY <1>1, <1>2 DEF RevokeToken
    <2>3. Accounted(s, tokens', doc'.closed)
      BY <1>1, <1>2, <2>1, <2>2 DEF Accounted, RevokeToken
    <2>4. TokensTriedByClose' /\ Goto(p, s) /\ present' # "absent"
      BY <1>1, <1>2, <2>2 DEF TokensTriedByClose, RevokeToken
    <2> HIDE DEF s
    <2>5. QED
      BY <2>3, <2>4, AloneAccounted
  <1>3. ASSUME NEW t \in Token, IssueToken(p, t)
        PROVE  TInv'
    <2> DEFINE s == [Idle EXCEPT !.pc = "record", !.todo = {t}]
    <2>1. s.pc = "record" /\ ~doc.closed
      BY <1>1, <1>3 DEF Idle, IssueToken, Accounted
    <2>2. Accounted(s, tokens', doc'.closed)
      BY <1>3, <2>1 DEF Accounted, IssueToken
    <2>3. TokensTriedByClose' /\ Goto(p, s) /\ present' # "absent"
      BY <1>1, <1>3 DEF TokensTriedByClose, IssueToken
    <2> HIDE DEF s
    <2>4. QED
      BY <2>2, <2>3, AloneAccounted
  <1>4. CASE RecordAccessor(p)
    <2>1. ~doc.closed
      BY <1>1, <1>4 DEF RecordAccessor, Accounted
    <2>2. TokensTriedByClose'
      BY <1>1, <1>4, <2>1 DEF TokensTriedByClose, RecordAccessor
    <2>3. Accounted(Idle, tokens', doc'.closed)
      BY IdleIsFine DEF Accounted
    <2>4. QED
      BY <1>4, <2>2, <2>3, AloneAccounted DEF RecordAccessor
  <1>5. CASE DropAccessors(p)
    <2>1. \A t \in Token : tokens[t] # "recorded"
      BY <1>1, <1>5 DEF DropAccessors, Accounted
    <2>2. PICK s : Goto(p, s) /\ s.pc \in {"builds", "close"}
      <3>1. [proc[p] EXCEPT !.pc = "builds",
                            !.builds = SuccessfulBuilds(proc[p].copy)].pc = "builds"
        BY <1>1 DEF ProcState
      <3>2. Settled([proc[p] EXCEPT !.pc = "close"]).pc = "close"
        BY <1>1 DEF ProcState, Settled
      <3>3. QED
        BY <1>5, <3>1, <3>2 DEF DropAccessors
    <2>3. Accounted(s, tokens', doc'.closed) /\ TokensTriedByClose'
      BY <1>5, <2>1, <2>2 DEF Accounted, TokensTriedByClose, DropAccessors
    <2>4. QED
      BY <1>5, <2>2, <2>3, AloneAccounted DEF DropAccessors
  <1>6. QED
    BY <1>2, <1>3, <1>4, <1>5

\* The intention is closed when no recorded token is left.
LEMMA CloseTried ==
    ASSUME IInv, TInv, NEW p \in Proc, Alone(p), present # "absent", CloseIntention(p)
    PROVE  TInv'
  <1>1. \A t \in Token : tokens[t] # "recorded"
    BY DEF CloseIntention, TInv, Accounted
  <1>2. TokensTriedByClose' /\ Accounted(Idle, tokens', doc'.closed)
    BY <1>1, IdleIsFine DEF TokensTriedByClose, CloseIntention, Accounted
  <1>3. QED
    BY <1>2, AloneAccounted DEF CloseIntention

\* Every step of the serial specification keeps the account.
LEMMA SerialTried ==
    ASSUME IInv, TInv, [SerialNext]_vars
    PROVE  TInv'
  <1>1. CASE UNCHANGED vars
    BY <1>1 DEF vars, TInv, TokensTriedByClose, Accounted
  <1>2. CASE Environment
    <2>1. tokens' = tokens /\ accessors' = accessors /\ proc' = proc
      BY <1>2 DEF Environment, Open, TimePasses, CleanupTransient
    <2>2. CASE Open
      <3>1. \A t \in Token : tokens[t] # "recorded"
        BY <2>2 DEF Open, TInv
      <3>2. \A p \in Proc : proc[p].pc = "idle"
        BY <2>2 DEF Open, IInv, ProcOK
      <3>3. QED
        BY <2>1, <3>1, <3>2 DEF TInv, TokensTriedByClose, Accounted
    <2>3. CASE TimePasses \/ CleanupTransient
      <3>1. doc' = doc /\ present' # "absent"
        BY <2>3 DEF TimePasses, CleanupTransient
      <3>2. QED
        BY <2>1, <3>1 DEF TInv, TokensTriedByClose, Accounted
    <2>4. QED
      BY <1>2, <2>2, <2>3 DEF Environment
  <1>3. ASSUME NEW p \in Proc, Alone(p), Step(p)
        PROVE  TInv'
    <2>1. CASE BeginRequest(p) \/ BeginSweep(p)
      BY <1>3, <2>1, BeginTried
    <2>2. CASE Continue(p) \/ Crash(p)
      <3>1. proc[p].pc # "idle"
        BY <2>2 DEF Continue, Crash, FlushAnswered, AddArtifact, FlushUnderway,
                    ReadAccessors, DropAccessors, RevokeToken, IssueToken,
                    RegisterBuild, BuildsRegistered, SyncGraph, CloseIntention,
                    PatchAccepted, PatchRejected, PatchFailed, IssueFails, RecordAccessor
      <3>2. present # "absent"
        BY <3>1, BusyIsPresent
      <3>3. QED
        BY <1>3, <2>2, <3>2, OtherStepsTried, TokenStepsTried, CloseTried DEF Continue
    <2>3. QED
      BY <1>3, <2>1, <2>2 DEF Step
  <1>4. QED
    BY <1>1, <1>2, <1>3 DEF SerialNext

(* When handlers do not overlap, a recorded token is neither forgotten nor  *)
(* left untried by the close, through failing revocations and crashes.      *)
THEOREM RecordedAreTried == SerialSpec => []TokensTriedByClose
  <1>1. Init => TInv
    BY DEF Init, TInv, TokensTriedByClose, Accounted, Idle
  <1>2. [SerialNext]_vars => [Next]_vars
    BY DEF SerialNext, Next
  <1>3. IInv /\ [SerialNext]_vars => IInv'
    BY <1>2, NextKeeps DEF Kept
  <1>4. IInv /\ TInv /\ [SerialNext]_vars => TInv'
    BY SerialTried
  <1>5. TInv => TokensTriedByClose
    BY DEF TInv
  <1>6. QED
    BY InitIInv, <1>1, <1>3, <1>4, <1>5, PTL DEF SerialSpec

-----------------------------------------------------------------------------
(* The serial specification implements IntentionPromise.  What the abstract *)
(* state does not have is the copy of the one process that runs: it agrees  *)
(* with the document except in the fields it still has to write, and in     *)
(* those it is ahead of the document.                                       *)

\* From the actions of one document to those of another nothing goes back.
Ahead(from, to) ==
    \A a \in Action :
       /\ from[a].lifecycle = "started" => to[a].lifecycle # "initialized"
       /\ from[a].lifecycle = "ended" => to[a].lifecycle = "ended"
       /\ from[a].artifacts <= to[a].artifacts /\ to[a].artifacts <= 1

Fresh(s, d) ==
    /\ "actions" \in s.dirty \/ s.copy.actions = d.actions
    /\ "outcome" \in s.dirty \/ s.copy.outcome = d.outcome
    /\ Ahead(d.actions, s.copy.actions)

NoneStarted(actions) == \A a \in Action : actions[a].lifecycle # "started"

BuildsDone(actions, besides) ==
    \A b \in Build \ besides : actions[b].outcome = "success" => actions[b].artifacts = 1

Promised(s, d, g) ==
    /\ s.pc # "idle" => ~d.closed
    /\ s.pc = "register" => \A a \in s.action : d.actions[a].artifacts = 0
    /\ s.pc \in Finalizer \union {"flush", "patch"} => Fresh(s, d)
    /\ s.pc \in Finalizer => NoneStarted(s.copy.actions)
    /\ s.pc = "builds" => BuildsDone(s.copy.actions, s.builds)
    /\ s.pc \in {"sync", "close"} =>
          /\ s.copy.outcome = s.outcome
          /\ s.outcome = "success" => BuildsDone(s.copy.actions, {})
    /\ s.pc = "close" /\ s.outcome = "success" => g

RInv ==
    /\ \A a \in Action : doc.actions[a].artifacts <= 1
    /\ present = "absent" => doc = NewDoc({})
    /\ \A p \in Proc : Promised(proc[p], doc, synced)

\* A step that keeps the above, and that the promise allows.
Faithful == RInv' /\ [Promise!Next]_(Promise!vars)

\* A step of the only process that runs.
LEMMA AloneKeepsPromise ==
    ASSUME IInv, RInv, NEW p \in Proc, Alone(p), NEW s, Goto(p, s),
           Promised(s, doc', synced'), present' = present, present # "absent",
           \A a \in Action : doc'.actions[a].artifacts <= 1
    PROVE  RInv'
  <1>1. ASSUME NEW q \in Proc PROVE Promised(proc'[q], doc', synced')
    <2>1. CASE q = p
      BY <2>1 DEF IInv, ProcOK, Goto
    <2>2. CASE q # p
      <3>1. proc'[q] = proc[q] /\ proc[q].pc = "idle"
        BY <2>2 DEF Alone, Goto, IInv, ProcOK
      <3>2. QED
        BY <3>1 DEF Promised, Finalizer
    <2>3. QED
      BY <2>1, <2>2
  <1>2. QED
    BY <1>1 DEF RInv

\* A step that writes nothing.
LEMMA ReadKeepsPromise ==
    ASSUME IInv, RInv, NEW p \in Proc, Alone(p), NEW s, Goto(p, s),
           Promised(s, doc, synced), present' = present, present # "absent",
           doc' = doc, synced' = synced
    PROVE  Faithful
  <1>1. RInv'
    BY AloneKeepsPromise DEF RInv
  <1>2. UNCHANGED Promise!vars
    BY DEF Promise!vars
  <1>3. QED
    BY <1>1, <1>2 DEF Faithful

\* A write of the document, in the terms of the promise.
LEMMA WriteIsPromised ==
    ASSUME doc \in Doc, doc' \in Doc, present = "stored", present' = "stored",
           ~doc.closed, synced' = synced, Ahead(doc.actions, doc'.actions),
           doc'.closed =>
              /\ doc'.outcome # "none" /\ NoneStarted(doc'.actions)
              /\ doc'.outcome = "success" => synced /\ BuildsDone(doc'.actions, {})
    PROVE  Promise!Write
  <1>1. Promise!Forward
    <2> SUFFICES ASSUME NEW a \in Action
                 PROVE  /\ Promise!Rank(doc.actions[a].lifecycle)
                              <= Promise!Rank(doc'.actions[a].lifecycle)
                        /\ doc.actions[a].artifacts <= doc'.actions[a].artifacts
                        /\ doc'.actions[a].artifacts <= 1
      BY DEF Promise!Forward
    <2>1. doc.actions[a].lifecycle \in Lifecycle /\ doc'.actions[a].lifecycle \in Lifecycle
      BY DEF Doc, ActionState
    <2>2. /\ Promise!Rank("initialized") = 0
          /\ Promise!Rank("started") = 1
          /\ Promise!Rank("ended") = 2
      BY DEF Promise!Rank
    <2>3. Promise!Rank(doc.actions[a].lifecycle) <= Promise!Rank(doc'.actions[a].lifecycle)
      BY <2>1, <2>2 DEF Ahead, Lifecycle
    <2>4. QED
      BY <2>3 DEF Ahead
  <1>2. ASSUME doc'.closed
        PROVE  Promise!Settled(doc'.outcome, [a \in Action |-> doc'.actions[a].lifecycle],
                  {a \in Action : doc'.actions[a].outcome = "success"},
                  [a \in Action |-> doc'.actions[a].artifacts], synced)
    BY <1>2, ActionKinds DEF Promise!Settled, NoneStarted, BuildsDone
  <1>3. QED
    BY <1>1, <1>2 DEF Promise!Write

\* One that leaves the intention open and its writer as it says.
LEMMA WriteKeepsPromise ==
    ASSUME IInv, RInv, NEW p \in Proc, Alone(p), NEW s, Goto(p, s),
           Promised(s, doc', synced'), present' = present, present = "stored",
           ~doc.closed, doc' \in Doc, synced' = synced,
           Ahead(doc.actions, doc'.actions),
           doc'.closed =>
              /\ doc'.outcome # "none" /\ NoneStarted(doc'.actions)
              /\ doc'.outcome = "success" => synced /\ BuildsDone(doc'.actions, {})
    PROVE  Faithful
  <1>1. RInv'
    BY AloneKeepsPromise DEF Ahead
  <1>2. Promise!Write
    BY WriteIsPromised DEF IInv, DocOK
  <1>3. QED
    BY <1>1, <1>2 DEF Faithful, Promise!Next

-----------------------------------------------------------------------------
(* Copies.                                                                  *)

\* What a busy process knows.
LEMMA BusyFacts ==
    ASSUME IInv, RInv, NEW p \in Proc, proc[p].pc # "idle"
    PROVE  /\ present = "stored" /\ ~doc.closed /\ doc \in Doc
           /\ proc[p] \in ProcState /\ proc[p].copy \in Doc
           /\ proc[p].copy.actions \in [Action -> ActionState]
           /\ doc.actions \in [Action -> ActionState]
           /\ Copied(proc[p], doc) /\ Staged(proc[p]) /\ Promised(proc[p], doc, synced)
  <1>1. Promised(proc[p], doc, synced) /\ Copied(proc[p], doc) /\ Staged(proc[p])
    BY DEF RInv, IInv, ProcOK
  <1>2. ~doc.closed
    BY <1>1 DEF Promised
  <1>3. present = "stored"
    BY <1>2 DEF IInv, StoreOK, DocOK, ProcOK
  <1>4. doc \in Doc /\ proc[p] \in ProcState
    BY <1>1 DEF IInv, DocOK, Copied
  <1>5. QED
    BY <1>1, <1>2, <1>3, <1>4 DEF ProcState, Doc

\* An idle process owes nothing.
LEMMA IdlePromised ==
    ASSUME NEW d, NEW g
    PROVE  Promised(Idle, d, g)
  BY IdleIsFine DEF Promised, Finalizer

\* A copy just loaded.
LEMMA LoadedFresh ==
    ASSUME IInv, RInv, NEW pc \in PC
    PROVE  Fresh(Loaded(pc), doc) /\ Copied(Loaded(pc), doc) /\ Loaded(pc).pc = pc
           /\ Loaded(pc).copy = doc
  <1>1. doc \in Doc
    BY DEF IInv, DocOK
  <1>2. Copied(Loaded(pc), doc) /\ Loaded(pc).pc = pc /\ Loaded(pc).copy = doc
    BY <1>1, LoadedCopied
  <1>3. Ahead(doc.actions, doc.actions)
    <2>1. ASSUME NEW a \in Action
          PROVE  /\ doc.actions[a].artifacts <= doc.actions[a].artifacts
                 /\ doc.actions[a].artifacts <= 1
      <3>1. doc.actions[a].artifacts \in Nat
        BY <1>1 DEF Doc, ActionState
      <3>2. QED
        BY <3>1 DEF RInv
    <2>2. "started" # "initialized"
      OBVIOUS
    <2>3. QED
      BY <2>1, <2>2, Zenon DEF Ahead
  <1>4. QED
    BY <1>2, <1>3 DEF Fresh

\* A copy with other actions, which are ahead as well.
LEMMA WithActionsFresh ==
    ASSUME NEW d, NEW s, Copied(s, d), Fresh(s, d),
           NEW actions \in [Action -> ActionState], Ahead(d.actions, actions)
    PROVE  LET n == WithActions(s, actions) IN
           /\ Fresh(n, d) /\ n.copy.actions = actions
           /\ n.pc = s.pc /\ n.outcome = s.outcome /\ n.builds = s.builds
           /\ n.copy.outcome = s.copy.outcome
  <1>1. s \in ProcState /\ s.copy \in Doc
    BY DEF Copied, ProcState
  <1> DEFINE n == WithActions(s, actions)
  <1>2. /\ n.copy.actions = actions /\ n.pc = s.pc /\ n.outcome = s.outcome
        /\ n.builds = s.builds /\ n.copy.outcome = s.copy.outcome
        /\ n.dirty = s.dirty \union (IF actions = s.copy.actions THEN {} ELSE {"actions"})
    BY <1>1 DEF WithActions, ProcState, Doc
  <1>3. "actions" \in n.dirty \/ n.copy.actions = d.actions
    BY <1>2 DEF Fresh
  <1>4. "outcome" \in n.dirty \/ n.copy.outcome = d.outcome
    BY <1>2 DEF Fresh
  <1>5. QED
    BY <1>2, <1>3, <1>4 DEF Fresh

\* One action moves on.
LEMMA WithActionFresh ==
    ASSUME NEW d \in Doc, NEW s, Copied(s, d), Fresh(s, d), NEW a \in Action, NEW value \in ActionState,
           s.copy.actions[a].lifecycle = "started" => value.lifecycle # "initialized",
           s.copy.actions[a].lifecycle = "ended" => value.lifecycle = "ended",
           s.copy.actions[a].artifacts <= value.artifacts, value.artifacts <= 1
    PROVE  LET n == WithAction(s, a, value) IN
           /\ Fresh(n, d)
           /\ \A c \in Action : n.copy.actions[c] = IF c = a THEN value ELSE s.copy.actions[c]
           /\ n.pc = s.pc /\ n.outcome = s.outcome /\ n.builds = s.builds
           /\ n.copy.outcome = s.copy.outcome
  <1> DEFINE actions == [s.copy.actions EXCEPT ![a] = value]
  <1>1. s.copy.actions \in [Action -> ActionState]
    BY DEF Copied, ProcState, Doc
  <1>2. actions \in [Action -> ActionState]
    BY <1>1
  <1>3. Ahead(d.actions, actions)
    <2> SUFFICES ASSUME NEW c \in Action
                 PROVE  /\ d.actions[c].lifecycle = "started"
                              => actions[c].lifecycle # "initialized"
                        /\ d.actions[c].lifecycle = "ended" => actions[c].lifecycle = "ended"
                        /\ d.actions[c].artifacts <= actions[c].artifacts
                        /\ actions[c].artifacts <= 1
      BY DEF Ahead
    <2>1. /\ d.actions[c].lifecycle = "started" => s.copy.actions[c].lifecycle # "initialized"
          /\ d.actions[c].lifecycle = "ended" => s.copy.actions[c].lifecycle = "ended"
          /\ d.actions[c].artifacts <= s.copy.actions[c].artifacts
          /\ s.copy.actions[c].artifacts <= 1
      BY DEF Fresh, Ahead
    <2>2. CASE c # a
      BY <1>1, <2>1, <2>2
    <2>3. CASE c = a
      <3>1. actions[c] = value
        BY <1>1, <2>3
      <3>2. s.copy.actions[a].lifecycle \in Lifecycle
        BY <1>1 DEF ActionState
      <3>3. s.copy.actions[a].artifacts \in Nat /\ value.artifacts \in Nat
        BY <1>1 DEF ActionState
      <3>4. d.actions[a].artifacts \in Nat
        BY DEF Doc, ActionState
      <3>5. QED
        BY <2>1, <2>3, <3>1, <3>2, <3>3, <3>4 DEF Lifecycle
    <2>4. QED
      BY <2>2, <2>3
  <1>4. \A c \in Action : actions[c] = IF c = a THEN value ELSE s.copy.actions[c]
    BY <1>1
  <1>5. WithAction(s, a, value) = WithActions(s, actions)
    BY DEF WithAction
  <1> HIDE DEF actions
  <1>6. QED
    BY <1>2, <1>3, <1>4, <1>5, WithActionsFresh

\* The finalizer's copy: no started action is left in it.
LEMMA FinalizingFresh ==
    ASSUME NEW d, NEW s, Copied(s, d), Fresh(s, d), NEW o \in Verdict
    PROVE  LET n == Finalizing(s, o) IN
           Fresh(n, d) /\ n.pc = "revoke" /\ NoneStarted(n.copy.actions)
  <1> DEFINE t == [s EXCEPT !.pc = "revoke", !.outcome = o]
             actions == Ending(s.copy.actions, o)
  <1>1. s \in ProcState /\ s.copy.actions \in [Action -> ActionState]
    BY DEF Copied, ProcState, Doc
  <1>2. t \in ProcState /\ t.copy = s.copy /\ t.dirty = s.dirty /\ t.pc = "revoke"
    BY <1>1 DEF ProcState, PC
  <1>3. Copied(t, d) /\ Fresh(t, d)
    BY <1>2 DEF Copied, Fresh
  <1>4. actions \in [Action -> ActionState]
    BY <1>1, EndedType
  <1>5. ASSUME NEW a \in Action
        PROVE  /\ actions[a].lifecycle = IF s.copy.actions[a].lifecycle = "started"
                                         THEN "ended" ELSE s.copy.actions[a].lifecycle
               /\ actions[a].artifacts = s.copy.actions[a].artifacts
    BY <1>1 DEF Ending, Ended, ActionState
  <1>6. Ahead(d.actions, actions) /\ NoneStarted(actions)
    BY <1>5 DEF Fresh, Ahead, NoneStarted
  <1>7. Finalizing(s, o) = WithActions(t, actions)
    BY DEF Finalizing
  <1> HIDE DEF t, actions
  <1>8. QED
    BY <1>2, <1>3, <1>4, <1>6, <1>7, WithActionsFresh

LEMMA FinalizingPromised ==
    ASSUME NEW d, NEW g, NEW s, Copied(s, d), Fresh(s, d), NEW o \in Verdict, ~d.closed
    PROVE  Promised(Finalizing(s, o), d, g)
  BY FinalizingFresh DEF Promised, Finalizer

-----------------------------------------------------------------------------
(* What a process does to begin: it reads, and finds the intention open.    *)

\* A handler with a copy in which one action has moved on.
LEMMA AnsweredPromised ==
    ASSUME IInv, RInv, ~doc.closed, NEW a \in Action, NEW value \in ActionState,
           NEW pc \in {"flush", "patch"},
           doc.actions[a].lifecycle = "started" => value.lifecycle # "initialized",
           doc.actions[a].lifecycle = "ended" => value.lifecycle = "ended",
           doc.actions[a].artifacts <= value.artifacts, value.artifacts <= 1
    PROVE  Promised(WithAction(Loaded(pc), a, value), doc, synced)
  <1>1. doc \in Doc
    BY DEF IInv, DocOK
  <1>2. Fresh(Loaded(pc), doc) /\ Copied(Loaded(pc), doc) /\ Loaded(pc).pc = pc
        /\ Loaded(pc).copy = doc
    BY LoadedFresh DEF PC
  <1> DEFINE t == Loaded(pc)
             n == WithAction(t, a, value)
  <1>3. Fresh(n, doc) /\ n.pc = pc
    <2>1. Fresh(t, doc) /\ Copied(t, doc) /\ t.pc = pc
      BY <1>2
    <2>2. /\ t.copy.actions[a].lifecycle = "started" => value.lifecycle # "initialized"
          /\ t.copy.actions[a].lifecycle = "ended" => value.lifecycle = "ended"
          /\ t.copy.actions[a].artifacts <= value.artifacts
      BY <1>2
    <2> HIDE DEF t
    <2>3. QED
      BY <1>1, <2>1, <2>2, WithActionFresh
  <1> HIDE DEF n
  <1>4. Promised(n, doc, synced)
    BY <1>3 DEF Promised, Finalizer
  <1>5. QED
    BY <1>4 DEF n, t

LEMMA BeginFaithful ==
    ASSUME IInv, RInv, NEW p \in Proc, Alone(p), BeginRequest(p) \/ BeginSweep(p)
    PROVE  Faithful
  <1>1. present = "stored" /\ ~doc.closed /\ StoreUntouched /\ doc \in Doc
    BY DEF BeginRequest, BeginSweep, SweepExpired, StartAction, EndAction, RegisterArtifact,
           Patch, PatchInvalid, Provision, Close, Findable, IInv, DocOK
  <1>2. ASSUME NEW a \in Action
        PROVE  /\ doc.actions[a] \in ActionState /\ doc.actions[a].artifacts \in Nat
               /\ doc.actions[a].artifacts <= 1
               /\ doc.actions[a].artifacts <= doc.actions[a].artifacts
    <2>1. doc.actions[a] \in ActionState /\ doc.actions[a].artifacts \in Nat
      BY <1>1 DEF Doc, ActionState
    <2>2. QED
      BY <2>1 DEF RInv
  <1>3. ASSUME NEW s, Goto(p, s), Promised(s, doc, synced)
        PROVE  Faithful
    BY <1>1, <1>3, ReadKeepsPromise DEF StoreUntouched
  <1>4. ASSUME NEW o \in Verdict, Close(p, o)
        PROVE  Faithful
    <2>1. Promised(Finalizing(Loaded("revoke"), o), doc, synced)
      BY <1>1, LoadedFresh, FinalizingPromised DEF PC
    <2>2. QED
      BY <1>3, <1>4, <2>1 DEF Close
  <1>5. ASSUME NEW a \in Action, StartAction(p, a)
        PROVE  Faithful
    <2> DEFINE value == [doc.actions[a] EXCEPT !.lifecycle = "started"]
    <2>1. /\ value \in ActionState /\ value.lifecycle = "started"
          /\ value.artifacts = doc.actions[a].artifacts
      BY <1>2 DEF ActionState, Lifecycle
    <2>2. doc.actions[a].lifecycle \notin {"started", "ended"}
      BY <1>5 DEF StartAction, MayStart
    <2> HIDE DEF value
    <2>3. Promised(WithAction(Loaded("flush"), a, value), doc, synced)
      BY <1>1, <1>2, <2>1, <2>2, AnsweredPromised
    <2>4. QED
      BY <1>3, <1>5, <2>3 DEF StartAction, value
  <1>6. ASSUME NEW a \in Action, NEW o \in ClientOutcome, EndAction(p, a, o)
        PROVE  Faithful
    <2> DEFINE value == Ended(doc.actions[a], o)
    <2>1. /\ value \in ActionState /\ value.lifecycle = "ended"
          /\ value.artifacts = doc.actions[a].artifacts
      BY <1>2, ClientOutcomes DEF Ended, ActionState, Lifecycle, Verdict
    <2> HIDE DEF value
    <2>2. Promised(WithAction(Loaded("flush"), a, value), doc, synced)
      BY <1>1, <1>2, <2>1, AnsweredPromised
    <2>3. QED
      BY <1>3, <1>6, <2>2 DEF EndAction, value
  <1>7. ASSUME NEW a \in Action, Patch(p, a)
        PROVE  Faithful
    <2> DEFINE value == [doc.actions[a] EXCEPT !.patched = TRUE]
    <2>1. /\ value \in ActionState /\ value.lifecycle = doc.actions[a].lifecycle
          /\ value.artifacts = doc.actions[a].artifacts
      BY <1>2 DEF ActionState
    <2> HIDE DEF value
    <2>2. doc.actions[a].lifecycle = "started"
      BY <1>7 DEF Patch
    <2>3. Promised(WithAction(Loaded("patch"), a, value), doc, synced)
      BY <1>1, <1>2, <2>1, <2>2, AnsweredPromised
    <2>4. QED
      BY <1>3, <1>7, <2>3 DEF Patch, value
  <1>8. ASSUME NEW a \in Action, RegisterArtifact(p, a)
        PROVE  Faithful
    <2> DEFINE s == [Idle EXCEPT !.pc = "register", !.action = {a}]
    <2>1. s.pc = "register" /\ s.action = {a} /\ doc.actions[a].artifacts = 0
      BY <1>8 DEF Idle, RegisterArtifact
    <2>2. Goto(p, s)
      BY <1>8 DEF RegisterArtifact
    <2> HIDE DEF s
    <2>3. Promised(s, doc, synced)
      BY <1>1, <2>1 DEF Promised, Finalizer
    <2>4. QED
      BY <1>3, <2>2, <2>3
  <1>9. ASSUME NEW a \in Action, NEW pc \in {"patchError", "issue"},
               Goto(p, [Idle EXCEPT !.pc = pc, !.action = {a}])
        PROVE  Faithful
    <2> DEFINE s == [Idle EXCEPT !.pc = pc, !.action = {a}]
    <2>1. s.pc = pc
      BY DEF Idle
    <2> HIDE DEF s
    <2>2. Promised(s, doc, synced)
      BY <1>1, <2>1 DEF Promised, Finalizer
    <2>3. QED
      BY <1>3, <1>9, <2>2 DEF s
  <1>10. CASE BeginSweep(p)
    BY <1>4, <1>10 DEF BeginSweep, SweepExpired, Verdict
  <1>11. CASE BeginRequest(p)
    BY <1>4, <1>5, <1>6, <1>7, <1>8, <1>9, <1>11, ActionKinds, ClientOutcomes
       DEF BeginRequest, PatchInvalid, Provision, Verdict
  <1>12. QED
    BY <1>10, <1>11

-----------------------------------------------------------------------------
(* What it does next.                                                       *)

\* A flush leaves the document as the copy is.
LEMMA WriteFacts ==
    ASSUME IInv, RInv, NEW p \in Proc, Write(p),
           proc[p].pc \in Finalizer \union {"flush", "patch"}
    PROVE  /\ doc' \in Doc /\ ~doc'.closed
           /\ doc'.actions = proc[p].copy.actions
           /\ doc'.outcome = proc[p].copy.outcome
           /\ Ahead(doc.actions, doc'.actions)
  <1>1. proc[p].pc # "idle"
    BY DEF Finalizer
  <1>2. /\ present = "stored" /\ ~doc.closed /\ doc \in Doc /\ Fresh(proc[p], doc)
        /\ proc[p].copy \in Doc
    BY <1>1, BusyFacts DEF Promised
  <1>3. doc' \in Doc /\ ~doc'.closed
    BY <1>2, WriteKeeps
  <1>4. doc' = Merge(proc[p].copy, proc[p].dirty, doc)
    BY <1>2 DEF Write
  <1>5. doc'.actions = proc[p].copy.actions /\ doc'.outcome = proc[p].copy.outcome
    BY <1>2, <1>4 DEF Merge, Fresh
  <1>6. QED
    BY <1>2, <1>3, <1>5 DEF Fresh

\* The last write of a handler that has answered, or thrown.
LEMMA LastWriteFaithful ==
    ASSUME IInv, RInv, NEW p \in Proc, Alone(p), FlushAnswered(p) \/ PatchAccepted(p)
    PROVE  Faithful
  <1>1. /\ Write(p) /\ Goto(p, Idle) /\ proc[p].pc \in {"flush", "patch"}
        /\ present' = present /\ synced' = synced
    BY DEF FlushAnswered, PatchAccepted
  <1>2. present = "stored" /\ ~doc.closed
    BY <1>1, BusyFacts
  <1>3. doc' \in Doc /\ ~doc'.closed /\ Ahead(doc.actions, doc'.actions)
    BY <1>1, WriteFacts
  <1>4. QED
    BY <1>1, <1>2, <1>3, IdlePromised, WriteKeepsPromise

\* A write of the finalizer on its way.
LEMMA FlushUnderwayFaithful ==
    ASSUME IInv, RInv, NEW p \in Proc, Alone(p), FlushUnderway(p)
    PROVE  Faithful
  <1> DEFINE s == [proc[p] EXCEPT !.dirty = {}]
  <1>1. /\ Write(p) /\ Goto(p, s) /\ proc[p].pc \in Finalizer /\ proc[p].pc # "idle"
        /\ present' = present /\ synced' = synced
    BY DEF FlushUnderway, Finalizer
  <1>2. present = "stored" /\ ~doc.closed /\ proc[p] \in ProcState /\ proc[p].copy \in Doc
        /\ Promised(proc[p], doc, synced)
    BY <1>1, BusyFacts
  <1>3. /\ doc' \in Doc /\ ~doc'.closed /\ Ahead(doc.actions, doc'.actions)
        /\ doc'.actions = proc[p].copy.actions /\ doc'.outcome = proc[p].copy.outcome
    BY <1>1, WriteFacts
  <1>4. /\ s.copy = proc[p].copy /\ s.pc = proc[p].pc /\ s.outcome = proc[p].outcome
        /\ s.builds = proc[p].builds /\ s.action = proc[p].action
    BY <1>2 DEF ProcState
  <1> HIDE DEF s
  <1>5. Ahead(doc'.actions, s.copy.actions)
    <2>1. ASSUME NEW a \in Action
          PROVE  /\ doc'.actions[a].artifacts <= doc'.actions[a].artifacts
                 /\ doc'.actions[a].artifacts <= 1
      <3>1. doc'.actions[a].artifacts \in Nat
        BY <1>3 DEF Doc, ActionState
      <3>2. QED
        BY <1>3, <3>1 DEF Ahead
    <2>2. "started" # "initialized"
      OBVIOUS
    <2>3. QED
      BY <1>3, <1>4, <2>1, <2>2, Zenon DEF Ahead
  <1>6. Promised(s, doc', synced')
    BY <1>1, <1>2, <1>3, <1>4, <1>5 DEF Promised, Fresh, Finalizer
  <1>7. QED
    BY <1>1, <1>2, <1>3, <1>6, WriteKeepsPromise

\* A process that goes on with its copy as it is.
LEMMA GoOnFaithful ==
    ASSUME IInv, RInv, NEW p \in Proc, Alone(p), proc[p].pc # "idle",
           NEW s, Goto(p, s), Promised(s, doc, synced),
           present' = present, doc' = doc, synced' = synced
    PROVE  Faithful
  BY BusyFacts, ReadKeepsPromise

LEMMA AddArtifactFaithful ==
    ASSUME IInv, RInv, NEW p \in Proc, Alone(p), AddArtifact(p)
    PROVE  Faithful
  <1>1. proc[p].pc = "register" /\ StoreUntouched
    BY DEF AddArtifact
  <1>2. ~doc.closed /\ doc \in Doc /\ proc[p] \in ProcState /\ Promised(proc[p], doc, synced)
    BY <1>1, BusyFacts
  <1>3. PICK a \in proc[p].action :
           \/ Goto(p, WithAction(Loaded("flush"), a, WithArtifact(doc.actions[a])))
           \/ Goto(p, Idle)
    BY DEF AddArtifact
  <1> DEFINE value == WithArtifact(doc.actions[a])
  <1>4. a \in Action /\ doc.actions[a].artifacts = 0 /\ doc.actions[a] \in ActionState
    BY <1>1, <1>2 DEF ProcState, Promised, Doc
  <1>5. /\ value \in ActionState /\ value.artifacts = 1
        /\ value.lifecycle = doc.actions[a].lifecycle
    BY <1>4 DEF WithArtifact, ActionState
  <1> HIDE DEF value
  <1>6. Promised(WithAction(Loaded("flush"), a, value), doc, synced)
    BY <1>2, <1>4, <1>5, AnsweredPromised
  <1>7. QED
    BY <1>1, <1>3, <1>6, IdlePromised, GoOnFaithful DEF StoreUntouched, value

\* Steps that change neither the copy nor what the finalizer has done of it.
LEMMA CopyStaysFaithful ==
    ASSUME IInv, RInv, NEW p \in Proc, Alone(p), proc[p].pc # "idle",
           NEW s, Goto(p, s), s.copy = proc[p].copy, s.dirty = proc[p].dirty,
           s.outcome = proc[p].outcome,
           \/ s.pc \in {"revoke", "revoking"} /\ proc[p].pc \in {"revoke", "revoking"}
           \/ s.pc = "flush" /\ proc[p].pc = "builds"
           \/ s.pc \in {"record", "idle"},
           present' = present, doc' = doc, synced' = synced
    PROVE  Faithful
  <1>1. Promised(proc[p], doc, synced)
    BY BusyFacts
  <1>2. Promised(s, doc, synced)
    BY <1>1 DEF Promised, Finalizer, Fresh
  <1>3. QED
    BY <1>2, GoOnFaithful

LEMMA TokensFaithful ==
    ASSUME IInv, RInv, NEW p \in Proc, Alone(p),
           \/ ReadAccessors(p) \/ IssueFails(p) \/ RecordAccessor(p) \/ Crash(p)
           \/ \E t \in Token : RevokeToken(p, t) \/ IssueToken(p, t)
    PROVE  Faithful
  <1>1. /\ proc[p].pc # "idle" /\ present' = present /\ doc' = doc /\ synced' = synced
    BY DEF ReadAccessors, IssueFails, RecordAccessor, Crash, RevokeToken, IssueToken,
           StoreUntouched
  <1>2. proc[p] \in ProcState /\ ~doc.closed
    BY <1>1, BusyFacts
  <1>3. CASE IssueFails(p) \/ RecordAccessor(p) \/ Crash(p)
    BY <1>1, <1>3, IdlePromised, GoOnFaithful DEF IssueFails, RecordAccessor, Crash
  <1>4. CASE ReadAccessors(p)
    <2> DEFINE s == [proc[p] EXCEPT !.pc = "revoking", !.todo = RecordedAccessors]
    <2>1. /\ s.copy = proc[p].copy /\ s.dirty = proc[p].dirty
          /\ s.outcome = proc[p].outcome /\ s.pc = "revoking"
      BY <1>2 DEF ProcState
    <2>2. Goto(p, s) /\ proc[p].pc = "revoke"
      BY <1>4 DEF ReadAccessors
    <2> HIDE DEF s
    <2>3. QED
      BY <1>1, <2>1, <2>2, CopyStaysFaithful
  <1>5. ASSUME NEW t \in Token, RevokeToken(p, t)
        PROVE  Faithful
    <2> DEFINE s == [proc[p] EXCEPT !.todo = @ \ {t}]
    <2>1. /\ s.copy = proc[p].copy /\ s.dirty = proc[p].dirty
          /\ s.outcome = proc[p].outcome /\ s.pc = proc[p].pc
      BY <1>2 DEF ProcState
    <2>2. Goto(p, s) /\ proc[p].pc = "revoking"
      BY <1>5 DEF RevokeToken
    <2> HIDE DEF s
    <2>3. QED
      BY <1>1, <2>1, <2>2, CopyStaysFaithful
  <1>6. ASSUME NEW t \in Token, IssueToken(p, t)
        PROVE  Faithful
    <2> DEFINE s == [Idle EXCEPT !.pc = "record", !.todo = {t}]
    <2>1. s.pc = "record"
      BY DEF Idle
    <2>2. Goto(p, s)
      BY <1>6 DEF IssueToken
    <2> HIDE DEF s
    <2>3. Promised(s, doc, synced)
      BY <1>2, <2>1 DEF Promised, Finalizer
    <2>4. QED
      BY <1>1, <2>2, <2>3, GoOnFaithful
  <1>7. QED
    BY <1>3, <1>4, <1>5, <1>6

\* A patch that fails, or is refused, goes on as a close.
LEMMA PatchEndsFaithful ==
    ASSUME IInv, RInv, NEW p \in Proc, Alone(p), PatchRejected(p) \/ PatchFailed(p)
    PROVE  Faithful
  <1>1. /\ proc[p].pc \in {"patch", "patchError"} /\ proc[p].pc # "idle"
        /\ present' = present /\ doc' = doc /\ synced' = synced
    BY DEF PatchRejected, PatchFailed, StoreUntouched
  <1>2. /\ ~doc.closed /\ Copied(proc[p], doc) /\ Promised(proc[p], doc, synced)
        /\ proc[p].copy.actions \in [Action -> ActionState]
    BY <1>1, BusyFacts
  <1>3. CASE PatchRejected(p)
    <2>1. PICK violating \in SUBSET Action :
            Goto(p, Finalizing(WithActions(proc[p],
                      [c \in Action |-> IF c \in violating
                                        THEN [proc[p].copy.actions[c] EXCEPT !.outcome = "rejected"]
                                        ELSE proc[p].copy.actions[c]]), PatchOutcome))
      BY <1>3 DEF PatchRejected
    <2> DEFINE judged == [c \in Action |-> IF c \in violating
                                          THEN [proc[p].copy.actions[c] EXCEPT !.outcome = "rejected"]
                                          ELSE proc[p].copy.actions[c]]
               s == WithActions(proc[p], judged)
    <2>2. judged \in [Action -> ActionState]
      BY <1>2 DEF ActionState, Verdict
    <2>3. ASSUME NEW c \in Action
          PROVE  /\ judged[c].lifecycle = proc[p].copy.actions[c].lifecycle
                 /\ judged[c].artifacts = proc[p].copy.actions[c].artifacts
      BY <1>2 DEF ActionState
    <2> HIDE DEF judged
    <2>4. Fresh(proc[p], doc)
      BY <1>2, <1>3 DEF PatchRejected, Promised
    <2>5. Ahead(doc.actions, judged)
      BY <2>3, <2>4 DEF Fresh, Ahead
    <2>6. Fresh(s, doc) /\ Copied(s, doc)
      BY <1>2, <2>2, <2>4, <2>5, WithActionsFresh, WithActionsCopied
    <2>7. Goto(p, Finalizing(s, PatchOutcome))
      BY <2>1 DEF judged
    <2> HIDE DEF s
    <2>8. Promised(Finalizing(s, PatchOutcome), doc, synced)
      BY <1>2, <2>6, FinalizingPromised DEF PatchOutcome, Verdict
    <2>9. QED
      BY <1>1, <2>7, <2>8, GoOnFaithful
  <1>4. CASE PatchFailed(p)
    <2>1. Promised(Finalizing(Loaded("revoke"), "failure"), doc, synced)
      BY <1>2, LoadedFresh, FinalizingPromised DEF PC, Verdict
    <2>2. Goto(p, Finalizing(Loaded("revoke"), "failure")) \/ Goto(p, Idle)
      BY <1>4 DEF PatchFailed
    <2>3. QED
      BY <1>1, <2>1, <2>2, IdlePromised, GoOnFaithful
  <1>5. QED
    BY <1>3, <1>4

\* The copy shows the outcome, and has to write it if the document does not.
LEMMA SettledFresh ==
    ASSUME NEW d, NEW s \in ProcState, s.copy \in Doc, Fresh(s, d)
    PROVE  LET n == Settled(s) IN
           /\ Fresh(n, d) /\ n.pc = s.pc /\ n.outcome = s.outcome
           /\ n.copy.outcome = s.outcome /\ n.copy.actions = s.copy.actions
  <1> DEFINE n == Settled(s)
  <1>1. /\ n.pc = s.pc /\ n.outcome = s.outcome /\ n.copy.actions = s.copy.actions
        /\ n.copy.outcome = s.outcome
        /\ n.dirty = s.dirty \union (IF s.copy.outcome = s.outcome THEN {} ELSE {"outcome"})
    BY DEF Settled, ProcState, Doc
  <1>2. QED
    BY <1>1 DEF Fresh

\* The copy of the finalizer when the tokens are out of the way.
LEMMA DropAccessorsFaithful ==
    ASSUME IInv, RInv, NEW p \in Proc, Alone(p), DropAccessors(p)
    PROVE  Faithful
  <1>1. /\ proc[p].pc = "revoking" /\ present' = present /\ doc' = doc /\ synced' = synced
    BY DEF DropAccessors
  <1>2. /\ ~doc.closed /\ Promised(proc[p], doc, synced)
        /\ proc[p] \in ProcState /\ proc[p].copy \in Doc
    BY <1>1, BusyFacts
  <1>3. Fresh(proc[p], doc) /\ NoneStarted(proc[p].copy.actions)
    BY <1>1, <1>2 DEF Promised, Finalizer
  <1>4. CASE proc[p].outcome = "success"
    <2> DEFINE s == [proc[p] EXCEPT !.pc = "builds",
                                    !.builds = SuccessfulBuilds(proc[p].copy)]
    <2>1. /\ s.pc = "builds" /\ s.builds = SuccessfulBuilds(proc[p].copy)
          /\ s.copy = proc[p].copy /\ s.dirty = proc[p].dirty
      BY <1>2 DEF ProcState
    <2>2. Goto(p, s)
      BY <1>4 DEF DropAccessors
    <2> HIDE DEF s
    <2>3. BuildsDone(s.copy.actions, s.builds)
      BY <2>1 DEF BuildsDone, SuccessfulBuilds
    <2>4. Promised(s, doc, synced)
      BY <1>2, <1>3, <2>1, <2>3 DEF Promised, Finalizer, Fresh
    <2>5. QED
      BY <1>1, <2>2, <2>4, GoOnFaithful
  <1>5. CASE proc[p].outcome # "success"
    <2> DEFINE t == [proc[p] EXCEPT !.pc = "close"]
               s == Settled(t)
    <2>1. /\ t \in ProcState /\ t.copy = proc[p].copy /\ t.dirty = proc[p].dirty
          /\ t.pc = "close" /\ t.outcome = proc[p].outcome
      BY <1>2 DEF ProcState, PC
    <2>2. Fresh(t, doc) /\ t.copy \in Doc
      BY <1>2, <1>3, <2>1 DEF Fresh
    <2>3. Goto(p, s)
      BY <1>5 DEF DropAccessors
    <2> HIDE DEF t
    <2>4. /\ Fresh(s, doc) /\ s.pc = "close" /\ s.outcome # "success"
          /\ s.copy.outcome = s.outcome /\ NoneStarted(s.copy.actions)
      BY <1>3, <1>5, <2>1, <2>2, SettledFresh
    <2> HIDE DEF s
    <2>5. Promised(s, doc, synced)
      BY <1>2, <2>4 DEF Promised, Finalizer
    <2>6. QED
      BY <1>1, <2>3, <2>5, GoOnFaithful
  <1>6. QED
    BY <1>4, <1>5

\* A build gets its first and only artifact, or the finalizer gives up.
LEMMA RegisterBuildFaithful ==
    ASSUME IInv, RInv, NEW p \in Proc, Alone(p), NEW b \in Build, RegisterBuild(p, b)
    PROVE  Faithful
  <1>1. /\ proc[p].pc = "builds" /\ b \in Action
        /\ present' = present /\ doc' = doc /\ synced' = synced
    BY ActionKinds DEF RegisterBuild, StoreUntouched
  <1>2. /\ ~doc.closed /\ doc \in Doc /\ Promised(proc[p], doc, synced)
        /\ proc[p] \in ProcState /\ proc[p].copy \in Doc /\ Copied(proc[p], doc)
        /\ proc[p].copy.actions \in [Action -> ActionState]
    BY <1>1, BusyFacts
  <1>3. /\ Fresh(proc[p], doc) /\ NoneStarted(proc[p].copy.actions)
        /\ BuildsDone(proc[p].copy.actions, proc[p].builds)
    BY <1>1, <1>2 DEF Promised, Finalizer
  <1>4. CASE ~(proc[p].copy.actions[b].artifacts = 0 /\ Findable)
    <2> DEFINE s == [proc[p] EXCEPT !.pc = "flush"]
    <2>1. /\ s.copy = proc[p].copy /\ s.dirty = proc[p].dirty
          /\ s.outcome = proc[p].outcome /\ s.pc = "flush"
      BY <1>2 DEF ProcState
    <2>2. Goto(p, s)
      BY <1>4 DEF RegisterBuild
    <2> HIDE DEF s
    <2>3. QED
      BY <1>1, <2>1, <2>2, CopyStaysFaithful
  <1>5. CASE proc[p].copy.actions[b].artifacts = 0 /\ Findable
    <2> DEFINE fresh == Merge(proc[p].copy, proc[p].dirty, doc)
               t == [proc[p] EXCEPT !.copy = fresh, !.builds = @ \ {b}]
               value == WithArtifact(fresh.actions[b])
               s == WithAction(t, b, value)
    <2>1. Goto(p, s)
      BY <1>5 DEF RegisterBuild
    <2>2. /\ fresh.actions = proc[p].copy.actions /\ fresh.outcome = proc[p].copy.outcome
          /\ fresh \in Doc
      <3>1. fresh.actions = proc[p].copy.actions /\ fresh.outcome = proc[p].copy.outcome
        BY <1>3 DEF Merge, Fresh
      <3>2. fresh \in Doc
        BY <1>2, MergeKeeps
      <3>3. QED
        BY <3>1, <3>2
    <2> HIDE DEF fresh
    <2>3. /\ t \in ProcState /\ t.copy.actions = proc[p].copy.actions
          /\ t.copy.outcome = proc[p].copy.outcome /\ t.dirty = proc[p].dirty
          /\ t.pc = "builds" /\ t.outcome = proc[p].outcome
          /\ t.builds = proc[p].builds \ {b} /\ t.copy = fresh
      BY <1>1, <1>2, <2>2 DEF ProcState
    <2>4. Copied(t, doc) /\ Fresh(t, doc)
      BY <1>2, <1>3, <2>3 DEF Copied, Fresh
    <2>5. /\ value \in ActionState /\ value.artifacts = 1
          /\ value.lifecycle = t.copy.actions[b].lifecycle
          /\ t.copy.actions[b].artifacts <= value.artifacts
      <3>1. fresh.actions[b] = t.copy.actions[b] /\ t.copy.actions[b] \in ActionState
            /\ t.copy.actions[b].artifacts = 0
        BY <1>1, <1>2, <1>5, <2>2, <2>3
      <3>2. QED
        BY <3>1 DEF WithArtifact, ActionState
    <2> HIDE DEF t, value
    <2>6. /\ Fresh(s, doc) /\ s.pc = "builds" /\ s.builds = t.builds
          /\ \A c \in Action : s.copy.actions[c] = IF c = b THEN value ELSE t.copy.actions[c]
      BY <1>1, <1>2, <2>3, <2>4, <2>5, WithActionFresh
    <2> HIDE DEF s
    <2>7. NoneStarted(s.copy.actions) /\ BuildsDone(s.copy.actions, s.builds)
      BY <1>1, <1>3, <2>3, <2>5, <2>6, ActionKinds DEF NoneStarted, BuildsDone
    <2>8. Promised(s, doc, synced)
      BY <1>2, <2>6, <2>7 DEF Promised, Finalizer
    <2>9. QED
      BY <1>1, <2>1, <2>8, GoOnFaithful
  <1>6. QED
    BY <1>4, <1>5

LEMMA BuildsRegisteredFaithful ==
    ASSUME IInv, RInv, NEW p \in Proc, Alone(p), BuildsRegistered(p)
    PROVE  Faithful
  <1>1. /\ proc[p].pc = "builds" /\ proc[p].builds = {}
        /\ present' = present /\ doc' = doc /\ synced' = synced
    BY DEF BuildsRegistered, StoreUntouched
  <1>2. /\ ~doc.closed /\ Promised(proc[p], doc, synced)
        /\ proc[p] \in ProcState /\ proc[p].copy \in Doc
    BY <1>1, BusyFacts
  <1>3. /\ Fresh(proc[p], doc) /\ NoneStarted(proc[p].copy.actions)
        /\ BuildsDone(proc[p].copy.actions, {})
    BY <1>1, <1>2 DEF Promised, Finalizer
  <1> DEFINE t == [proc[p] EXCEPT !.pc = "sync"]
             s == Settled(t)
  <1>4. Goto(p, s) \/ Goto(p, [Settled(proc[p]) EXCEPT !.pc = "sync"])
    BY DEF BuildsRegistered
  <1>5. /\ t \in ProcState /\ t.copy = proc[p].copy /\ t.dirty = proc[p].dirty
        /\ t.pc = "sync" /\ t.outcome = proc[p].outcome
    BY <1>2 DEF ProcState, PC
  <1>6. Fresh(t, doc) /\ t.copy \in Doc
    BY <1>2, <1>3, <1>5 DEF Fresh
  <1>7. Goto(p, s)
    BY DEF BuildsRegistered
  <1> HIDE DEF t
  <1>8. /\ Fresh(s, doc) /\ s.pc = "sync" /\ s.copy.outcome = s.outcome
        /\ NoneStarted(s.copy.actions) /\ BuildsDone(s.copy.actions, {})
    BY <1>3, <1>5, <1>6, SettledFresh
  <1> HIDE DEF s
  <1>9. Promised(s, doc, synced)
    BY <1>2, <1>8 DEF Promised, Finalizer
  <1>10. QED
    BY <1>1, <1>7, <1>9, GoOnFaithful

\* The graph is updated, or the update throws.
LEMMA SyncGraphFaithful ==
    ASSUME IInv, RInv, NEW p \in Proc, Alone(p), SyncGraph(p)
    PROVE  Faithful
  <1>1. proc[p].pc = "sync" /\ present' = present /\ doc' = doc
    BY DEF SyncGraph
  <1>2. /\ present = "stored" /\ ~doc.closed /\ Promised(proc[p], doc, synced)
        /\ proc[p] \in ProcState
    BY <1>1, BusyFacts
  <1>3. CASE synced' = synced /\ Goto(p, Idle)
    BY <1>1, <1>3, IdlePromised, GoOnFaithful
  <1>4. CASE synced' = TRUE /\ Goto(p, [proc[p] EXCEPT !.pc = "close"])
    <2> DEFINE s == [proc[p] EXCEPT !.pc = "close"]
    <2>1. /\ s.copy = proc[p].copy /\ s.dirty = proc[p].dirty
          /\ s.outcome = proc[p].outcome /\ s.pc = "close"
      BY <1>2 DEF ProcState
    <2>2. Goto(p, s)
      BY <1>4
    <2> HIDE DEF s
    <2>3. Promised(s, doc', synced')
      BY <1>1, <1>2, <1>4, <2>1 DEF Promised, Finalizer, Fresh
    <2>4. RInv'
      BY <1>1, <1>2, <2>2, <2>3, AloneKeepsPromise DEF RInv
    <2>5. Promise!Sync
      BY <1>1, <1>2, <1>4 DEF Promise!Sync
    <2>6. QED
      BY <2>4, <2>5 DEF Faithful, Promise!Next
  <1>5. QED
    BY <1>3, <1>4 DEF SyncGraph

\* The last write: what the promise says of a closed intention holds of it.
LEMMA CloseFaithful ==
    ASSUME IInv, RInv, NEW p \in Proc, Alone(p), CloseIntention(p)
    PROVE  Faithful
  <1>1. proc[p].pc = "close" /\ present' = present /\ synced' = synced /\ Goto(p, Idle)
    BY DEF CloseIntention
  <1>2. /\ present = "stored" /\ ~doc.closed /\ doc \in Doc
        /\ Promised(proc[p], doc, synced) /\ Copied(proc[p], doc) /\ Staged(proc[p])
        /\ proc[p].copy.actions \in [Action -> ActionState]
    BY <1>1, BusyFacts
  <1>3. /\ Fresh(proc[p], doc) /\ NoneStarted(proc[p].copy.actions)
        /\ proc[p].copy.outcome = proc[p].outcome /\ proc[p].copy.outcome # "none"
        /\ proc[p].outcome = "success" => synced /\ BuildsDone(proc[p].copy.actions, {})
    BY <1>1, <1>2 DEF Promised, Staged, Finalizer
  <1>4. PICK actions \in {proc[p].copy.actions, Linked(proc[p].copy.actions)} :
           doc' = Merge(MarkedClosed(WithActions(proc[p], actions)).copy,
                        MarkedClosed(WithActions(proc[p], actions)).dirty, doc)
    BY <1>2 DEF CloseIntention
  <1> DEFINE t == WithActions(proc[p], actions)
             final == MarkedClosed(t)
  <1>5. actions \in [Action -> ActionState]
    BY <1>2, <1>4 DEF Linked, ActionState
  <1>6. ASSUME NEW a \in Action
        PROVE  /\ actions[a].lifecycle = proc[p].copy.actions[a].lifecycle
               /\ actions[a].outcome = proc[p].copy.actions[a].outcome
               /\ actions[a].artifacts = proc[p].copy.actions[a].artifacts
    BY <1>2, <1>4 DEF Linked, ActionState
  <1>7. Ahead(doc.actions, actions)
    BY <1>3, <1>6 DEF Fresh, Ahead
  <1>8. /\ Fresh(t, doc) /\ t.copy.actions = actions /\ Copied(t, doc)
        /\ t.copy.outcome = proc[p].outcome
    BY <1>2, <1>3, <1>5, <1>7, WithActionsFresh, WithActionsCopied
  <1>9. doc' = Merge(final.copy, final.dirty, doc)
    BY <1>4
  <1> HIDE DEF t
  <1>10. /\ final.copy.actions = t.copy.actions /\ final.copy.outcome = t.copy.outcome
         /\ final.dirty = t.dirty \union {"closed"}
    BY <1>8 DEF MarkedClosed, Copied, ProcState, Doc
  <1>11. doc' \in Doc /\ doc'.closed
    BY <1>2, <1>3, <1>8, <1>9, MarkedClosedMerge
  <1> HIDE DEF final
  <1>12. doc'.actions = actions /\ doc'.outcome = proc[p].outcome
    BY <1>8, <1>9, <1>10 DEF Merge, Fresh
  <1>13. NoneStarted(doc'.actions)
    BY <1>3, <1>6, <1>12 DEF NoneStarted
  <1>14. doc'.outcome = "success" => synced /\ BuildsDone(doc'.actions, {})
    BY <1>3, <1>6, <1>12, ActionKinds DEF BuildsDone
  <1>15. QED
    BY <1>1, <1>2, <1>3, <1>7, <1>11, <1>12, <1>13, <1>14, IdlePromised, WriteKeepsPromise

-----------------------------------------------------------------------------
(* Everything else, and the theorem.                                        *)

\* Opening is the promise's opening; nothing else shows.
LEMMA EnvironmentFaithful ==
    ASSUME IInv, RInv, Environment
    PROVE  Faithful
  <1>1. proc' = proc /\ synced' = synced
    BY DEF Environment, Open, TimePasses, CleanupTransient
  <1>2. CASE Open
    <2>1. PICK violating : /\ violating \in SUBSET Action /\ doc' = NewDoc(violating)
                           /\ present = "absent" /\ present' = "stored"
      BY <1>2 DEF Open
    <2>2. \A p \in Proc : proc[p].pc = "idle"
      BY <2>1 DEF IInv, ProcOK
    <2>3. doc = NewDoc({})
      BY <2>1 DEF RInv
    <2>4. ASSUME NEW a \in Action, NEW set
          PROVE  /\ NewDoc(set).actions[a].lifecycle = "initialized"
                 /\ NewDoc(set).actions[a].outcome \in {"none", "rejected"}
                 /\ NewDoc(set).actions[a].artifacts = 0
      BY DEF NewDoc, NewAction
    <2>5. RInv'
      <3>1. \A a \in Action : doc'.actions[a].artifacts <= 1
        BY <2>1, <2>4
      <3>2. \A p \in Proc : Promised(proc'[p], doc', synced')
        BY <1>1, <2>2 DEF Promised, Finalizer
      <3>3. QED
        BY <2>1, <3>1, <3>2 DEF RInv
    <2>6. /\ doc'.closed <=> violating # {}
          /\ doc'.outcome = IF violating = {} THEN "none" ELSE "rejected"
      BY <2>1, NewDocType
    <2>7. /\ [a \in Action |-> doc'.actions[a].lifecycle] = [a \in Action |-> doc.actions[a].lifecycle]
          /\ {a \in Action : doc'.actions[a].outcome = "success"}
               = {a \in Action : doc.actions[a].outcome = "success"}
          /\ [a \in Action |-> doc'.actions[a].artifacts] = [a \in Action |-> doc.actions[a].artifacts]
      BY <2>1, <2>3, <2>4
    <2>8. Promise!Open
      BY <1>1, <2>1, <2>6, <2>7 DEF Promise!Open
    <2>9. QED
      BY <2>5, <2>8 DEF Faithful, Promise!Next
  <1>3. CASE TimePasses \/ CleanupTransient
    <2>1. doc' = doc /\ present # "absent" /\ present' # "absent"
      BY <1>3 DEF TimePasses, CleanupTransient
    <2>2. RInv'
      BY <1>1, <2>1 DEF RInv
    <2>3. UNCHANGED Promise!vars
      BY <1>1, <2>1 DEF Promise!vars
    <2>4. QED
      BY <2>2, <2>3 DEF Faithful
  <1>4. QED
    BY <1>2, <1>3 DEF Environment

LEMMA SerialFaithful ==
    ASSUME IInv, RInv, [SerialNext]_vars
    PROVE  Faithful
  <1>1. CASE UNCHANGED vars
    <2>1. RInv' /\ UNCHANGED Promise!vars
      BY <1>1 DEF vars, RInv, Promise!vars
    <2>2. QED
      BY <2>1 DEF Faithful
  <1>2. ASSUME NEW p \in Proc, Alone(p), Step(p)
        PROVE  Faithful
    <2>1. CASE BeginRequest(p) \/ BeginSweep(p)
      BY <1>2, <2>1, BeginFaithful
    <2>2. CASE Continue(p)
      BY <1>2, <2>2, LastWriteFaithful, FlushUnderwayFaithful, AddArtifactFaithful,
         TokensFaithful, PatchEndsFaithful, DropAccessorsFaithful, RegisterBuildFaithful,
         BuildsRegisteredFaithful, SyncGraphFaithful, CloseFaithful DEF Continue
    <2>3. CASE Crash(p)
      BY <1>2, <2>3, TokensFaithful
    <2>4. QED
      BY <1>2, <2>1, <2>2, <2>3 DEF Step
  <1>3. QED
    BY <1>1, <1>2, EnvironmentFaithful DEF SerialNext

(* With no two handlers overlapping, whatever fails or dies on the way, the *)
(* implementation keeps every promise of IntentionPromise.                  *)
THEOREM KeepsThePromise == SerialSpec => PromiseKept
  <1>1. Init => Promise!Init
    <2> SUFFICES ASSUME Init PROVE Promise!Init
      OBVIOUS
    <2>1. ASSUME NEW a \in Action
          PROVE  /\ doc.actions[a].lifecycle = "initialized"
                 /\ doc.actions[a].outcome = "none" /\ doc.actions[a].artifacts = 0
      BY DEF Init, NewDoc, NewAction
    <2>2. doc.outcome = "none" /\ present = "absent" /\ synced = FALSE
      BY NewDocType DEF Init
    <2>3. QED
      BY <2>1, <2>2 DEF Promise!Init
  <1>2. Init => RInv
    <2> SUFFICES ASSUME Init PROVE RInv
      OBVIOUS
    <2>1. ASSUME NEW a \in Action PROVE doc.actions[a].artifacts <= 1
      BY DEF Init, NewDoc, NewAction
    <2>2. QED
      BY <2>1, IdlePromised DEF Init, RInv
  <1>3. [SerialNext]_vars => [Next]_vars
    BY DEF SerialNext, Next
  <1>4. IInv /\ [SerialNext]_vars => IInv'
    BY <1>3, NextKeeps DEF Kept
  <1>5. IInv /\ RInv /\ [SerialNext]_vars => RInv' /\ [Promise!Next]_(Promise!vars)
    BY SerialFaithful DEF Faithful
  <1>6. QED
    BY InitIInv, <1>1, <1>2, <1>4, <1>5, PTL DEF SerialSpec, PromiseKept, Promise!Spec

=============================================================================
