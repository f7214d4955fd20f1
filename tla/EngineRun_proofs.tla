---------------------------- MODULE EngineRun_proofs ----------------------------
(***************************************************************************)
(* What EngineRun keeps true for any files, rules, configuration, workers  *)
(* and buffers: its types, that a buffer has one owner, and that a file's  *)
(* outcome is the one it has alone.                                        *)
(***************************************************************************)
EXTENDS EngineRun, FiniteSetTheorems, SequenceTheorems, TLAPS

-----------------------------------------------------------------------------
(* Types.                                                                  *)

(* A worker that lints a file has its index, and from Get to Put a buffer.  *)
Stationed(w) ==
  /\ worker[w].pc \notin {"take", "gone"} => worker[w].at \in 1..Len(Work)
  /\ IF worker[w].pc \in {"take", "gone", "draw"}
       THEN worker[w].buf = None ELSE worker[w].buf \in Buffer

(* The lines of diagnostics are not adjusted before the end.                *)
Unadjusted(w) == \A d \in worker[w].diags : d.line \in 1..2

TypeInv ==
  /\ TypeOK
  /\ \A w \in Worker : Stationed(w) /\ Unadjusted(w)

(* What a call's work is.                                                  *)
LEMMA WorkIsFiles ==
  ASSUME run \in Run
  PROVE  /\ Len(Work) \in Nat
         /\ \A i \in 1..Len(Work) : Work[i] \in File
         /\ run.bad \in BOOLEAN
<1>1. Work \in Seq(File)
  BY RunAssumption DEF Work
<1>2. run.bad \in BOOLEAN
  BY RunAssumption
<1> QED BY <1>1, <1>2, ElementOfSeq, LenProperties

LEMMA RestingIsTyped ==
  /\ Resting \in WorkerRec /\ Resting.pc = "take" /\ Resting.buf = None
  /\ Resting.busy = {} /\ Resting.diags = {}
BY DEF Resting, WorkerRec

(* What rules and panics say is a diagnostic, on line 1 or 2.               *)
LEMMA FindingsAreTyped ==
  ASSUME TypeInv, NEW w \in Worker, worker[w].at \in 1..Len(Work), NEW r \in Rule
  PROVE  /\ FileOf(w) \in File
         /\ PanicDiagnostic(FileOf(w)) \in Diagnostic
         /\ PanicDiagnostic(FileOf(w)).line \in 1..2
         /\ RuleDiags(r, w) \subseteq Diagnostic
         /\ \A d \in RuleDiags(r, w) : d.line \in 1..2
<1>1. FileOf(w) \in File
  BY WorkIsFiles DEF TypeInv, TypeOK, FileOf
<1> QED BY <1>1 DEF PanicDiagnostic, RuleDiags, Diagnostic

LEMMA InitTyped == Init => TypeInv
<1> SUFFICES ASSUME Init PROVE TypeInv
  OBVIOUS
<1>1. \A w \in Worker :
        /\ worker[w] \in WorkerRec
        /\ worker[w].pc \in {"take", "gone"} /\ worker[w].buf = None
        /\ worker[w].diags = {}
  <2> TAKE w \in Worker
  <2>1. worker[w] \in {Resting, [Resting EXCEPT !.pc = "gone"]}
    BY DEF Init
  <2> QED BY <2>1 DEF Resting, WorkerRec
<1>2. worker \in [Worker -> WorkerRec]
  BY <1>1 DEF Init
<1>3. \A w \in Worker : Stationed(w) /\ Unadjusted(w)
  BY <1>1 DEF Stationed, Unadjusted
<1>4. TypeOK
  <2>1. run \in Run /\ next \in Nat /\ free \in [Buffer -> Nat]
    BY DEF Init
  <2>2. content \in [Buffer -> File \cup {None}] /\ eff \in [Key -> (SUBSET Rule) \cup {None}]
    BY DEF Init
  <2>3. conf \in [Worker -> [Key -> Configured \cup {None}]]
    BY DEF Init
  <2>4. outcome \in [1..Len(Work) -> Outcome \cup {None}]
    BY DEF Init
  <2> QED BY <1>2, <2>1, <2>2, <2>3, <2>4 DEF Init, TypeOK
<1> QED BY <1>3, <1>4 DEF TypeInv

(* A step that changes one worker's record to one that fits keeps the       *)
(* types of the workers.                                                   *)
LEMMA OneWorkerMoves ==
  ASSUME TypeInv, run' = run, NEW w \in Worker, NEW rec \in WorkerRec,
         worker' = [worker EXCEPT ![w] = rec],
         rec.pc \notin {"take", "gone"} => rec.at \in 1..Len(Work),
         IF rec.pc \in {"take", "gone", "draw"} THEN rec.buf = None ELSE rec.buf \in Buffer,
         \A d \in rec.diags : d.line \in 1..2
  PROVE  /\ worker' \in [Worker -> WorkerRec]
         /\ \A v \in Worker : (Stationed(v) /\ Unadjusted(v))'
<1>1. Work' = Work
  BY DEF Work
<1>2. \A v \in Worker : worker'[v] = IF v = w THEN rec ELSE worker[v]
  BY DEF TypeInv, TypeOK
<1>3. worker' \in [Worker -> WorkerRec]
  BY DEF TypeInv, TypeOK
<1> QED BY <1>1, <1>2, <1>3 DEF TypeInv, Stationed, Unadjusted

(* A worker that puts its buffer back.                                     *)
LEMMA PutBackKeepsTypes ==
  ASSUME TypeInv, NEW w \in Worker, NEW o \in Outcome, PutBack(w, o),
         worker[w].pc \notin {"take", "gone", "draw"},
         UNCHANGED <<run, next, content, eff, conf, target, result>>
  PROVE  TypeInv'
<1>1. worker[w].at \in 1..Len(Work) /\ worker[w].buf \in Buffer
  BY DEF TypeInv, Stationed
<1>2. Work' = Work
  BY DEF Work
<1>3. /\ worker' \in [Worker -> WorkerRec]
      /\ \A v \in Worker : (Stationed(v) /\ Unadjusted(v))'
  BY OneWorkerMoves, RestingIsTyped DEF PutBack
<1>4. free' \in [Buffer -> Nat]
  BY <1>1 DEF PutBack, TypeInv, TypeOK
<1>5. outcome' \in [1..Len(Work) -> Outcome \cup {None}]
  BY <1>1 DEF PutBack, TypeInv, TypeOK
<1>6. DOMAIN outcome' = DOMAIN outcome
  BY DEF PutBack
<1> QED BY <1>2, <1>3, <1>4, <1>5, <1>6 DEF TypeInv, TypeOK

(* A worker that goes on with its file and its buffer.                     *)
LEMMA GoingOnKeepsTypes ==
  ASSUME TypeInv, run' = run, NEW w \in Worker, NEW new \in WorkerRec,
         worker' = [worker EXCEPT ![w] = new],
         worker[w].pc \notin {"take", "gone", "draw"},
         new.pc \notin {"take", "gone", "draw"},
         new.at = worker[w].at, new.buf = worker[w].buf,
         \A d \in new.diags : d.line \in 1..2
  PROVE  /\ worker' \in [Worker -> WorkerRec]
         /\ \A v \in Worker : (Stationed(v) /\ Unadjusted(v))'
BY OneWorkerMoves DEF TypeInv, Stationed

LEMMA TakeKeepsTypes ==
  ASSUME TypeInv, NEW w \in Worker, Take(w)
  PROVE  TypeInv'
<1> DEFINE pc == IF next < Len(Work) THEN "draw" ELSE "gone"
           at == IF next < Len(Work) THEN next + 1 ELSE 0
           new == [pc |-> pc, at |-> at, buf |-> None, on |-> {}, errs |-> {},
                   todo |-> {}, busy |-> {}, node |-> {}, diags |-> {}]
<1>1. worker' = [worker EXCEPT ![w] = new]
  <2> DEFINE moved == IF next < Len(Work)
                        THEN [Resting EXCEPT !.pc = "draw", !.at = next + 1]
                        ELSE [Resting EXCEPT !.pc = "gone"]
  <2>1. worker' = [worker EXCEPT ![w] = moved]
    BY Zenon DEF Take
  <2>2. moved = new
    BY DEF Resting
  <2> HIDE DEF moved, new
  <2> QED BY <2>1, <2>2
<1>2. next \in Nat /\ Len(Work) \in Nat
  BY WorkIsFiles DEF TypeInv, TypeOK
<1>3. /\ pc \in {"draw", "gone"} /\ at \in Nat
      /\ pc # "gone" => at \in 1..Len(Work)
  BY <1>2
<1> HIDE DEF pc, at
<1>4. /\ new \in WorkerRec
      /\ new.pc = pc /\ new.at = at /\ new.buf = None /\ new.diags = {}
  BY <1>3 DEF WorkerRec
<1> HIDE DEF new
<1>5. /\ worker' \in [Worker -> WorkerRec]
      /\ \A v \in Worker : (Stationed(v) /\ Unadjusted(v))'
  BY <1>1, <1>3, <1>4, OneWorkerMoves DEF Take
<1> QED BY <1>2, <1>5 DEF Take, TypeInv, TypeOK, Work

LEMMA DrawKeepsTypes ==
  ASSUME TypeInv, NEW w \in Worker, NEW b \in Buffer, Draw(w, b)
  PROVE  TypeInv'
<1> DEFINE new == [worker[w] EXCEPT !.buf = b, !.pc = "read"]
<1>1. worker' = [worker EXCEPT ![w] = new]
  BY DEF Draw
<1>2. worker[w] \in WorkerRec /\ worker[w].at \in 1..Len(Work) /\ Unadjusted(w)
  BY DEF Draw, TypeInv, TypeOK, Stationed
<1>3. /\ new \in WorkerRec
      /\ new.pc = "read" /\ new.at = worker[w].at /\ new.buf = b
      /\ new.diags = worker[w].diags
  BY <1>2 DEF WorkerRec
<1> HIDE DEF new
<1>4. /\ worker' \in [Worker -> WorkerRec]
      /\ \A v \in Worker : (Stationed(v) /\ Unadjusted(v))'
  BY <1>1, <1>2, <1>3, OneWorkerMoves DEF Draw, Unadjusted
<1>5. free' \in [Buffer -> Nat]
  BY DEF Draw, TypeInv, TypeOK
<1> QED BY <1>4, <1>5 DEF Draw, TypeInv, TypeOK, Work

LEMMA ReadKeepsTypes ==
  ASSUME TypeInv, NEW w \in Worker, Read(w)
  PROVE  TypeInv'
<1> DEFINE pc == IF FileOf(w) \in Unreadable \cup TooLarge \cup BadFront
                   THEN "failed" ELSE "load"
           new == [worker[w] EXCEPT !.pc = pc]
<1>1. worker' = [worker EXCEPT ![w] = new]
  BY DEF Read
<1>2. pc \in {"failed", "load"}
  OBVIOUS
<1>3. worker[w] \in WorkerRec /\ worker[w].at \in 1..Len(Work) /\ Unadjusted(w)
  BY DEF Read, TypeInv, TypeOK, Stationed
<1>4. FileOf(w) \in File
  BY <1>3, WorkIsFiles DEF FileOf, TypeInv, TypeOK
<1> HIDE DEF pc
<1>5. /\ new \in WorkerRec
      /\ new.pc = pc /\ new.at = worker[w].at /\ new.buf = worker[w].buf
      /\ new.diags = worker[w].diags
  BY <1>2, <1>3 DEF WorkerRec
<1> HIDE DEF new
<1>6. /\ worker' \in [Worker -> WorkerRec]
      /\ \A v \in Worker : (Stationed(v) /\ Unadjusted(v))'
  BY <1>1, <1>2, <1>3, <1>5, GoingOnKeepsTypes DEF Read, Unadjusted
<1>7. content' \in [Buffer -> File \cup {None}]
  BY <1>4 DEF Read, TypeInv, TypeOK
<1> QED BY <1>6, <1>7 DEF Read, TypeInv, TypeOK, Work

(* The signature of a file is a key.                                       *)
LEMMA SignatureIsKey ==
  ASSUME NEW f \in File
  PROVE  /\ EffectiveSignature(f) \in Key
         /\ EffectiveAllForKinds(f) = On[EffectiveSignature(f)]
         /\ EffectiveAllForKinds(f) \in SUBSET Rule
<1>1. (f \in Overridden) \in BOOLEAN
  OBVIOUS
<1>2. KindOf[f] \in Kind
  BY ConstantsAssumption
<1>3. EffectiveSignature(f) \in Key
  BY <1>1, <1>2, Zenon DEF EffectiveSignature, Key
<1>4. EffectiveAllForKinds(f) = On[EffectiveSignature(f)]
  BY Zenon DEF EffectiveAllForKinds, EffectiveSignature
<1> QED BY <1>3, <1>4, ConstantsAssumption

LEMMA LoadKeepsTypes ==
  ASSUME TypeInv, NEW w \in Worker, LoadEffective(w)
  PROVE  TypeInv'
<1> DEFINE hit == eff[EffectiveSignature(FileOf(w))]
           on == IF hit = None THEN EffectiveAllForKinds(FileOf(w)) ELSE hit
           pc == IF hit = None THEN "store" ELSE "configure"
           new == [worker[w] EXCEPT !.on = on, !.pc = pc]
<1>1. worker' = [worker EXCEPT ![w] = new]
  BY DEF LoadEffective
<1>2. worker[w] \in WorkerRec /\ worker[w].at \in 1..Len(Work) /\ Unadjusted(w)
  BY DEF LoadEffective, TypeInv, TypeOK, Stationed
<1>3. FileOf(w) \in File
  BY <1>2, WorkIsFiles DEF FileOf, TypeInv, TypeOK
<1>4. hit \in (SUBSET Rule) \cup {None}
  BY <1>3, SignatureIsKey DEF TypeInv, TypeOK
<1> HIDE DEF hit
<1>5. on \in SUBSET Rule /\ pc \in {"store", "configure"}
  <2>1. EffectiveAllForKinds(FileOf(w)) \in SUBSET Rule
    BY <1>3, SignatureIsKey
  <2>2. on \in SUBSET Rule
    BY <1>4, <2>1, Zenon
  <2>3. pc \in {"store", "configure"}
    BY Zenon
  <2> QED BY <2>2, <2>3
<1> HIDE DEF on, pc
<1>6. /\ new \in WorkerRec
      /\ new.pc = pc /\ new.at = worker[w].at /\ new.buf = worker[w].buf
      /\ new.diags = worker[w].diags
  BY <1>2, <1>5 DEF WorkerRec
<1> HIDE DEF new
<1>7. /\ worker' \in [Worker -> WorkerRec]
      /\ \A v \in Worker : (Stationed(v) /\ Unadjusted(v))'
  BY <1>1, <1>2, <1>5, <1>6, GoingOnKeepsTypes DEF LoadEffective, Unadjusted
<1> QED BY <1>7 DEF LoadEffective, TypeInv, TypeOK, Work

LEMMA StoreKeepsTypes ==
  ASSUME TypeInv, NEW w \in Worker, StoreEffective(w)
  PROVE  TypeInv'
<1> DEFINE k == EffectiveSignature(FileOf(w))
           new == [worker[w] EXCEPT !.on = eff'[k], !.pc = "configure"]
<1>1. eff' = [eff EXCEPT ![k] = IF eff[k] = None THEN worker[w].on ELSE eff[k]]
  BY Zenon DEF StoreEffective
<1>2. worker' = [worker EXCEPT ![w] = new]
  <2>1. worker' = [worker EXCEPT ![w].on = eff'[k], ![w].pc = "configure"]
    BY Zenon DEF StoreEffective
  <2>2. worker \in [Worker -> WorkerRec]
    BY DEF TypeInv, TypeOK
  <2> HIDE DEF k
  <2> QED BY <2>1, <2>2
<1>3. worker[w] \in WorkerRec /\ worker[w].at \in 1..Len(Work) /\ Unadjusted(w)
  BY DEF StoreEffective, TypeInv, TypeOK, Stationed
<1>4. k \in Key
  BY <1>3, WorkIsFiles, SignatureIsKey DEF FileOf, TypeInv, TypeOK
<1> HIDE DEF k
<1>5. eff' \in [Key -> (SUBSET Rule) \cup {None}] /\ eff'[k] \in SUBSET Rule
  <2> DEFINE e == IF eff[k] = None THEN worker[w].on ELSE eff[k]
  <2>1. eff \in [Key -> (SUBSET Rule) \cup {None}] /\ worker[w].on \in SUBSET Rule
    BY <1>3 DEF TypeInv, TypeOK, WorkerRec
  <2>2. e \in SUBSET Rule
    <3>1. eff[k] \in (SUBSET Rule) \cup {None}
      BY <1>4, <2>1
    <3> QED BY <2>1, <3>1, Zenon
  <2>3. eff' = [eff EXCEPT ![k] = e]
    BY <1>1
  <2> HIDE DEF e
  <2> QED BY <1>4, <2>1, <2>2, <2>3
<1>6. /\ new \in WorkerRec
      /\ new.pc = "configure" /\ new.at = worker[w].at /\ new.buf = worker[w].buf
      /\ new.diags = worker[w].diags
  BY <1>3, <1>5 DEF WorkerRec
<1> HIDE DEF new
<1>7. /\ worker' \in [Worker -> WorkerRec]
      /\ \A v \in Worker : (Stationed(v) /\ Unadjusted(v))'
  BY <1>2, <1>3, <1>6, GoingOnKeepsTypes DEF StoreEffective, Unadjusted
<1> QED BY <1>5, <1>7 DEF StoreEffective, TypeInv, TypeOK, Work

LEMMA ConfigureKeepsTypes ==
  ASSUME TypeInv, NEW w \in Worker, Configure(w)
  PROVE  TypeInv'
<1> DEFINE k == EffectiveSignature(FileOf(w))
           c == IF conf[w][k] = None THEN ConfigureEnabledRules(worker[w].on)
                                     ELSE conf[w][k]
           new == [worker[w] EXCEPT !.pc = "check", !.errs = c.errs,
                                    !.todo = c.rules \ Node, !.node = c.rules \cap Node]
<1>1. /\ conf' = [conf EXCEPT ![w][k] = c]
      /\ worker' = [worker EXCEPT ![w] = new]
  BY DEF Configure
<1>2. worker[w] \in WorkerRec /\ worker[w].at \in 1..Len(Work) /\ Unadjusted(w)
  BY DEF Configure, TypeInv, TypeOK, Stationed
<1>3. k \in Key
  BY <1>2, WorkIsFiles, SignatureIsKey DEF FileOf, TypeInv, TypeOK
<1> HIDE DEF k
<1>4. c \in Configured
  BY <1>2, <1>3 DEF ConfigureEnabledRules, Configured, WorkerRec, TypeInv, TypeOK
<1> HIDE DEF c
<1>5. conf' \in [Worker -> [Key -> Configured \cup {None}]]
  BY <1>1, <1>3, <1>4 DEF TypeInv, TypeOK
<1>6. c.rules \in SUBSET Rule /\ c.errs \in SUBSET Rule
  BY <1>4 DEF Configured
<1>7. /\ new \in WorkerRec
      /\ new.pc = "check" /\ new.at = worker[w].at /\ new.buf = worker[w].buf
      /\ new.diags = worker[w].diags
  BY <1>2, <1>6 DEF WorkerRec
<1> HIDE DEF new
<1>8. /\ worker' \in [Worker -> WorkerRec]
      /\ \A v \in Worker : (Stationed(v) /\ Unadjusted(v))'
  BY <1>1, <1>2, <1>7, GoingOnKeepsTypes DEF Configure, Unadjusted
<1> QED BY <1>5, <1>8 DEF Configure, TypeInv, TypeOK, Work

LEMMA StartKeepsTypes ==
  ASSUME TypeInv, NEW w \in Worker, NEW r \in Rule, Start(w, r)
  PROVE  TypeInv'
<1> DEFINE new == [worker[w] EXCEPT !.todo = worker[w].todo \ {r},
                                    !.busy = worker[w].busy \cup {r}]
<1>1. worker' = [worker EXCEPT ![w] = new]
  BY DEF Start, TypeInv, TypeOK
<1>2. worker[w] \in WorkerRec /\ worker[w].at \in 1..Len(Work) /\ Unadjusted(w)
  BY DEF Start, TypeInv, TypeOK, Stationed
<1>3. /\ new \in WorkerRec
      /\ new.pc = worker[w].pc /\ new.at = worker[w].at /\ new.buf = worker[w].buf
      /\ new.diags = worker[w].diags
  BY <1>2 DEF WorkerRec
<1> HIDE DEF new
<1>4. /\ worker' \in [Worker -> WorkerRec]
      /\ \A v \in Worker : (Stationed(v) /\ Unadjusted(v))'
  BY <1>1, <1>2, <1>3, GoingOnKeepsTypes DEF Start, Unadjusted
<1> QED BY <1>4 DEF Start, TypeInv, TypeOK, Work

(* What a rule that ends adds.                                             *)
Said(r, w) == IF Panics(r, w) THEN {PanicDiagnostic(FileOf(w))} ELSE RuleDiags(r, w)

LEMMA FinishKeepsTypes ==
  ASSUME TypeInv, NEW w \in Worker, NEW r \in Rule, worker[w].pc = "check", Finish(w, r)
  PROVE  TypeInv'
<1> DEFINE pc == IF Panics(r, w) /\ IntraFileCap = 1 THEN "panic" ELSE worker[w].pc
           diags == worker[w].diags \cup Said(r, w)
           new == [worker[w] EXCEPT !.busy = worker[w].busy \ {r},
                                    !.pc = pc, !.diags = diags]
<1>1. worker \in [Worker -> WorkerRec] /\ worker[w] \in WorkerRec
  BY DEF TypeInv, TypeOK
<1>2. worker' = [worker EXCEPT ![w] = new]
  <2>1. worker' = [worker EXCEPT ![w].busy = @ \ {r}, ![w].pc = pc, ![w].diags = diags]
    BY <1>1 DEF Finish, Said
  <2> HIDE DEF pc, diags
  <2> QED BY <1>1, <2>1
<1>3. worker[w].at \in 1..Len(Work) /\ Unadjusted(w)
  BY DEF TypeInv, Stationed
<1>4. pc \in {"panic", "check"}
  OBVIOUS
<1>5. diags \in SUBSET Diagnostic /\ \A d \in diags : d.line \in 1..2
  <2>1. Said(r, w) \subseteq Diagnostic /\ \A d \in Said(r, w) : d.line \in 1..2
    BY <1>3, FindingsAreTyped DEF Said
  <2>2. worker[w].diags \subseteq Diagnostic /\ \A d \in worker[w].diags : d.line \in 1..2
    BY <1>1, <1>3 DEF WorkerRec, Unadjusted
  <2> QED BY <2>1, <2>2
<1> HIDE DEF pc, diags
<1>6. /\ new \in WorkerRec
      /\ new.pc = pc /\ new.at = worker[w].at /\ new.buf = worker[w].buf
      /\ new.diags = diags
  BY <1>1, <1>4, <1>5 DEF WorkerRec
<1> HIDE DEF new
<1>7. /\ worker' \in [Worker -> WorkerRec]
      /\ \A v \in Worker : (Stationed(v) /\ Unadjusted(v))'
  BY <1>2, <1>4, <1>5, <1>6, GoingOnKeepsTypes DEF Finish
<1>8. target' \in {"empty", "built", "poisoned"}
  BY DEF Finish, TypeInv, TypeOK
<1> QED BY <1>7, <1>8 DEF Finish, TypeInv, TypeOK, Work

LEMMA WalkKeepsTypes ==
  ASSUME TypeInv, NEW w \in Worker, Walk(w)
  PROVE  TypeInv'
<1> DEFINE pc == IF \E r \in worker[w].node : Panics(r, w) THEN "panic" ELSE "return"
           diags == worker[w].diags \cup UNION {RuleDiags(r, w) : r \in worker[w].node}
           new == [worker[w] EXCEPT !.pc = pc, !.diags = diags]
<1>1. worker \in [Worker -> WorkerRec] /\ worker[w] \in WorkerRec
  BY DEF TypeInv, TypeOK
<1>2. worker' = [worker EXCEPT ![w] = new]
  <2>1. worker' = [worker EXCEPT ![w].pc = pc, ![w].diags = diags]
    BY <1>1 DEF Walk
  <2> HIDE DEF pc, diags
  <2> QED BY <1>1, <2>1
<1>3. worker[w].at \in 1..Len(Work) /\ Unadjusted(w)
  BY DEF Walk, TypeInv, Stationed
<1>4. pc \in {"panic", "return"}
  BY Zenon
<1>5. diags \in SUBSET Diagnostic /\ \A d \in diags : d.line \in 1..2
  <2>1. \A r \in worker[w].node : /\ RuleDiags(r, w) \subseteq Diagnostic
                                  /\ \A d \in RuleDiags(r, w) : d.line \in 1..2
    BY <1>1, <1>3, FindingsAreTyped DEF WorkerRec
  <2>2. worker[w].diags \subseteq Diagnostic /\ \A d \in worker[w].diags : d.line \in 1..2
    BY <1>1, <1>3 DEF WorkerRec, Unadjusted
  <2> QED BY <2>1, <2>2
<1> HIDE DEF pc, diags
<1>6. /\ new \in WorkerRec
      /\ new.pc = pc /\ new.at = worker[w].at /\ new.buf = worker[w].buf
      /\ new.diags = diags
  BY <1>1, <1>4, <1>5 DEF WorkerRec
<1> HIDE DEF new
<1>7. /\ worker' \in [Worker -> WorkerRec]
      /\ \A v \in Worker : (Stationed(v) /\ Unadjusted(v))'
  BY <1>2, <1>4, <1>5, <1>6, GoingOnKeepsTypes DEF Walk
<1> QED BY <1>7 DEF Walk, TypeInv, TypeOK, Work

(* What Return reports.                                                    *)
Shown(w) ==
  PopulateSourceContext(
    AdjustDiagnostics(FilterGeneratedDiags(worker[w].diags, FileOf(w)), FileOf(w)),
    worker[w].buf)

LEMMA ShownIsTyped ==
  ASSUME TypeInv, NEW w \in Worker, worker[w].buf \in Buffer
  PROVE  Shown(w) \subseteq Diagnostic
<1> DEFINE kept == FilterGeneratedDiags(worker[w].diags, FileOf(w))
           moved == AdjustDiagnostics(kept, FileOf(w))
<1>1. worker[w].diags \subseteq Diagnostic /\ \A d \in worker[w].diags : d.line \in 1..2
  BY DEF TypeInv, TypeOK, WorkerRec, Unadjusted
<1>2. kept \subseteq worker[w].diags
  BY DEF FilterGeneratedDiags
<1>3. kept \subseteq Diagnostic /\ \A d \in kept : d.line \in 1..2
  BY <1>1, <1>2
<1> HIDE DEF kept
<1>4. moved \subseteq Diagnostic
  BY <1>3 DEF AdjustDiagnostics, Diagnostic
<1> HIDE DEF moved
<1>5. PopulateSourceContext(moved, worker[w].buf) \subseteq Diagnostic
  BY <1>4 DEF PopulateSourceContext, Diagnostic
<1> QED BY <1>5 DEF Shown, kept, moved

LEMMA EndKeepsTypes ==
  ASSUME TypeInv, NEW w \in Worker, Fail(w) \/ Return(w) \/ Recover(w)
  PROVE  TypeInv'
<1>1. worker[w] \in WorkerRec
  BY DEF TypeInv, TypeOK
<1>2. CASE Fail(w)
  <2>1. [diags |-> {}, errs |-> {None}] \in Outcome
    BY DEF Outcome
  <2> QED BY <1>2, <2>1, PutBackKeepsTypes DEF Fail
<1>3. CASE Return(w)
  <2>1. PutBack(w, [diags |-> Shown(w), errs |-> worker[w].errs])
    BY <1>3, Zenon DEF Return, Shown
  <2>2. worker[w].buf \in Buffer
    BY <1>3 DEF Return, TypeInv, Stationed
  <2>3. [diags |-> Shown(w), errs |-> worker[w].errs] \in Outcome
    BY <1>1, <2>2, ShownIsTyped DEF Outcome, WorkerRec
  <2> QED BY <1>3, <2>1, <2>3, PutBackKeepsTypes DEF Return
<1>4. CASE Recover(w)
  <2>1. PanicDiagnostic(FileOf(w)) \in Diagnostic
    <3>1. worker[w].at \in 1..Len(Work)
      BY <1>4 DEF Recover, TypeInv, Stationed
    <3>2. FileOf(w) \in File
      BY <3>1, WorkIsFiles DEF FileOf, TypeInv, TypeOK
    <3> QED BY <3>2 DEF PanicDiagnostic, Diagnostic
  <2>2. [diags |-> {PanicDiagnostic(FileOf(w))}, errs |-> {}] \in Outcome
    BY <2>1 DEF Outcome
  <2> QED BY <1>4, <2>2, PutBackKeepsTypes DEF Recover
<1> QED BY <1>2, <1>3, <1>4

-----------------------------------------------------------------------------
(* The invariant.                                                          *)

(* An index that was handed out has its outcome, or a worker that is at it. *)
Accounted ==
  /\ \A i \in 1..Len(Work) :
       i <= next => \/ outcome[i] \in Outcome
                    \/ \E w \in Worker : worker[w].pc \notin {"take", "gone"}
                                        /\ worker[w].at = i
  /\ \A w \in Worker : worker[w].pc = "gone" /\ w <= Workers => next >= Len(Work)

(* What is cached is what anybody would compute.                           *)
CachesAgree ==
  /\ \A k \in Key : eff[k] \in {None, On[k]}
  /\ \A w \in Worker, k \in Key : conf[w][k] \in {None, ConfigureEnabledRules(On[k])}
  /\ target = "poisoned" => run.bad
  /\ target = "built" => ~run.bad

RulesFor(f) == EffectiveAllForKinds(f) \ Misset

Down(r, f) == f \in PanicsOn[r] \/ (r \in Sharing /\ run.bad)

SaidOf(r, f) ==
  IF Down(r, f) THEN {PanicDiagnostic(f)}
  ELSE IF f \notin Finds[r] THEN {}
  ELSE {[file |-> IF r \in Repo THEN None ELSE f,
         line |-> IF r \in Repo THEN 1 ELSE 2, rule |-> r, lines |-> None]}

SaidBy(rules, f) == UNION {SaidOf(r, f) : r \in rules}

Failing == Unreadable \cup TooLarge \cup BadFront

(* The rules of a worker's file that have run.                             *)
Done(w) == (RulesFor(FileOf(w)) \ Node) \ (worker[w].todo \cup worker[w].busy)

(* What a worker knows at each stage is true of its file alone.             *)
ReadsItsFile(w) ==
  /\ worker[w].pc \in {"load", "store", "configure", "check", "return", "panic"}
       => FileOf(w) \notin Failing /\ content[worker[w].buf] = FileOf(w)
  /\ worker[w].pc = "failed" => FileOf(w) \in Failing

KnowsItsRules(w) ==
  /\ worker[w].pc \in {"store", "configure"}
       => worker[w].on = EffectiveAllForKinds(FileOf(w))
  /\ worker[w].pc \in {"check", "return"}
       => /\ worker[w].errs = EffectiveAllForKinds(FileOf(w)) \cap Misset
          /\ worker[w].node = RulesFor(FileOf(w)) \cap Node

RunsEachOnce(w) ==
  /\ worker[w].busy # {} => worker[w].pc = "check"
  /\ IsFiniteSet(worker[w].busy)
  /\ IntraFileCap = 1 => \A r, s \in worker[w].busy : r = s
  /\ worker[w].pc = "check" =>
       /\ worker[w].todo \cup worker[w].busy \subseteq RulesFor(FileOf(w)) \ Node
       /\ worker[w].todo \cap worker[w].busy = {}

HasSaid(w) ==
  /\ worker[w].pc \notin {"check", "return", "panic"} => worker[w].diags = {}
  /\ worker[w].pc = "check" =>
       /\ worker[w].diags = SaidBy(Done(w), FileOf(w))
       /\ IntraFileCap = 1 => \A r \in Done(w) : ~Down(r, FileOf(w))
  /\ worker[w].pc = "return" =>
       /\ worker[w].diags = SaidBy(RulesFor(FileOf(w)), FileOf(w))
       /\ \A r \in RulesFor(FileOf(w)) :
            IntraFileCap = 1 \/ r \in Node => ~Down(r, FileOf(w))
  /\ worker[w].pc = "panic" =>
       \E r \in RulesFor(FileOf(w)) :
         Down(r, FileOf(w)) /\ (IntraFileCap = 1 \/ r \in Node)

(* An outcome is the one its file has alone.                               *)
AsAlone(i) ==
  outcome[i] # None =>
    /\ RulesOf(outcome[i]) = LintedAlone(Work[i], IntraFileCap, run.bad)
    /\ \A d \in outcome[i].diags : d.file \in {Work[i], None}

WorkerInv(w) ==
  ReadsItsFile(w) /\ KnowsItsRules(w) /\ RunsEachOnce(w) /\ HasSaid(w)

(* Nothing goes on once the outcomes are merged.                            *)
MergedAtEnd ==
  result # None =>
    /\ \A w \in Worker : worker[w].pc = "gone"
    /\ \A i \in 1..Len(Work) : outcome[i] # None

EngineInv ==
  /\ TypeInv
  /\ BufferOwned
  /\ Accounted
  /\ CachesAgree
  /\ \A w \in Worker : WorkerInv(w)
  /\ \A i \in 1..Len(Work) : AsAlone(i)
  /\ MergedAtEnd

-----------------------------------------------------------------------------
(* What each step does to its worker.                                      *)

(* A worker goes from one stage of its file to another.                    *)
GoesOn(w) ==
  /\ worker[w].pc \notin {"take", "gone"} /\ worker'[w].pc \notin {"take", "gone"}
  /\ worker'[w].at = worker[w].at
  /\ UNCHANGED <<run, next, outcome, result>>
  /\ \A v \in Worker \ {w} : worker'[v] = worker[v]

LEMMA DrawShape ==
  ASSUME TypeInv, NEW w \in Worker, NEW b \in Buffer, Draw(w, b)
  PROVE  /\ GoesOn(w)
         /\ worker[w].pc = "draw" /\ worker'[w].pc = "read" /\ worker'[w].buf = b
         /\ worker'[w].busy = worker[w].busy /\ worker'[w].diags = worker[w].diags
BY DEF Draw, GoesOn, TypeInv, TypeOK, WorkerRec

LEMMA ReadShape ==
  ASSUME TypeInv, NEW w \in Worker, Read(w)
  PROVE  /\ GoesOn(w)
         /\ worker[w].pc = "read" /\ worker'[w].buf = worker[w].buf
         /\ worker'[w].pc = IF FileOf(w) \in Failing THEN "failed" ELSE "load"
         /\ worker'[w].busy = worker[w].busy /\ worker'[w].diags = worker[w].diags
<1> DEFINE pc == IF FileOf(w) \in Failing THEN "failed" ELSE "load"
<1>1. worker' = [worker EXCEPT ![w].pc = pc]
  BY DEF Read, Failing
<1>2. pc \in {"failed", "load"}
  OBVIOUS
<1> HIDE DEF pc
<1>3. worker'[w].pc = pc
  BY <1>1 DEF TypeInv, TypeOK, WorkerRec
<1>4. GoesOn(w) /\ worker[w].pc = "read" /\ worker'[w].buf = worker[w].buf
  BY <1>1, <1>2 DEF Read, GoesOn, TypeInv, TypeOK, WorkerRec
<1>5. worker'[w].busy = worker[w].busy /\ worker'[w].diags = worker[w].diags
  BY <1>1 DEF TypeInv, TypeOK, WorkerRec
<1> QED BY <1>3, <1>4, <1>5 DEF pc

LEMMA LoadShape ==
  ASSUME TypeInv, CachesAgree, NEW w \in Worker, LoadEffective(w)
  PROVE  /\ GoesOn(w)
         /\ worker[w].pc = "load" /\ worker'[w].pc \in {"store", "configure"}
         /\ worker'[w].buf = worker[w].buf
         /\ worker'[w].on = EffectiveAllForKinds(FileOf(w))
         /\ worker'[w].busy = worker[w].busy /\ worker'[w].diags = worker[w].diags
<1> DEFINE hit == eff[EffectiveSignature(FileOf(w))]
           on == IF hit = None THEN EffectiveAllForKinds(FileOf(w)) ELSE hit
           pc == IF hit = None THEN "store" ELSE "configure"
<1>1. worker[w].pc = "load" /\ worker[w].at \in 1..Len(Work)
  BY DEF LoadEffective, TypeInv, Stationed
<1>2. FileOf(w) \in File
  BY <1>1, WorkIsFiles DEF FileOf, TypeInv, TypeOK
<1>3. hit \in {None, EffectiveAllForKinds(FileOf(w))}
  BY <1>2, SignatureIsKey DEF CachesAgree
<1>4. worker' = [worker EXCEPT ![w] = [worker[w] EXCEPT !.on = on, !.pc = pc]]
  BY DEF LoadEffective
<1>5. on = EffectiveAllForKinds(FileOf(w)) /\ pc \in {"store", "configure"}
  BY <1>3
<1> HIDE DEF on, pc
<1>6. worker'[w].on = on /\ worker'[w].pc = pc
  BY <1>4 DEF TypeInv, TypeOK, WorkerRec
<1>7. GoesOn(w)
  BY <1>1, <1>4, <1>5, <1>6 DEF LoadEffective, GoesOn, TypeInv, TypeOK, WorkerRec
<1>8. /\ worker'[w].buf = worker[w].buf
      /\ worker'[w].busy = worker[w].busy /\ worker'[w].diags = worker[w].diags
  BY <1>4 DEF TypeInv, TypeOK, WorkerRec
<1> QED BY <1>1, <1>5, <1>6, <1>7, <1>8

LEMMA StoreShape ==
  ASSUME TypeInv, CachesAgree, NEW w \in Worker, StoreEffective(w),
         worker[w].on = EffectiveAllForKinds(FileOf(w))
  PROVE  /\ GoesOn(w)
         /\ worker[w].pc = "store" /\ worker'[w].pc = "configure"
         /\ worker'[w].buf = worker[w].buf
         /\ worker'[w].on = EffectiveAllForKinds(FileOf(w))
         /\ worker'[w].busy = worker[w].busy /\ worker'[w].diags = worker[w].diags
         /\ \A k \in Key : eff'[k] \in {None, On[k]}
<1> DEFINE k == EffectiveSignature(FileOf(w))
           all == EffectiveAllForKinds(FileOf(w))
<1>1. worker[w].pc = "store" /\ worker[w].at \in 1..Len(Work)
  BY DEF StoreEffective, TypeInv, Stationed
<1>2. FileOf(w) \in File
  BY <1>1, WorkIsFiles DEF FileOf, TypeInv, TypeOK
<1>3. k \in Key /\ all = On[k]
  BY <1>2, SignatureIsKey
<1>4. eff' = [eff EXCEPT ![k] = IF eff[k] = None THEN worker[w].on ELSE eff[k]]
  BY Zenon DEF StoreEffective
<1>5. worker' = [worker EXCEPT ![w].on = eff'[k], ![w].pc = "configure"]
  BY Zenon DEF StoreEffective
<1> HIDE DEF k, all
<1>6. worker[w].on = all
  BY DEF all
<1>7. eff[k] \in {None, all}
  BY <1>3 DEF CachesAgree
<1>8. eff' = [eff EXCEPT ![k] = all]
  BY <1>4, <1>6, <1>7
<1>9. eff'[k] = all /\ \A l \in Key : eff'[l] \in {None, On[l]}
  BY <1>3, <1>8 DEF CachesAgree, TypeInv, TypeOK
<1>10. worker' = [worker EXCEPT ![w].on = all, ![w].pc = "configure"]
  BY <1>5, <1>9
<1>11. /\ GoesOn(w) /\ worker'[w].pc = "configure" /\ worker'[w].on = all
       /\ worker'[w].buf = worker[w].buf
       /\ worker'[w].busy = worker[w].busy /\ worker'[w].diags = worker[w].diags
  BY <1>1, <1>10 DEF StoreEffective, GoesOn, TypeInv, TypeOK, WorkerRec
<1> QED BY <1>1, <1>9, <1>11 DEF all

LEMMA ConfigureShape ==
  ASSUME TypeInv, CachesAgree, NEW w \in Worker, Configure(w),
         worker[w].on = EffectiveAllForKinds(FileOf(w))
  PROVE  /\ GoesOn(w)
         /\ worker[w].pc = "configure" /\ worker'[w].pc = "check"
         /\ worker'[w].buf = worker[w].buf
         /\ worker'[w].errs = EffectiveAllForKinds(FileOf(w)) \cap Misset
         /\ worker'[w].todo = RulesFor(FileOf(w)) \ Node
         /\ worker'[w].node = RulesFor(FileOf(w)) \cap Node
         /\ worker'[w].busy = worker[w].busy /\ worker'[w].diags = worker[w].diags
         /\ \A v \in Worker, k \in Key :
              conf'[v][k] \in {None, ConfigureEnabledRules(On[k])}
<1> DEFINE k == EffectiveSignature(FileOf(w))
           all == EffectiveAllForKinds(FileOf(w))
           c == IF conf[w][k] = None THEN ConfigureEnabledRules(worker[w].on)
                                     ELSE conf[w][k]
<1>1. worker[w].pc = "configure" /\ worker[w].at \in 1..Len(Work)
  BY DEF Configure, TypeInv, Stationed
<1>2. FileOf(w) \in File
  BY <1>1, WorkIsFiles DEF FileOf, TypeInv, TypeOK
<1>3. k \in Key /\ all = On[k]
  BY <1>2, SignatureIsKey
<1>4. /\ conf' = [conf EXCEPT ![w][k] = c]
      /\ worker' = [worker EXCEPT ![w] = [worker[w] EXCEPT !.pc = "check",
                       !.errs = c.errs, !.todo = c.rules \ Node,
                       !.node = c.rules \cap Node]]
  BY DEF Configure
<1> HIDE DEF k
<1>5. conf[w][k] \in {None, ConfigureEnabledRules(all)}
  BY <1>3 DEF CachesAgree
<1>6. c = ConfigureEnabledRules(all)
  BY <1>5
<1> HIDE DEF c, all
<1>7. c.rules = all \ Misset /\ c.errs = all \cap Misset
  BY <1>6 DEF ConfigureEnabledRules
<1>8. \A v \in Worker, l \in Key : conf'[v][l] \in {None, ConfigureEnabledRules(On[l])}
  BY <1>3, <1>4, <1>6 DEF CachesAgree, TypeInv, TypeOK
<1>9. UNCHANGED <<run, next, outcome, result>>
  BY DEF Configure
<1> DEFINE errs == c.errs
           todo == c.rules \ Node
           node == c.rules \cap Node
<1>10. worker' = [worker EXCEPT ![w] = [worker[w] EXCEPT !.pc = "check",
                   !.errs = errs, !.todo = todo, !.node = node]]
  BY <1>4
<1> HIDE DEF errs, todo, node
<1>11. /\ GoesOn(w) /\ worker'[w].pc = "check"
       /\ worker'[w].buf = worker[w].buf
       /\ worker'[w].errs = errs
       /\ worker'[w].todo = todo
       /\ worker'[w].node = node
       /\ worker'[w].busy = worker[w].busy /\ worker'[w].diags = worker[w].diags
  BY <1>1, <1>9, <1>10 DEF GoesOn, TypeInv, TypeOK, WorkerRec
<1> QED BY <1>1, <1>7, <1>8, <1>11 DEF RulesFor, all, errs, todo, node

LEMMA StartShape ==
  ASSUME TypeInv, NEW w \in Worker, NEW r \in Rule, Start(w, r)
  PROVE  /\ GoesOn(w)
         /\ worker[w].pc = "check" /\ worker'[w].pc = "check"
         /\ worker'[w].buf = worker[w].buf
         /\ worker'[w].errs = worker[w].errs /\ worker'[w].node = worker[w].node
         /\ r \in worker[w].todo
         /\ worker'[w].todo = worker[w].todo \ {r}
         /\ worker'[w].busy = worker[w].busy \cup {r}
         /\ worker'[w].diags = worker[w].diags
BY DEF Start, GoesOn, TypeInv, TypeOK, WorkerRec

LEMMA FinishShape ==
  ASSUME TypeInv, NEW w \in Worker, NEW r \in Rule, worker[w].pc = "check", Finish(w, r)
  PROVE  /\ GoesOn(w)
         /\ worker'[w].pc = IF Panics(r, w) /\ IntraFileCap = 1 THEN "panic" ELSE "check"
         /\ worker'[w].buf = worker[w].buf
         /\ worker'[w].errs = worker[w].errs /\ worker'[w].node = worker[w].node
         /\ r \in worker[w].busy
         /\ worker'[w].todo = worker[w].todo
         /\ worker'[w].busy = worker[w].busy \ {r}
         /\ worker'[w].diags = worker[w].diags \cup Said(r, w)
<1> DEFINE pc == IF Panics(r, w) /\ IntraFileCap = 1 THEN "panic" ELSE "check"
           said == Said(r, w)
<1>1. worker \in [Worker -> WorkerRec]
  BY DEF TypeInv, TypeOK
<1>2. worker' = [worker EXCEPT ![w].busy = @ \ {r}, ![w].pc = pc,
                               ![w].diags = @ \cup said]
  BY <1>1 DEF Finish, Said, WorkerRec
<1>3. pc \in {"panic", "check"}
  OBVIOUS
<1> HIDE DEF pc, said
<1>4. /\ GoesOn(w) /\ worker'[w].pc = pc
      /\ worker'[w].buf = worker[w].buf
      /\ worker'[w].errs = worker[w].errs /\ worker'[w].node = worker[w].node
      /\ r \in worker[w].busy
      /\ worker'[w].todo = worker[w].todo
      /\ worker'[w].busy = worker[w].busy \ {r}
      /\ worker'[w].diags = worker[w].diags \cup said
  BY <1>1, <1>2, <1>3 DEF Finish, GoesOn, WorkerRec
<1> QED BY <1>4 DEF pc, said

LEMMA WalkShape ==
  ASSUME TypeInv, NEW w \in Worker, Walk(w)
  PROVE  /\ GoesOn(w)
         /\ worker[w].pc = "check" /\ worker[w].todo = {} /\ worker[w].busy = {}
         /\ worker'[w].pc = IF \E r \in worker[w].node : Panics(r, w)
                              THEN "panic" ELSE "return"
         /\ worker'[w].buf = worker[w].buf
         /\ worker'[w].errs = worker[w].errs /\ worker'[w].node = worker[w].node
         /\ worker'[w].busy = {}
         /\ worker'[w].diags =
              worker[w].diags \cup UNION {RuleDiags(r, w) : r \in worker[w].node}
<1> DEFINE pc == IF \E r \in worker[w].node : Panics(r, w) THEN "panic" ELSE "return"
           said == UNION {RuleDiags(r, w) : r \in worker[w].node}
<1>1. worker \in [Worker -> WorkerRec]
  BY DEF TypeInv, TypeOK
<1>2. worker' = [worker EXCEPT ![w].pc = pc, ![w].diags = @ \cup said]
  BY <1>1 DEF Walk, WorkerRec
<1>3. pc \in {"panic", "return"}
  BY Zenon
<1> HIDE DEF pc, said
<1>4. /\ GoesOn(w) /\ worker[w].pc = "check"
      /\ worker[w].todo = {} /\ worker[w].busy = {}
      /\ worker'[w].pc = pc
      /\ worker'[w].buf = worker[w].buf
      /\ worker'[w].errs = worker[w].errs /\ worker'[w].node = worker[w].node
      /\ worker'[w].busy = {}
      /\ worker'[w].diags = worker[w].diags \cup said
  BY <1>1, <1>2, <1>3 DEF Walk, GoesOn, WorkerRec
<1> QED BY <1>4 DEF pc, said

(* A worker that is done with its file.                                    *)
LEMMA EndShape ==
  ASSUME TypeInv, NEW w \in Worker, NEW o, PutBack(w, o), run' = run,
         worker[w].pc \notin {"take", "gone", "draw"}
  PROVE  /\ worker'[w] = Resting
         /\ \A v \in Worker \ {w} : worker'[v] = worker[v]
         /\ worker[w].at \in 1..Len(Work) /\ worker[w].buf \in Buffer
         /\ outcome'[worker[w].at] = o
         /\ \A i \in 1..Len(Work) : i # worker[w].at => outcome'[i] = outcome[i]
         /\ free'[worker[w].buf] = free[worker[w].buf] + 1
         /\ \A b \in Buffer : b # worker[w].buf => free'[b] = free[b]
BY DEF PutBack, TypeInv, TypeOK, Stationed

LEMMA TakeShape ==
  ASSUME TypeInv, NEW w \in Worker, Take(w)
  PROVE  /\ worker[w].pc = "take"
         /\ \A v \in Worker \ {w} : worker'[v] = worker[v]
         /\ worker'[w].buf = None /\ worker'[w].busy = {} /\ worker'[w].diags = {}
         /\ next < Len(Work) => worker'[w].pc = "draw" /\ worker'[w].at = next + 1
         /\ ~(next < Len(Work)) => worker'[w].pc = "gone"
         /\ next' = next + 1
         /\ UNCHANGED <<run, free, content, eff, conf, target, outcome, result>>
<1>1. CASE next < Len(Work)
  BY <1>1 DEF Take, Resting, TypeInv, TypeOK
<1>2. CASE ~(next < Len(Work))
  BY <1>2 DEF Take, Resting, TypeInv, TypeOK
<1> QED BY <1>1, <1>2

-----------------------------------------------------------------------------
(* Files do not disturb each other.                                        *)

(* Whatever changes elsewhere, a worker that keeps its record, and whose    *)
(* buffer keeps its bytes, knows what it knew.                             *)
LEMMA OthersKnowAsMuch ==
  ASSUME run' = run, NEW v \in Worker, WorkerInv(v), worker'[v] = worker[v],
         worker[v].buf \in Buffer => content'[worker[v].buf] = content[worker[v].buf],
         Stationed(v)
  PROVE  WorkerInv(v)'
<1>1. Work' = Work /\ IntraFileCap' = IntraFileCap /\ FileOf(v)' = FileOf(v)
  BY DEF Work, IntraFileCap, Workers, FileOf
<1>2. Done(v)' = Done(v) /\ \A r \in Rule : Down(r, FileOf(v))' = Down(r, FileOf(v))
  BY <1>1 DEF Done, Down
<1>3. ReadsItsFile(v)'
  BY <1>1 DEF WorkerInv, ReadsItsFile, Stationed
<1>4. KnowsItsRules(v)' /\ RunsEachOnce(v)'
  BY <1>1 DEF WorkerInv, KnowsItsRules, RunsEachOnce
<1>5. /\ SaidBy(Done(v), FileOf(v))' = SaidBy(Done(v), FileOf(v))
      /\ SaidBy(RulesFor(FileOf(v)), FileOf(v))' = SaidBy(RulesFor(FileOf(v)), FileOf(v))
  BY <1>1, <1>2 DEF SaidBy, SaidOf, Down, RulesFor
<1>6. RulesFor(FileOf(v))' = RulesFor(FileOf(v))
  BY <1>1 DEF RulesFor, EffectiveAllForKinds
<1>7. HasSaid(v)'
  BY <1>1, <1>2, <1>5, <1>6 DEF WorkerInv, HasSaid, Down
<1> QED BY <1>3, <1>4, <1>7 DEF WorkerInv

(* What a rule does over a file's own bytes depends on the file alone.      *)
LEMMA RuleSaysItsOwn ==
  ASSUME TypeInv, CachesAgree, NEW w \in Worker, NEW r \in Rule,
         content[worker[w].buf] = FileOf(w)
  PROVE  /\ Panics(r, w) <=> Down(r, FileOf(w))
         /\ Said(r, w) = SaidOf(r, FileOf(w))
         /\ ~Down(r, FileOf(w)) => RuleDiags(r, w) = SaidOf(r, FileOf(w))
<1>1. Panics(r, w) <=> Down(r, FileOf(w))
  <2>1. target \in {"empty", "built", "poisoned"}
    BY DEF TypeInv, TypeOK
  <2> QED BY <2>1 DEF Panics, Down, CachesAgree
<1>2. RuleDiags(r, w) = IF FileOf(w) \notin Finds[r] THEN {}
                        ELSE {[file |-> IF r \in Repo THEN None ELSE FileOf(w),
                               line |-> IF r \in Repo THEN 1 ELSE 2,
                               rule |-> r, lines |-> None]}
  BY DEF RuleDiags
<1> QED BY <1>1, <1>2, Zenon DEF Said, SaidOf

(* The stages of one file, a step at a time.                               *)
LEMMA TakeKnows ==
  ASSUME TypeInv, NEW w \in Worker, Take(w)
  PROVE  WorkerInv(w)'
<1>1. /\ worker'[w].pc \in {"draw", "gone"}
      /\ worker'[w].busy = {} /\ worker'[w].diags = {}
  BY TakeShape, WorkIsFiles DEF TypeInv, TypeOK
<1>2. IsFiniteSet({})
  BY FS_EmptySet
<1> QED BY <1>1, <1>2 DEF WorkerInv, ReadsItsFile, KnowsItsRules, RunsEachOnce, HasSaid

LEMMA RestKnows ==
  ASSUME NEW w \in Worker, worker'[w] = Resting
  PROVE  WorkerInv(w)'
<1>1. worker'[w].pc = "take" /\ worker'[w].busy = {} /\ worker'[w].diags = {}
  BY RestingIsTyped
<1>2. IsFiniteSet({})
  BY FS_EmptySet
<1> QED BY <1>1, <1>2 DEF WorkerInv, ReadsItsFile, KnowsItsRules, RunsEachOnce, HasSaid

(* The same file, rules and settings after a step as before.               *)
LEMMA SameFile ==
  ASSUME NEW w \in Worker, GoesOn(w)
  PROVE  /\ FileOf(w)' = FileOf(w)
         /\ IntraFileCap' = IntraFileCap
         /\ EffectiveAllForKinds(FileOf(w))' = EffectiveAllForKinds(FileOf(w))
         /\ RulesFor(FileOf(w))' = RulesFor(FileOf(w))
         /\ \A r \in Rule : Down(r, FileOf(w))' = Down(r, FileOf(w))
<1>1. FileOf(w)' = FileOf(w) /\ IntraFileCap' = IntraFileCap /\ run' = run
  BY DEF GoesOn, FileOf, Work, IntraFileCap, Workers
<1> QED BY <1>1 DEF RulesFor, EffectiveAllForKinds, Down

LEMMA EarlyKnows ==
  ASSUME TypeInv, CachesAgree, NEW w \in Worker, WorkerInv(w),
         \/ \E b \in Buffer : Draw(w, b)
         \/ Read(w) \/ LoadEffective(w) \/ StoreEffective(w)
  PROVE  WorkerInv(w)'
<1> USE DEF WorkerInv, ReadsItsFile, KnowsItsRules, RunsEachOnce, HasSaid
<1>1. ASSUME NEW b \in Buffer, Draw(w, b) PROVE WorkerInv(w)'
  BY <1>1, DrawShape
<1>2. CASE Read(w)
  <2>1. /\ GoesOn(w) /\ worker[w].pc = "read" /\ worker'[w].buf = worker[w].buf
        /\ worker'[w].pc = IF FileOf(w) \in Failing THEN "failed" ELSE "load"
        /\ worker'[w].busy = worker[w].busy /\ worker'[w].diags = worker[w].diags
    BY <1>2, ReadShape
  <2>2. worker[w].buf \in Buffer
    BY <2>1 DEF TypeInv, Stationed
  <2>3. FileOf(w) \notin Failing => content'[worker[w].buf] = FileOf(w)
    BY <1>2, <2>2 DEF Read, Failing, TypeInv, TypeOK
  <2> QED BY <2>1, <2>3, SameFile
<1>3. CASE LoadEffective(w)
  <2>1. content' = content
    BY <1>3 DEF LoadEffective
  <2> QED BY <1>3, <2>1, LoadShape, SameFile
<1>4. CASE StoreEffective(w)
  <2>1. content' = content /\ worker[w].pc = "store"
    BY <1>4 DEF StoreEffective
  <2> QED BY <1>4, <2>1, StoreShape, SameFile
<1> QED BY <1>1, <1>2, <1>3, <1>4

LEMMA ConfigureKnows ==
  ASSUME TypeInv, CachesAgree, NEW w \in Worker, WorkerInv(w), Configure(w)
  PROVE  WorkerInv(w)'
<1>1. content' = content /\ worker[w].pc = "configure"
  BY DEF Configure
<1>2. /\ worker[w].on = EffectiveAllForKinds(FileOf(w))
      /\ worker[w].busy = {} /\ worker[w].diags = {}
  BY <1>1 DEF WorkerInv, KnowsItsRules, RunsEachOnce, HasSaid
<1>3. /\ GoesOn(w)
      /\ worker'[w].pc = "check"
      /\ worker'[w].buf = worker[w].buf
      /\ worker'[w].errs = EffectiveAllForKinds(FileOf(w)) \cap Misset
      /\ worker'[w].todo = RulesFor(FileOf(w)) \ Node
      /\ worker'[w].node = RulesFor(FileOf(w)) \cap Node
      /\ worker'[w].busy = {} /\ worker'[w].diags = {}
  BY <1>2, ConfigureShape
<1>4. Done(w)' = {}
  BY <1>3, SameFile DEF Done
<1>5. SaidBy(Done(w), FileOf(w))' = {}
  BY <1>4 DEF SaidBy
<1>6. IsFiniteSet({})
  BY FS_EmptySet
<1>7. ReadsItsFile(w)' /\ KnowsItsRules(w)'
  BY <1>1, <1>3, SameFile DEF WorkerInv, ReadsItsFile, KnowsItsRules
<1>8. RunsEachOnce(w)'
  BY <1>3, <1>6, SameFile DEF RunsEachOnce
<1>9. HasSaid(w)'
  BY <1>3, <1>4, <1>5 DEF HasSaid
<1> QED BY <1>7, <1>8, <1>9 DEF WorkerInv

LEMMA StartKnows ==
  ASSUME TypeInv, NEW w \in Worker, WorkerInv(w), NEW r \in Rule, Start(w, r)
  PROVE  WorkerInv(w)'
<1>1. /\ GoesOn(w)
      /\ worker[w].pc = "check" /\ worker'[w].pc = "check"
      /\ worker'[w].buf = worker[w].buf
      /\ worker'[w].errs = worker[w].errs /\ worker'[w].node = worker[w].node
      /\ r \in worker[w].todo
      /\ worker'[w].todo = worker[w].todo \ {r}
      /\ worker'[w].busy = worker[w].busy \cup {r}
      /\ worker'[w].diags = worker[w].diags
  BY StartShape
<1>2. content' = content /\ run' = run /\ Cardinality(worker[w].busy) < IntraFileCap
  BY DEF Start
<1>3. Done(w)' = Done(w)
  BY <1>1, SameFile DEF Done
<1>4. SaidBy(Done(w), FileOf(w))' = SaidBy(Done(w), FileOf(w))
  BY <1>1, <1>2, <1>3, SameFile DEF SaidBy, SaidOf, Down
<1>5. ReadsItsFile(w)' /\ KnowsItsRules(w)'
  BY <1>1, <1>2, SameFile DEF WorkerInv, ReadsItsFile, KnowsItsRules
<1>6. RunsEachOnce(w)'
  <2>1. IsFiniteSet(worker'[w].busy)
    BY <1>1, FS_AddElement DEF WorkerInv, RunsEachOnce
  <2>2. IntraFileCap = 1 => worker[w].busy = {}
    <3>1. SUFFICES ASSUME IntraFileCap = 1 PROVE worker[w].busy = {}
      OBVIOUS
    <3>2. IsFiniteSet(worker[w].busy)
      BY DEF WorkerInv, RunsEachOnce
    <3>3. Cardinality(worker[w].busy) \in Nat
      BY <3>2, FS_CardinalityType
    <3>4. Cardinality(worker[w].busy) = 0
      BY <1>2, <3>1, <3>3
    <3> QED BY <3>2, <3>4, FS_EmptySet
  <2>3. /\ worker[w].todo \cup worker[w].busy \subseteq RulesFor(FileOf(w)) \ Node
        /\ worker[w].todo \cap worker[w].busy = {}
    BY <1>1 DEF WorkerInv, RunsEachOnce
  <2> QED BY <1>1, <2>1, <2>2, <2>3, SameFile DEF RunsEachOnce
<1>7. HasSaid(w)'
  <2>1. /\ worker[w].diags = SaidBy(Done(w), FileOf(w))
        /\ IntraFileCap = 1 => \A s \in Done(w) : ~Down(s, FileOf(w))
    BY <1>1 DEF WorkerInv, HasSaid
  <2>2. (IntraFileCap = 1 => \A s \in Done(w) : ~Down(s, FileOf(w)))'
    BY <1>1, <1>2, <1>3, <2>1, SameFile DEF Down
  <2> QED BY <1>1, <1>4, <2>1, <2>2 DEF HasSaid
<1> QED BY <1>5, <1>6, <1>7 DEF WorkerInv

LEMMA FinishKnows ==
  ASSUME TypeInv, CachesAgree, NEW w \in Worker, WorkerInv(w), NEW r \in Rule, Finish(w, r)
  PROVE  WorkerInv(w)'
<1> DEFINE f == FileOf(w)
<1>1. worker[w].pc = "check" /\ r \in worker[w].busy
  BY DEF Finish, WorkerInv, RunsEachOnce
<1>2. /\ GoesOn(w)
      /\ worker'[w].pc = IF Panics(r, w) /\ IntraFileCap = 1 THEN "panic" ELSE "check"
      /\ worker'[w].buf = worker[w].buf
      /\ worker'[w].errs = worker[w].errs /\ worker'[w].node = worker[w].node
      /\ worker'[w].todo = worker[w].todo
      /\ worker'[w].busy = worker[w].busy \ {r}
      /\ worker'[w].diags = worker[w].diags \cup Said(r, w)
  BY <1>1, FinishShape
<1>3. content' = content /\ run' = run
  BY DEF Finish
<1>4. /\ f \notin Failing /\ content[worker[w].buf] = f
      /\ worker[w].errs = EffectiveAllForKinds(f) \cap Misset
      /\ worker[w].node = RulesFor(f) \cap Node
      /\ worker[w].todo \cup worker[w].busy \subseteq RulesFor(f) \ Node
      /\ worker[w].todo \cap worker[w].busy = {}
      /\ IsFiniteSet(worker[w].busy)
      /\ IntraFileCap = 1 => worker[w].busy = {r}
      /\ worker[w].diags = SaidBy(Done(w), f)
      /\ IntraFileCap = 1 => \A s \in Done(w) : ~Down(s, f)
  BY <1>1 DEF WorkerInv, ReadsItsFile, KnowsItsRules, RunsEachOnce, HasSaid
<1>5. (Panics(r, w) <=> Down(r, f)) /\ Said(r, w) = SaidOf(r, f)
  BY <1>4, RuleSaysItsOwn
<1>6. Done(w)' = Done(w) \cup {r}
  BY <1>1, <1>2, <1>4, SameFile DEF Done
<1>7. SaidBy(Done(w), f)' = SaidBy(Done(w), f) \cup SaidOf(r, f)
  <2>1. SaidBy(Done(w), f)' = SaidBy(Done(w) \cup {r}, f)
    BY <1>2, <1>3, <1>6, SameFile DEF SaidBy, SaidOf, Down
  <2> QED BY <2>1 DEF SaidBy
<1>8. ReadsItsFile(w)'
  BY <1>2, <1>3, <1>4, SameFile DEF ReadsItsFile
<1>9. KnowsItsRules(w)'
  BY <1>2, <1>4, SameFile DEF KnowsItsRules
<1>10. RunsEachOnce(w)'
  <2>1. IsFiniteSet(worker'[w].busy)
    BY <1>2, <1>4, FS_RemoveElement
  <2> QED BY <1>2, <1>4, <2>1, SameFile DEF RunsEachOnce
<1>11. r \in RulesFor(f)
  BY <1>1, <1>4
<1>12. HasSaid(w)'
  <2>1. /\ f' = f /\ RulesFor(f)' = RulesFor(f) /\ IntraFileCap' = IntraFileCap
        /\ \A s \in Rule : Down(s, f)' = Down(s, f)
    BY <1>2, SameFile
  <2>2. CASE Panics(r, w) /\ IntraFileCap = 1
    <3>1. worker'[w].pc = "panic"
      BY <1>2, <2>2
    <3>2. Down(r, f)'
      BY <1>5, <2>1, <2>2
    <3> QED BY <1>11, <2>1, <2>2, <3>1, <3>2 DEF HasSaid
  <2>3. CASE ~(Panics(r, w) /\ IntraFileCap = 1)
    <3>1. worker'[w].pc = "check"
      BY <1>2, <2>3
    <3>2. \A s \in Done(w) \cup {r} : IntraFileCap = 1 => ~Down(s, f)
      BY <1>4, <1>5, <2>3
    <3>3. (IntraFileCap = 1 => \A s \in Done(w) : ~Down(s, f))'
      BY <1>3, <1>6, <2>1, <3>2 DEF Down
    <3>4. worker'[w].diags = SaidBy(Done(w), f)'
      BY <1>2, <1>4, <1>5, <1>7
    <3> QED BY <3>1, <3>3, <3>4 DEF HasSaid
  <2> QED BY <2>2, <2>3
<1> QED BY <1>8, <1>9, <1>10, <1>12 DEF WorkerInv

LEMMA WalkKnows ==
  ASSUME TypeInv, CachesAgree, NEW w \in Worker, WorkerInv(w), Walk(w)
  PROVE  WorkerInv(w)'
<1> DEFINE f == FileOf(w)
           node == worker[w].node
<1>1. /\ GoesOn(w)
      /\ worker[w].pc = "check" /\ worker[w].todo = {} /\ worker[w].busy = {}
      /\ worker'[w].pc = IF \E r \in node : Panics(r, w) THEN "panic" ELSE "return"
      /\ worker'[w].buf = worker[w].buf
      /\ worker'[w].errs = worker[w].errs /\ worker'[w].node = node
      /\ worker'[w].busy = {}
      /\ worker'[w].diags = worker[w].diags \cup UNION {RuleDiags(r, w) : r \in node}
  BY WalkShape
<1>2. content' = content /\ run' = run
  BY DEF Walk
<1>3. /\ f \notin Failing /\ content[worker[w].buf] = f
      /\ worker[w].errs = EffectiveAllForKinds(f) \cap Misset
      /\ node = RulesFor(f) \cap Node
      /\ worker[w].diags = SaidBy(Done(w), f)
      /\ IntraFileCap = 1 => \A s \in Done(w) : ~Down(s, f)
  BY <1>1 DEF WorkerInv, ReadsItsFile, KnowsItsRules, HasSaid
<1>4. Done(w) = RulesFor(f) \ Node
  BY <1>1 DEF Done
<1>5. node \subseteq Rule
  BY DEF TypeInv, TypeOK, WorkerRec
<1>6. \A r \in node : /\ Panics(r, w) <=> Down(r, f)
                      /\ ~Down(r, f) => RuleDiags(r, w) = SaidOf(r, f)
  BY <1>3, <1>5, RuleSaysItsOwn
<1>7. /\ f' = f /\ RulesFor(f)' = RulesFor(f) /\ IntraFileCap' = IntraFileCap
      /\ EffectiveAllForKinds(f)' = EffectiveAllForKinds(f)
      /\ \A s \in Rule : Down(s, f)' = Down(s, f)
  BY <1>1, SameFile
<1>8. ReadsItsFile(w)' /\ KnowsItsRules(w)'
  <2>1. worker'[w].pc \in {"panic", "return"}
    BY <1>1, Zenon
  <2> QED BY <1>1, <1>2, <1>3, <1>7, <2>1 DEF ReadsItsFile, KnowsItsRules
<1>9. RunsEachOnce(w)'
  <2>1. worker'[w].pc \in {"panic", "return"}
    BY <1>1, Zenon
  <2> QED BY <1>1, <2>1, FS_EmptySet DEF RunsEachOnce
<1>10. HasSaid(w)'
  <2>1. CASE \E r \in node : Panics(r, w)
    <3>1. worker'[w].pc = "panic"
      BY <1>1, <2>1
    <3>2. PICK r \in node : Down(r, f)
      BY <1>6, <2>1
    <3>3. r \in RulesFor(f) /\ r \in Node /\ Down(r, f)'
      BY <1>3, <1>5, <1>7, <3>2
    <3> QED BY <1>7, <3>1, <3>3 DEF HasSaid
  <2>2. CASE ~\E r \in node : Panics(r, w)
    <3>1. worker'[w].pc = "return"
      BY <1>1, <2>2
    <3>2. \A r \in node : ~Down(r, f) /\ RuleDiags(r, w) = SaidOf(r, f)
      BY <1>6, <2>2
    <3>3. UNION {RuleDiags(r, w) : r \in node} = SaidBy(node, f)
      BY <3>2 DEF SaidBy
    <3>4. SaidBy(Done(w), f) \cup SaidBy(node, f) = SaidBy(RulesFor(f), f)
      BY <1>3, <1>4 DEF SaidBy
    <3>5. SaidBy(RulesFor(f), f)' = SaidBy(RulesFor(f), f)
      BY <1>2, <1>7 DEF SaidBy, SaidOf, Down
    <3>6. worker'[w].diags = SaidBy(RulesFor(f), f)'
      BY <1>1, <1>3, <3>3, <3>4, <3>5
    <3>7. \A r \in RulesFor(f) : IntraFileCap = 1 \/ r \in Node => ~Down(r, f)
      BY <1>3, <1>4, <3>2
    <3>8. RulesFor(f) \subseteq Rule
      BY <1>1, WorkIsFiles, SignatureIsKey
      DEF TypeInv, TypeOK, Stationed, FileOf, RulesFor
    <3> QED BY <1>7, <3>1, <3>6, <3>7, <3>8 DEF HasSaid
  <2> QED BY <2>1, <2>2
<1> QED BY <1>8, <1>9, <1>10 DEF WorkerInv

-----------------------------------------------------------------------------
(* Outcomes.                                                               *)

DownIn(rules, f) == {r \in rules : Down(r, f)}

FoundIn(rules, f) == {r \in rules \ DownIn(rules, f) : f \in Finds[r]}

(* The three ways a file can end alone.                                    *)
LEMMA AloneFails ==
  ASSUME NEW f, f \in Failing, NEW cap, NEW bad
  PROVE  LintedAlone(f, cap, bad) = [rules |-> {}, errs |-> {None}]
BY DEF LintedAlone, Failing

LEMMA AlonePanics ==
  ASSUME NEW f, f \notin Failing, NEW cap,
         \E r \in RulesFor(f) : Down(r, f) /\ (cap = 1 \/ r \in Node)
  PROVE  LintedAlone(f, cap, run.bad) = [rules |-> {None}, errs |-> {}]
<1> DEFINE down == {r \in EffectiveAllForKinds(f) \ Misset :
                      f \in PanicsOn[r] \/ (r \in Sharing /\ run.bad)}
<1>1. down # {} /\ (cap = 1 \/ down \cap Node # {})
  BY DEF RulesFor, Down
<1> HIDE DEF down
<1> QED BY <1>1, Zenon DEF LintedAlone, Failing, down

LEMMA AloneSays ==
  ASSUME NEW f, f \notin Failing, NEW cap,
         \A r \in RulesFor(f) : cap = 1 \/ r \in Node => ~Down(r, f)
  PROVE  LintedAlone(f, cap, run.bad) =
           [rules |-> IF f \in Protected THEN FoundIn(RulesFor(f), f) \ Repo
                      ELSE IF DownIn(RulesFor(f), f) # {}
                             THEN FoundIn(RulesFor(f), f) \cup {None}
                             ELSE FoundIn(RulesFor(f), f),
            errs |-> EffectiveAllForKinds(f) \cap Misset]
<1> DEFINE down == {r \in EffectiveAllForKinds(f) \ Misset :
                      f \in PanicsOn[r] \/ (r \in Sharing /\ run.bad)}
           said == {r \in (EffectiveAllForKinds(f) \ Misset) \ down : f \in Finds[r]}
<1>1. down = DownIn(RulesFor(f), f)
  BY DEF DownIn, RulesFor, Down
<1>2. said = FoundIn(RulesFor(f), f)
  BY <1>1 DEF FoundIn, RulesFor
<1>3. ~(down # {} /\ (cap = 1 \/ down \cap Node # {}))
  BY <1>1 DEF DownIn
<1>4. LintedAlone(f, cap, run.bad) =
        IF f \in Failing THEN [rules |-> {}, errs |-> {None}]
        ELSE IF down # {} /\ (cap = 1 \/ down \cap Node # {})
          THEN [rules |-> {None}, errs |-> {}]
        ELSE [rules |-> IF f \in Protected THEN said \ Repo
                        ELSE IF down # {} THEN said \cup {None} ELSE said,
              errs |-> EffectiveAllForKinds(f) \cap Misset]
  BY Zenon DEF LintedAlone, Failing
<1> HIDE DEF down, said
<1> QED BY <1>1, <1>2, <1>3, <1>4

(* What is left of what was said when a file's diagnostics are filtered,    *)
(* adjusted and given their lines.                                         *)
LEMMA ShownRules ==
  ASSUME TypeInv, NEW w \in Worker, NEW rules \in SUBSET Rule,
         worker[w].diags = SaidBy(rules, FileOf(w)), worker[w].buf \in Buffer
  PROVE  /\ {d.rule : d \in Shown(w)} =
              IF FileOf(w) \in Protected THEN FoundIn(rules, FileOf(w)) \ Repo
              ELSE IF DownIn(rules, FileOf(w)) # {}
                     THEN FoundIn(rules, FileOf(w)) \cup {None}
                     ELSE FoundIn(rules, FileOf(w))
         /\ \A d \in Shown(w) : d.file \in {FileOf(w), None}
<1> DEFINE f == FileOf(w)
           kept == FilterGeneratedDiags(worker[w].diags, f)
           found(r) == [file |-> IF r \in Repo THEN None ELSE f,
                        line |-> IF r \in Repo THEN 1 ELSE 2, rule |-> r, lines |-> None]
<1>1. worker[w].diags \subseteq Diagnostic
  BY DEF TypeInv, TypeOK, WorkerRec
<1>2. kept \subseteq worker[w].diags
  BY DEF FilterGeneratedDiags
<1>3. /\ \A d \in kept : \E e \in Shown(w) : e.rule = d.rule
      /\ \A e \in Shown(w) : \E d \in kept : e.rule = d.rule /\ e.file = d.file
  <2> DEFINE adjusted(d) == [d EXCEPT !.line = IF f \in Fronted THEN @ + 1 ELSE @]
             sourced(e) == [e EXCEPT !.lines = worker[w].buf]
  <2>1. Shown(w) = {sourced(e) : e \in {adjusted(d) : d \in kept}}
    BY DEF Shown, PopulateSourceContext, AdjustDiagnostics
  <2>2. \A d \in Diagnostic : /\ sourced(adjusted(d)).rule = d.rule
                              /\ sourced(adjusted(d)).file = d.file
    BY DEF Diagnostic
  <2>3. kept \subseteq Diagnostic
    BY <1>1, <1>2
  <2> HIDE DEF kept, adjusted, sourced
  <2> QED BY <2>1, <2>2, <2>3
<1>4. {d.rule : d \in Shown(w)} = {d.rule : d \in kept}
  BY <1>3
<1>5. \A d \in worker[w].diags :
        \/ d = PanicDiagnostic(f) /\ DownIn(rules, f) # {}
        \/ \E r \in FoundIn(rules, f) : d = found(r)
  BY DEF SaidBy, SaidOf, DownIn, FoundIn
<1>6. /\ DownIn(rules, f) # {} => PanicDiagnostic(f) \in worker[w].diags
      /\ \A r \in FoundIn(rules, f) : found(r) \in worker[w].diags
  BY DEF SaidBy, SaidOf, DownIn, FoundIn
<1>7. PanicDiagnostic(f).rule = None /\ PanicDiagnostic(f).line = 1
      /\ PanicDiagnostic(f).file = f
  BY DEF PanicDiagnostic
<1>8. \A r \in Rule : /\ found(r).rule = r
                      /\ found(r).line = 1 <=> r \in Repo
                      /\ found(r).file \in {f, None}
  OBVIOUS
<1>9. FoundIn(rules, f) \subseteq Rule
  BY DEF FoundIn
<1> HIDE DEF f, found
<1>10. \A d \in worker[w].diags : d.file \in {f, None}
  BY <1>5, <1>7, <1>8, <1>9
<1>11. CASE f \in Protected
  <2>1. kept = {d \in worker[w].diags : d.line # 1}
    BY <1>11 DEF FilterGeneratedDiags
  <2>2. {d.rule : d \in kept} = FoundIn(rules, f) \ Repo
    BY <1>5, <1>6, <1>7, <1>8, <1>9, <2>1
  <2> QED BY <1>2, <1>3, <1>4, <1>10, <1>11, <2>2 DEF f
<1>12. CASE f \notin Protected
  <2>1. kept = worker[w].diags
    BY <1>12 DEF FilterGeneratedDiags
  <2>2. {d.rule : d \in kept} = IF DownIn(rules, f) # {} THEN FoundIn(rules, f) \cup {None}
                                ELSE FoundIn(rules, f)
    BY <1>5, <1>6, <1>7, <1>8, <1>9, <2>1
  <2> QED BY <1>2, <1>3, <1>4, <1>10, <1>12, <2>2 DEF f
<1> QED BY <1>11, <1>12

(* The outcome a worker puts is the one its file has alone.                 *)
LEMMA EndIsAsAlone ==
  ASSUME TypeInv, NEW w \in Worker, WorkerInv(w), Fail(w) \/ Return(w) \/ Recover(w)
  PROVE  \E o \in Outcome :
           /\ PutBack(w, o)
           /\ RulesOf(o) = LintedAlone(FileOf(w), IntraFileCap, run.bad)
           /\ \A d \in o.diags : d.file \in {FileOf(w), None}
<1> DEFINE f == FileOf(w)
<1>1. /\ worker[w].pc \in {"failed", "return", "panic"}
      /\ worker[w].at \in 1..Len(Work) /\ worker[w].buf \in Buffer
  BY DEF Fail, Return, Recover, TypeInv, Stationed
<1>2. f \in File
  BY <1>1, WorkIsFiles DEF FileOf, TypeInv, TypeOK
<1>3. CASE Fail(w)
  <2> DEFINE o == [diags |-> {}, errs |-> {None}]
  <2>1. o \in Outcome /\ PutBack(w, o)
    BY <1>3 DEF Fail, Outcome
  <2>2. f \in Failing
    BY <1>3 DEF Fail, WorkerInv, ReadsItsFile
  <2>3. RulesOf(o) = [rules |-> {}, errs |-> {None}]
    BY DEF RulesOf
  <2>4. RulesOf(o) = LintedAlone(f, IntraFileCap, run.bad)
    BY <2>2, <2>3, AloneFails
  <2> QED BY <2>1, <2>4
<1>4. CASE Return(w)
  <2> DEFINE o == [diags |-> Shown(w), errs |-> worker[w].errs]
             shown == {d.rule : d \in Shown(w)}
  <2>1. PutBack(w, o) /\ worker[w].pc = "return"
    BY <1>4, Zenon DEF Return, Shown
  <2>2. o \in Outcome
    BY <1>1, ShownIsTyped DEF Outcome, TypeInv, TypeOK, WorkerRec
  <2>3. /\ f \notin Failing
        /\ worker[w].errs = EffectiveAllForKinds(f) \cap Misset
        /\ worker[w].diags = SaidBy(RulesFor(f), f)
        /\ \A r \in RulesFor(f) : IntraFileCap = 1 \/ r \in Node => ~Down(r, f)
    BY <2>1 DEF WorkerInv, ReadsItsFile, KnowsItsRules, HasSaid
  <2>4. RulesFor(f) \in SUBSET Rule
    BY <1>2, SignatureIsKey DEF RulesFor
  <2>5. /\ shown = IF f \in Protected THEN FoundIn(RulesFor(f), f) \ Repo
                   ELSE IF DownIn(RulesFor(f), f) # {}
                          THEN FoundIn(RulesFor(f), f) \cup {None}
                          ELSE FoundIn(RulesFor(f), f)
        /\ \A d \in Shown(w) : d.file \in {f, None}
    BY <1>1, <2>3, <2>4, ShownRules
  <2>6. LintedAlone(f, IntraFileCap, run.bad) = [rules |-> shown, errs |-> worker[w].errs]
    BY <2>3, <2>5, AloneSays
  <2>7. RulesOf(o) = [rules |-> shown, errs |-> worker[w].errs]
    BY DEF RulesOf
  <2> QED BY <2>1, <2>2, <2>5, <2>6, <2>7
<1>5. CASE Recover(w)
  <2> DEFINE o == [diags |-> {PanicDiagnostic(f)}, errs |-> {}]
  <2>1. PutBack(w, o) /\ worker[w].pc = "panic"
    BY <1>5 DEF Recover
  <2>2. o \in Outcome
    BY <1>2 DEF Outcome, Diagnostic, PanicDiagnostic
  <2>3. /\ f \notin Failing
        /\ \E r \in RulesFor(f) : Down(r, f) /\ (IntraFileCap = 1 \/ r \in Node)
    BY <2>1 DEF WorkerInv, ReadsItsFile, HasSaid
  <2>4. LintedAlone(f, IntraFileCap, run.bad) = [rules |-> {None}, errs |-> {}]
    BY <2>3, AlonePanics
  <2>5. RulesOf(o) = [rules |-> {None}, errs |-> {}]
    BY DEF RulesOf, PanicDiagnostic
  <2>6. \A d \in o.diags : d.file \in {f, None}
    BY DEF PanicDiagnostic
  <2> QED BY <2>1, <2>2, <2>4, <2>5, <2>6
<1> QED BY <1>3, <1>4, <1>5

-----------------------------------------------------------------------------
(* Steps.                                                                  *)

LEMMA InitInv == Init => EngineInv
<1> SUFFICES ASSUME Init PROVE EngineInv
  OBVIOUS
<1>1. TypeInv
  BY InitTyped
<1>2. \A w \in Worker : /\ worker[w].pc = IF w <= Workers THEN "take" ELSE "gone"
                        /\ worker[w].busy = {} /\ worker[w].diags = {}
                        /\ worker[w].buf = None
  <2> TAKE w \in Worker
  <2>1. worker[w] = IF w <= Workers THEN Resting ELSE [Resting EXCEPT !.pc = "gone"]
    BY DEF Init
  <2> QED BY <2>1 DEF Resting
<1>3. BufferOwned
  BY <1>2, ConstantsAssumption DEF Init, BufferOwned
<1>4. Accounted
  BY <1>1, <1>2, WorkIsFiles DEF Init, Accounted, TypeInv, TypeOK
<1>5. CachesAgree
  BY DEF Init, CachesAgree
<1>6. \A w \in Worker : WorkerInv(w)
  <2>1. \A w \in Worker : worker[w].pc \in {"take", "gone"}
    BY <1>2
  <2> QED BY <1>2, <2>1, FS_EmptySet
    DEF WorkerInv, ReadsItsFile, KnowsItsRules, RunsEachOnce, HasSaid
<1>7. \A i \in 1..Len(Work) : AsAlone(i)
  BY DEF Init, AsAlone
<1>8. MergedAtEnd
  BY DEF Init, MergedAtEnd
<1> QED BY <1>1, <1>3, <1>4, <1>5, <1>6, <1>7, <1>8 DEF EngineInv

(* What a file gives alone is no matter of the step.                        *)
LEMMA AloneStays ==
  ASSUME run' = run, NEW i
  PROVE  /\ Work' = Work /\ Workers' = Workers
         /\ LintedAlone(Work[i], IntraFileCap, run.bad)'
              = LintedAlone(Work[i], IntraFileCap, run.bad)
<1>1. Work' = Work /\ Workers' = Workers /\ IntraFileCap' = IntraFileCap
  BY DEF Work, Workers, IntraFileCap
<1> QED BY <1>1, Zenon DEF LintedAlone, EffectiveAllForKinds

LEMMA OutcomeStays ==
  ASSUME run' = run, NEW i, outcome'[i] = outcome[i], AsAlone(i)
  PROVE  AsAlone(i)'
BY AloneStays, Zenon DEF AsAlone, RulesOf

(* A worker in the middle of its file changes no outcome and no counter.    *)
LEMMA GoesOnKeeps ==
  ASSUME EngineInv, NEW w \in Worker, GoesOn(w)
  PROVE  Accounted' /\ (\A i \in 1..Len(Work) : AsAlone(i))' /\ MergedAtEnd'
<1>1. Work' = Work /\ Workers' = Workers
  BY AloneStays DEF GoesOn
<1>2. \A v \in Worker : /\ worker[v].pc \notin {"take", "gone"}
                           => worker'[v].pc \notin {"take", "gone"}
                              /\ worker'[v].at = worker[v].at
                        /\ worker'[v].pc = "gone" => worker[v].pc = "gone"
  BY DEF GoesOn
<1>3. next' = next /\ outcome' = outcome /\ run' = run /\ result' = result
  BY DEF GoesOn
<1>4. Accounted'
  BY <1>1, <1>2, <1>3 DEF EngineInv, Accounted
<1>5. \A i \in 1..Len(Work) : AsAlone(i)'
  BY <1>3, OutcomeStays DEF EngineInv
<1>6. MergedAtEnd'
  BY <1>3 DEF EngineInv, MergedAtEnd, GoesOn
<1> QED BY <1>1, <1>4, <1>5, <1>6

(* A step of one worker that leaves the buffers' owners as they are.        *)
LEMMA BuffersStay ==
  ASSUME BufferOwned, free' = free, NEW w \in Worker,
         \A v \in Worker \ {w} : worker'[v] = worker[v], worker'[w].buf = worker[w].buf
  PROVE  BufferOwned'
BY DEF BufferOwned

(* Every other worker, through a step that leaves the bytes of its buffer.  *)
LEMMA OthersGoOn ==
  ASSUME EngineInv, run' = run, NEW w \in Worker,
         \A v \in Worker \ {w} : worker'[v] = worker[v],
         \A b \in Buffer : b # worker[w].buf => content'[b] = content[b],
         WorkerInv(w)'
  PROVE  \A v \in Worker : WorkerInv(v)'
<1> SUFFICES ASSUME NEW v \in Worker, v # w PROVE WorkerInv(v)'
  OBVIOUS
<1>1. worker[v].buf \in Buffer => worker[v].buf # worker[w].buf
  BY DEF EngineInv, BufferOwned
<1>2. WorkerInv(v) /\ Stationed(v)
  BY DEF EngineInv, TypeInv
<1> QED BY <1>1, <1>2, OthersKnowAsMuch

(* The caches, through a step that leaves them.                             *)
LEMMA CachesStay ==
  ASSUME CachesAgree, UNCHANGED <<run, eff, conf, target>>
  PROVE  CachesAgree'
BY DEF CachesAgree

LEMMA TakeKeeps ==
  ASSUME EngineInv, NEW w \in Worker, Take(w)
  PROVE  EngineInv'
<1>1. /\ worker[w].pc = "take"
      /\ \A v \in Worker \ {w} : worker'[v] = worker[v]
      /\ worker'[w].buf = None
      /\ next < Len(Work) => worker'[w].pc = "draw" /\ worker'[w].at = next + 1
      /\ ~(next < Len(Work)) => worker'[w].pc = "gone"
      /\ next' = next + 1
      /\ UNCHANGED <<run, free, content, eff, conf, target, outcome, result>>
  BY TakeShape DEF EngineInv
<1>2. TypeInv' /\ WorkerInv(w)' /\ TypeInv
  BY TakeKeepsTypes, TakeKnows DEF EngineInv
<1>3. /\ Work' = Work /\ Workers' = Workers
      /\ next \in Nat /\ Len(Work) \in Nat
  BY <1>1, <1>2, AloneStays, WorkIsFiles DEF TypeInv, TypeOK
<1>4. BufferOwned'
  <2>1. worker[w].buf = None
    BY <1>1, <1>2 DEF TypeInv, Stationed
  <2> QED BY <1>1, <2>1, BuffersStay DEF EngineInv
<1>5. Accounted'
  <2>1. ASSUME NEW i \in 1..Len(Work), i <= next'
        PROVE  \/ outcome'[i] \in Outcome
               \/ \E v \in Worker : worker'[v].pc \notin {"take", "gone"}
                                   /\ worker'[v].at = i
    <3>1. CASE i <= next
      <4>1. CASE outcome[i] \in Outcome
        BY <1>1, <4>1
      <4>2. CASE outcome[i] \notin Outcome
        <5>1. PICK v \in Worker : worker[v].pc \notin {"take", "gone"} /\ worker[v].at = i
          BY <3>1, <4>2 DEF EngineInv, Accounted
        <5> QED BY <1>1, <5>1
      <4> QED BY <4>1, <4>2
    <3>2. CASE ~(i <= next)
      <4>1. i = next + 1 /\ next < Len(Work)
        BY <1>1, <1>3, <2>1, <3>2
      <4> QED BY <1>1, <4>1
    <3> QED BY <3>1, <3>2
  <2>2. ASSUME NEW v \in Worker, worker'[v].pc = "gone", v <= Workers
        PROVE  next' >= Len(Work)
    <3>1. next >= Len(Work)
      BY <1>1, <1>3, <2>2 DEF EngineInv, Accounted
    <3> QED BY <1>1, <1>3, <3>1
  <2> QED BY <1>3, <2>1, <2>2 DEF Accounted
<1>6. \A v \in Worker : WorkerInv(v)'
  BY <1>1, <1>2, OthersGoOn
<1>7. CachesAgree'
  BY <1>1, CachesStay DEF EngineInv
<1>8. \A i \in 1..Len(Work) : AsAlone(i)'
  BY <1>1, OutcomeStays DEF EngineInv
<1>9. MergedAtEnd'
  BY <1>1 DEF EngineInv, MergedAtEnd
<1> QED BY <1>2, <1>3, <1>4, <1>5, <1>6, <1>7, <1>8, <1>9 DEF EngineInv

LEMMA DrawKeeps ==
  ASSUME EngineInv, NEW w \in Worker, NEW b \in Buffer, Draw(w, b)
  PROVE  EngineInv'
<1>1. /\ GoesOn(w) /\ worker[w].pc = "draw" /\ worker'[w].buf = b
      /\ free' = [free EXCEPT ![b] = IF free[b] > 0 THEN free[b] - 1 ELSE 0]
      /\ b \in Fresh \/ free[b] > 0
      /\ UNCHANGED <<content, eff, conf, target>>
  BY DrawShape DEF EngineInv, Draw
<1>2. TypeInv' /\ WorkerInv(w)'
  BY DrawKeepsTypes, EarlyKnows DEF EngineInv
<1>3. worker[w].buf = None
  BY <1>1 DEF EngineInv, TypeInv, Stationed
<1>4. BufferOwned'
  <2>1. \A v \in Worker : worker[v].buf # b
    BY <1>1 DEF EngineInv, BufferOwned, Fresh
  <2>2. free \in [Buffer -> Nat] /\ free[b] <= 1
    BY DEF EngineInv, TypeInv, TypeOK, BufferOwned
  <2>3. free'[b] = 0 /\ \A c \in Buffer : c # b => free'[c] = free[c]
    BY <1>1, <2>2
  <2>4. \A v \in Worker \ {w} : worker'[v].buf = worker[v].buf
    BY <1>1 DEF GoesOn
  <2> QED BY <1>1, <2>1, <2>3, <2>4 DEF EngineInv, BufferOwned
<1>5. \A v \in Worker : WorkerInv(v)'
  BY <1>1, <1>2, OthersGoOn DEF GoesOn
<1>6. CachesAgree'
  BY <1>1, CachesStay DEF EngineInv, GoesOn
<1> QED BY <1>1, <1>2, <1>4, <1>5, <1>6, GoesOnKeeps DEF EngineInv

(* A step that goes on with the same buffer, all but the worker's own       *)
(* knowledge and the caches.                                               *)
LEMMA MiddleKeeps ==
  ASSUME EngineInv, NEW w \in Worker, GoesOn(w), worker'[w].buf = worker[w].buf,
         free' = free, TypeInv', WorkerInv(w)', CachesAgree',
         \A b \in Buffer : b # worker[w].buf => content'[b] = content[b]
  PROVE  EngineInv'
<1>1. BufferOwned'
  BY BuffersStay DEF EngineInv, GoesOn
<1>2. \A v \in Worker : WorkerInv(v)'
  BY OthersGoOn DEF GoesOn
<1> QED BY <1>1, <1>2, GoesOnKeeps DEF EngineInv

LEMMA LookupsKeep ==
  ASSUME EngineInv, NEW w \in Worker,
         Read(w) \/ LoadEffective(w) \/ StoreEffective(w) \/ Configure(w)
  PROVE  EngineInv'
<1>1. TypeInv /\ CachesAgree /\ WorkerInv(w)
  BY DEF EngineInv
<1>2. CASE Read(w)
  <2>1. GoesOn(w) /\ worker'[w].buf = worker[w].buf
    BY <1>1, <1>2, ReadShape
  <2>2. TypeInv' /\ WorkerInv(w)'
    BY <1>1, <1>2, ReadKeepsTypes, EarlyKnows
  <2>3. free' = free /\ CachesAgree'
    BY <1>1, <1>2, CachesStay DEF Read
  <2>4. \A b \in Buffer : b # worker[w].buf => content'[b] = content[b]
    BY <1>1, <1>2 DEF Read, TypeInv, TypeOK
  <2> QED BY <2>1, <2>2, <2>3, <2>4, MiddleKeeps
<1>3. CASE LoadEffective(w)
  <2>1. GoesOn(w) /\ worker'[w].buf = worker[w].buf
    BY <1>1, <1>3, LoadShape
  <2>2. TypeInv' /\ WorkerInv(w)'
    BY <1>1, <1>3, LoadKeepsTypes, EarlyKnows
  <2>3. free' = free /\ CachesAgree' /\ content' = content
    BY <1>1, <1>3, CachesStay DEF LoadEffective
  <2> QED BY <2>1, <2>2, <2>3, MiddleKeeps
<1>4. CASE StoreEffective(w)
  <2>1. worker[w].on = EffectiveAllForKinds(FileOf(w))
    BY <1>1, <1>4 DEF StoreEffective, WorkerInv, KnowsItsRules
  <2>2. /\ GoesOn(w) /\ worker'[w].buf = worker[w].buf
        /\ \A k \in Key : eff'[k] \in {None, On[k]}
    BY <1>1, <1>4, <2>1, StoreShape
  <2>3. TypeInv' /\ WorkerInv(w)'
    BY <1>1, <1>4, StoreKeepsTypes, EarlyKnows
  <2>4. UNCHANGED <<run, free, content, conf, target>>
    BY <1>4, Zenon DEF StoreEffective
  <2>5. CachesAgree'
    BY <1>1, <2>2, <2>4 DEF CachesAgree
  <2> QED BY <2>2, <2>3, <2>4, <2>5, MiddleKeeps
<1>5. CASE Configure(w)
  <2>1. worker[w].on = EffectiveAllForKinds(FileOf(w))
    BY <1>1, <1>5 DEF Configure, WorkerInv, KnowsItsRules
  <2>2. /\ GoesOn(w) /\ worker'[w].buf = worker[w].buf
        /\ \A v \in Worker, k \in Key :
             conf'[v][k] \in {None, ConfigureEnabledRules(On[k])}
    BY <1>1, <1>5, <2>1, ConfigureShape
  <2>3. TypeInv' /\ WorkerInv(w)'
    BY <1>1, <1>5, ConfigureKeepsTypes, ConfigureKnows
  <2>4. UNCHANGED <<run, free, content, eff, target>>
    BY <1>5, Zenon DEF Configure
  <2>5. CachesAgree'
    BY <1>1, <2>2, <2>4 DEF CachesAgree
  <2> QED BY <2>2, <2>3, <2>4, <2>5, MiddleKeeps
<1> QED BY <1>2, <1>3, <1>4, <1>5

LEMMA RulesKeep ==
  ASSUME EngineInv, NEW w \in Worker,
         Walk(w) \/ \E r \in Rule : Start(w, r) \/ Finish(w, r)
  PROVE  EngineInv'
<1>1. TypeInv /\ CachesAgree /\ WorkerInv(w)
  BY DEF EngineInv
<1>2. CASE Walk(w)
  <2>1. GoesOn(w) /\ worker'[w].buf = worker[w].buf
    BY <1>1, <1>2, WalkShape
  <2>2. TypeInv' /\ WorkerInv(w)'
    BY <1>1, <1>2, WalkKeepsTypes, WalkKnows
  <2>3. UNCHANGED <<run, free, content, eff, conf, target>>
    BY <1>2, Zenon DEF Walk
  <2>4. CachesAgree'
    BY <1>1, <2>3, CachesStay
  <2> QED BY <2>1, <2>2, <2>3, <2>4, MiddleKeeps
<1>3. ASSUME NEW r \in Rule, Start(w, r) PROVE EngineInv'
  <2>1. GoesOn(w) /\ worker'[w].buf = worker[w].buf
    BY <1>1, <1>3, StartShape
  <2>2. TypeInv' /\ WorkerInv(w)'
    BY <1>1, <1>3, StartKeepsTypes, StartKnows
  <2>3. UNCHANGED <<run, free, content, eff, conf, target>>
    BY <1>3, Zenon DEF Start
  <2>4. CachesAgree'
    BY <1>1, <2>3, CachesStay
  <2> QED BY <2>1, <2>2, <2>3, <2>4, MiddleKeeps
<1>4. ASSUME NEW r \in Rule, Finish(w, r) PROVE EngineInv'
  <2>1. worker[w].pc = "check"
    BY <1>1, <1>4, Zenon DEF Finish, WorkerInv, RunsEachOnce
  <2>2. GoesOn(w) /\ worker'[w].buf = worker[w].buf
    BY <1>1, <1>4, <2>1, FinishShape
  <2>3. TypeInv' /\ WorkerInv(w)'
    BY <1>1, <1>4, <2>1, FinishKeepsTypes, FinishKnows
  <2>4. /\ UNCHANGED <<run, free, content, eff, conf>>
        /\ target' = IF r \in Sharing /\ target = "empty"
                       THEN IF run.bad THEN "poisoned" ELSE "built"
                       ELSE target
    BY <1>4, Zenon DEF Finish
  <2>5. CachesAgree'
    BY <1>1, <2>4 DEF CachesAgree
  <2> QED BY <2>2, <2>3, <2>4, <2>5, MiddleKeeps
<1> QED BY <1>2, <1>3, <1>4

LEMMA EndKeeps ==
  ASSUME EngineInv, NEW w \in Worker, Fail(w) \/ Return(w) \/ Recover(w)
  PROVE  EngineInv'
<1>1. TypeInv /\ WorkerInv(w) /\ BufferOwned /\ Accounted
  BY DEF EngineInv
<1>2. PICK o \in Outcome :
        /\ PutBack(w, o)
        /\ RulesOf(o) = LintedAlone(FileOf(w), IntraFileCap, run.bad)
        /\ \A d \in o.diags : d.file \in {FileOf(w), None}
  BY <1>1, EndIsAsAlone
<1>3. /\ UNCHANGED <<run, next, content, eff, conf, target, result>>
      /\ worker[w].pc \notin {"take", "gone", "draw"}
  BY DEF Fail, Return, Recover
<1> DEFINE at == worker[w].at
           buf == worker[w].buf
<1>4. /\ worker'[w] = Resting
      /\ \A v \in Worker \ {w} : worker'[v] = worker[v]
      /\ at \in 1..Len(Work) /\ buf \in Buffer
      /\ outcome'[at] = o
      /\ \A i \in 1..Len(Work) : i # at => outcome'[i] = outcome[i]
      /\ free'[buf] = free[buf] + 1
      /\ \A b \in Buffer : b # buf => free'[b] = free[b]
  BY <1>1, <1>2, <1>3, EndShape
<1>5. Work' = Work /\ Workers' = Workers
  BY <1>3, AloneStays
<1>6. worker'[w].pc = "take" /\ worker'[w].buf = None
  BY <1>4, RestingIsTyped
<1>7. TypeInv'
  BY <1>1, EndKeepsTypes
<1>8. BufferOwned'
  <2>1. free[buf] = 0 /\ \A v \in Worker \ {w} : worker[v].buf # buf
    BY <1>1, <1>4 DEF BufferOwned
  <2>2. None \notin Buffer
    BY ConstantsAssumption
  <2>3. ASSUME NEW b \in Buffer
        PROVE  /\ free'[b] <= 1
               /\ \A v \in Worker : worker'[v].buf = b =>
                    free'[b] = 0 /\ \A u \in Worker \ {v} : worker'[u].buf # b
    <3>1. CASE b = buf
      BY <1>4, <1>6, <2>1, <2>2, <3>1
    <3>2. CASE b # buf
      BY <1>1, <1>4, <1>6, <2>2, <3>2 DEF BufferOwned
    <3> QED BY <3>1, <3>2
  <2> QED BY <2>3 DEF BufferOwned
<1>9. Accounted'
  <2>1. ASSUME NEW i \in 1..Len(Work), i <= next
        PROVE  \/ outcome'[i] \in Outcome
               \/ \E v \in Worker : worker'[v].pc \notin {"take", "gone"}
                                   /\ worker'[v].at = i
    <3>1. CASE i = at
      BY <1>4, <3>1
    <3>2. CASE i # at /\ outcome[i] \in Outcome
      BY <1>4, <3>2
    <3>3. CASE i # at /\ outcome[i] \notin Outcome
      <4>1. PICK v \in Worker : worker[v].pc \notin {"take", "gone"} /\ worker[v].at = i
        BY <1>1, <2>1, <3>3 DEF Accounted
      <4> QED BY <1>4, <3>3, <4>1
    <3> QED BY <3>1, <3>2, <3>3
  <2>2. ASSUME NEW v \in Worker, worker'[v].pc = "gone", v <= Workers
        PROVE  next >= Len(Work)
    BY <1>1, <1>4, <1>6, <2>2 DEF Accounted
  <2> QED BY <1>3, <1>5, <2>1, <2>2 DEF Accounted
<1>10. \A v \in Worker : WorkerInv(v)'
  BY <1>3, <1>4, RestKnows, OthersGoOn
<1>11. CachesAgree'
  BY <1>3, CachesStay DEF EngineInv
<1>12. ASSUME NEW i \in 1..Len(Work) PROVE AsAlone(i)'
  <2>1. CASE i = at
    <3>1. LintedAlone(Work[i], IntraFileCap, run.bad)'
            = LintedAlone(FileOf(w), IntraFileCap, run.bad)
      BY <1>3, <2>1, AloneStays, Zenon DEF FileOf
    <3>2. outcome'[i] = o /\ Work'[i] = FileOf(w)
      BY <1>4, <1>5, <2>1 DEF FileOf
    <3>3. RulesOf(outcome[i])' = RulesOf(o)
      BY <3>2 DEF RulesOf
    <3> QED BY <1>2, <3>1, <3>2, <3>3, Zenon DEF AsAlone
  <2>2. CASE i # at
    BY <1>3, <1>4, <2>2, OutcomeStays DEF EngineInv
  <2> QED BY <2>1, <2>2
<1>13. MergedAtEnd'
  BY <1>3 DEF EngineInv, MergedAtEnd
<1> QED BY <1>5, <1>7, <1>8, <1>9, <1>10, <1>11, <1>12, <1>13 DEF EngineInv

(* Some worker runs when there is work, and they are gone when it is done.  *)
LEMMA AllHaveOutcomes ==
  ASSUME EngineInv, \A w \in Worker : worker[w].pc = "gone"
  PROVE  \A i \in 1..Len(Work) : outcome[i] \in Outcome
<1> SUFFICES ASSUME NEW i \in 1..Len(Work) PROVE outcome[i] \in Outcome
  OBVIOUS
<1>1. run \in Run /\ next \in Nat /\ Len(Work) \in Nat
  BY WorkIsFiles DEF EngineInv, TypeInv, TypeOK
<1>2. run.concurrency \in Nat /\ 1..Workers \subseteq Worker
  BY <1>1, RunAssumption DEF Workers, Work
<1>3. Workers \in Nat /\ Workers >= 1
  BY <1>1, <1>2, ConstantsAssumption DEF Workers, ResolveWorkers
<1>4. 1 \in Worker
  BY <1>2, <1>3
<1>5. next >= Len(Work)
  BY <1>3, <1>4 DEF EngineInv, Accounted
<1> QED BY <1>1, <1>5 DEF EngineInv, Accounted

LEMMA MergeKeeps ==
  ASSUME EngineInv, Merge
  PROVE  EngineInv'
<1> DEFINE found == UNION {{<<i, d>> : d \in outcome[i].diags} : i \in DOMAIN outcome}
<1>1. /\ \A w \in Worker : worker[w].pc = "gone"
      /\ result' = IF anyRepoScopedEnabled THEN DedupeDiagnostics(found) ELSE found
      /\ UNCHANGED <<run, next, worker, free, content, eff, conf, target, outcome>>
  BY DEF Merge
<1>2. \A i \in 1..Len(Work) : outcome[i] \in Outcome
  BY <1>1, AllHaveOutcomes
<1>3. DOMAIN outcome = 1..Len(Work)
  BY DEF EngineInv, TypeInv, TypeOK
<1>4. found \subseteq (DOMAIN outcome) \X Diagnostic
  BY <1>2, <1>3 DEF Outcome
<1> HIDE DEF found
<1>5. result' \subseteq (DOMAIN outcome) \X Diagnostic
  BY <1>1, <1>4 DEF DedupeDiagnostics
<1>6. Work' = Work /\ Workers' = Workers
  BY <1>1, AloneStays
<1>7. TypeInv'
  BY <1>1, <1>5, <1>6 DEF EngineInv, TypeInv, TypeOK, Stationed, Unadjusted
<1>8. BufferOwned' /\ Accounted' /\ CachesAgree'
  BY <1>1, <1>6 DEF EngineInv, BufferOwned, Accounted, CachesAgree
<1>9. \A v \in Worker : WorkerInv(v)'
  BY <1>1, OthersKnowAsMuch DEF EngineInv, TypeInv
<1>10. \A i \in 1..Len(Work) : AsAlone(i)'
  BY <1>1, OutcomeStays DEF EngineInv
<1>11. MergedAtEnd'
  BY <1>1, <1>2, <1>6, OutcomeAssumption DEF MergedAtEnd
<1> QED BY <1>6, <1>7, <1>8, <1>9, <1>10, <1>11 DEF EngineInv

LEMMA StutterKeeps == EngineInv /\ UNCHANGED vars => EngineInv'
<1> SUFFICES ASSUME EngineInv, UNCHANGED vars PROVE EngineInv'
  OBVIOUS
<1>1. UNCHANGED <<run, next, worker, free, content, eff, conf, target, outcome, result>>
  BY DEF vars
<1>2. Work' = Work /\ Workers' = Workers
  BY <1>1, AloneStays
<1>3. TypeInv' /\ BufferOwned' /\ Accounted' /\ CachesAgree' /\ MergedAtEnd'
  BY <1>1, <1>2 DEF EngineInv, TypeInv, TypeOK, Stationed, Unadjusted, BufferOwned,
                    Accounted, CachesAgree, MergedAtEnd
<1>4. \A v \in Worker : WorkerInv(v)'
  BY <1>1, OthersKnowAsMuch DEF EngineInv, TypeInv
<1>5. \A i \in 1..Len(Work) : AsAlone(i)'
  BY <1>1, OutcomeStays DEF EngineInv
<1> QED BY <1>2, <1>3, <1>4, <1>5 DEF EngineInv

LEMMA StepInv == EngineInv /\ [Next]_vars => EngineInv'
<1> SUFFICES ASSUME EngineInv, [Next]_vars PROVE EngineInv'
  OBVIOUS
<1>1. CASE Merge
  BY <1>1, MergeKeeps
<1>2. ASSUME NEW w \in Worker, Step(w) PROVE EngineInv'
  <2>1. CASE Take(w)
    BY <2>1, TakeKeeps
  <2>2. ASSUME NEW b \in Buffer, Draw(w, b) PROVE EngineInv'
    BY <2>2, DrawKeeps
  <2>3. CASE Read(w) \/ LoadEffective(w) \/ StoreEffective(w) \/ Configure(w)
    BY <2>3, LookupsKeep
  <2>4. CASE Walk(w) \/ \E r \in Rule : Start(w, r) \/ Finish(w, r)
    BY <2>4, RulesKeep
  <2>5. CASE Fail(w) \/ Return(w) \/ Recover(w)
    BY <2>5, EndKeeps
  <2> QED BY <1>2, <2>1, <2>2, <2>3, <2>4, <2>5 DEF Step
<1>3. CASE UNCHANGED vars
  BY <1>3, StutterKeeps
<1> QED BY <1>1, <1>2, <1>3 DEF Next

LEMMA Invariant == Spec => []EngineInv
<1>1. Init => EngineInv
  BY InitInv
<1>2. EngineInv /\ [Next]_vars => EngineInv'
  BY StepInv
<1> QED BY <1>1, <1>2, PTL DEF Spec

-----------------------------------------------------------------------------
(* Theorems.                                                               *)

(* Every variable keeps its type, whatever files, rules and workers a run   *)
(* has: runner.go, lintFile and Run.                                       *)
THEOREM TypeCorrect == Spec => []TypeOK
<1>1. EngineInv => TypeOK
  BY DEF EngineInv, TypeInv
<1> QED BY <1>1, Invariant, PTL

(* A pooled buffer has one owner, whichever way lintFile is left: an error, *)
(* a panic or a return puts it back once.                                  *)
THEOREM BuffersAreOwned == Spec => []BufferOwned
<1>1. EngineInv => BufferOwned
  BY DEF EngineInv
<1> QED BY <1>1, Invariant, PTL

(* When Run returns every file has the outcome it has when it is linted     *)
(* alone, for any number of workers and any order of their steps.          *)
THEOREM OutcomesAreTheirOwn == Spec => []OutcomeIsItsOwn
<1>1. EngineInv => OutcomeIsItsOwn
  <2> SUFFICES ASSUME EngineInv, result # None, NEW i \in DOMAIN outcome
               PROVE  /\ outcome[i] # None
                      /\ RulesOf(outcome[i]) = LintedAlone(Work[i], IntraFileCap, run.bad)
                      /\ \A d \in outcome[i].diags : d.file \in {Work[i], None}
    BY DEF OutcomeIsItsOwn
  <2>1. i \in 1..Len(Work)
    BY DEF EngineInv, TypeInv, TypeOK
  <2>2. outcome[i] # None
    BY <2>1 DEF EngineInv, MergedAtEnd
  <2> QED BY <2>1, <2>2 DEF EngineInv, AsAlone
<1> QED BY <1>1, Invariant, PTL

=============================================================================
