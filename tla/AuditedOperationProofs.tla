------------------------ MODULE AuditedOperationProofs ------------------------
(***************************************************************************)
(* Every mutation is audited, a clean shutdown loses no row, and admission *)
(* to the ledger is exact, for any finite number of threads, payloads,     *)
(* limits and failures.                                                    *)
(*                                                                         *)
(* The inductive invariant follows one row from the ticket to the ledger:  *)
(* where the ticket may be while audited() is somewhere (TicketSound), what *)
(* the frame of audited() remembers of its transactions (FrameSound), that *)
(* a thread has at most one row on its way through queue and batch and     *)
(* none that is in the ledger already (RowsSound), and what each answer    *)
(* says of the ledger (LedgerSound).  ShutdownSound counts the tickets the *)
(* worker waits for before it stops.                                       *)
(*                                                                         *)
(* AccountsInv is inductive on top of it: a counter is the sum of what is  *)
(* reserved, queued or batched, who waits stands in the line once, the     *)
(* oversized owner has a ticket or a row that will give the queue back,    *)
(* and a ticket has the sizes its place allows.                            *)
(***************************************************************************)
EXTENDS AuditedOperation, OrderLemmas, FiniteSetTheorems, SequenceTheorems, TLAPS

Filing == {"recording", "waiting", "granted", "direct"}

TicketPlaces == {"none", "asking", "admitted", "queued", "leaving"} \cup Filing

Answers == {"none", "recorded", "refused", "uncertain"}

Ticket == [at : TicketPlaces, load : Payload, reserved : Nat, wanted : Nat,
           expansion : Nat, oversized : BOOLEAN, transferred : BOOLEAN,
           what : Outcomes \cup {"none"}, answer : Answers]

CallPlaces == {"idle", "admission", "restart", "operation", "transaction",
               "committing", "raised", "asking for failure",
               "recording failure", "recording result", "done"}

CallRecord == [kind : Kinds \cup {"none"}, at : CallPlaces, inserted : BOOLEAN,
               committed : BOOLEAN, staged : BOOLEAN, depth : Int, doomed : BOOLEAN,
               spoiled : BOOLEAN, transactions : Nat, retries : Nat,
               result : {"none", "returned", "raised"}]

Row == [by : Producers, size : Nat, what : Outcomes, oversized : BOOLEAN]

Shape ==
    /\ ticket \in [Producers -> Ticket]
    /\ call \in [Producers -> CallRecord]
    /\ queue \in Seq(Row) /\ batch \in Seq(Row)
    /\ ledger \in [Producers -> [Outcomes -> 0 .. 1]]
    /\ commits \in [Producers -> Seq({FALSE})]
    /\ worker \in [at : {"waiting", "committing", "settling", "stopped"},
                   healthy : BOOLEAN, error : Failures \cup {"none"}]
    /\ "activeProducers" \in DOMAIN counters

(* The outcome that a thread is recording.                                 *)
Outcome(p) == IF At(p, "recording failure") THEN "failed" ELSE "accepted"

RecordingNow(p) == call[p].at \in {"recording failure", "recording result"}

(* Where its ticket may be.                                                *)
TicketSound(p) ==
    /\ call[p].at \in {"idle", "restart", "done"} => ticket[p].at = "none"
    /\ At(p, "admission") => ticket[p].at = "asking"
    /\ call[p].at \in {"operation", "transaction", "committing", "raised"}
         => ticket[p].at \in {"admitted", "none"}
    /\ At(p, "asking for failure") =>
         /\ ticket[p].at \in {"asking", "admitted", "none"}
         /\ ticket[p].at = "none" => ticket[p].answer = "refused"
    /\ RecordingNow(p) =>
         /\ ticket[p].at \in Filing \cup {"queued", "leaving", "none"}
         /\ ticket[p].at # "none" => ticket[p].what = Outcome(p)
    /\ ticket[p].at \notin {"queued", "leaving"} => ~ticket[p].transferred
    /\ ticket[p].at = "queued" => ticket[p].transferred

(* What the frame of audited() knows of the transactions.                  *)
FrameSound(p) ==
    /\ call[p].committed => call[p].inserted
    /\ call[p].at \in {"admission", "restart", "operation", "transaction"} =>
         (call[p].inserted <=> call[p].committed)
    /\ call[p].staged => At(p, "committing")
    /\ At(p, "committing") =>
         /\ call[p].staged <=> call[p].inserted /\ ~call[p].committed
         /\ IsMutation(p) => call[p].inserted
    /\ call[p].spoiled => At(p, "transaction") /\ call[p].doomed
    /\ call[p].at \in {"idle", "recording result"} => ~call[p].committed
    /\ At(p, "idle") => commits[p] = <<>>
    /\ IsMutation(p) /\ ~At(p, "done") => (call[p].committed <=> commits[p] # <<>>)

Queued(p, what) == \E i \in DOMAIN queue : queue[i].by = p /\ queue[i].what = what
Taken(p, what) == \E i \in DOMAIN batch : batch[i].by = p /\ batch[i].what = what

(* A row that may still reach the ledger through the worker.               *)
Pending(p, what) == Queued(p, what) \/ (worker.at = "committing" /\ Taken(p, what))

(* Rows on their way.                                                      *)
RowsSound ==
    /\ \A i, j \in DOMAIN queue : queue[i].by = queue[j].by => i = j
    /\ \A i, j \in DOMAIN batch : batch[i].by = batch[j].by => i = j
    /\ \A i \in DOMAIN queue : \A j \in DOMAIN batch : queue[i].by # batch[j].by
    /\ worker.at \in {"waiting", "stopped"} => batch = <<>>
    /\ \A p \in Producers, what \in Outcomes :
         Queued(p, what) \/ Taken(p, what) =>
            /\ ticket[p].at \in {"queued", "leaving", "none"}
            /\ (RecordingNow(p) /\ what = Outcome(p)) \/ At(p, "done")

(* What is in the ledger.                                                  *)
LedgerSound(p) ==
    /\ \A what \in Outcomes : Pending(p, what) => ledger[p][what] = 0
    /\ ~At(p, "recording failure") /\ ~At(p, "done") => ledger[p]["failed"] = 0
    /\ ~At(p, "recording result") /\ ~At(p, "done") =>
         ledger[p]["accepted"] = IF call[p].committed THEN 1 ELSE 0
    /\ RecordingNow(p) =>
         /\ ticket[p].at \in Filing => ledger[p][Outcome(p)] = 0
         /\ ticket[p].at = "queued" => Pending(p, Outcome(p))
         /\ ticket[p].at \in {"leaving", "none"} =>
              /\ ticket[p].answer # "none"
              /\ ticket[p].answer = "refused" =>
                   ledger[p][Outcome(p)] = 0 /\ ~Pending(p, Outcome(p))
              /\ ticket[p].answer = "recorded" => ledger[p][Outcome(p)] = 1
    /\ At(p, "done") =>
         /\ call[p].result = "returned" /\ call[p].kind # "human read"
              => ledger[p]["accepted"] = 1
         /\ call[p].result = "raised" /\ ticket[p].answer = "refused"
              => ledger[p]["failed"] = 0 /\ ~Pending(p, "failed")
         /\ call[p].result = "raised" /\ ticket[p].answer = "recorded"
              => ledger[p]["failed"] = 1
         /\ IsMutation(p) /\ commits[p] # <<>> => ledger[p]["accepted"] = 1

ShutdownSound ==
    /\ counters.activeProducers = Cardinality(Holders)
    /\ worker.at = "stopped" => queue = <<>> /\ ShuttingDown /\ Holders = {}
    /\ closing = "closed" => worker.at = "stopped"

AuditInv ==
    /\ Shape
    /\ \A p \in Producers : TicketSound(p) /\ FrameSound(p) /\ LedgerSound(p)
    /\ RowsSound
    /\ ShutdownSound

-----------------------------------------------------------------------------
(* Steps of one thread that move no row.                                   *)

(* The thread's own ticket and call change, well typed.                    *)
StepOf(p) ==
    /\ ticket' \in [Producers -> Ticket] /\ call' \in [Producers -> CallRecord]
    /\ \A q \in Producers \ {p} : ticket'[q] = ticket[q] /\ call'[q] = call[q]

(* counters.activeProducers follows the ticket.                            *)
Tallied(p) ==
    /\ "activeProducers" \in DOMAIN counters'
    /\ \/ /\ Counted(p)' <=> Counted(p)
          /\ counters'.activeProducers = counters.activeProducers
       \/ /\ ~Counted(p) /\ Counted(p)' /\ ~ShuttingDown
          /\ counters'.activeProducers = counters.activeProducers + 1
       \/ /\ Counted(p) /\ ~Counted(p)'
          /\ counters'.activeProducers = AtLeastZero(counters.activeProducers - 1)

(* Adding or removing one ticket changes their number by one.              *)
LEMMA TallyCounts ==
    ASSUME NEW p \in Producers, StepOf(p), Tallied(p), Shape,
           counters.activeProducers = Cardinality(Holders)
    PROVE  /\ counters'.activeProducers = Cardinality(Holders')
           /\ Holders = {} /\ ShuttingDown => Holders' = {}
  <1>1. IsFiniteSet(Holders)
    BY LedgerAssumption, FS_Subset DEF Holders
  <1>2. Cardinality(Holders) \in Nat
    BY <1>1, FS_CardinalityType
  <1>3. \A q \in Producers \ {p} : Counted(q)' <=> Counted(q)
    BY DEF StepOf, Counted
  <1>4. CASE /\ Counted(p)' <=> Counted(p)
             /\ counters'.activeProducers = counters.activeProducers
    <2>1. Holders' = Holders
      BY <1>3, <1>4 DEF Holders
    <2> QED  BY <1>4, <2>1
  <1>5. CASE /\ ~Counted(p) /\ Counted(p)' /\ ~ShuttingDown
             /\ counters'.activeProducers = counters.activeProducers + 1
    <2>1. Holders' = Holders \cup {p} /\ p \notin Holders
      BY <1>3, <1>5 DEF Holders
    <2>2. Cardinality(Holders') = Cardinality(Holders) + 1
      BY <1>1, <2>1, FS_AddElement
    <2> QED  BY <1>5, <2>2
  <1>6. CASE /\ Counted(p) /\ ~Counted(p)'
             /\ counters'.activeProducers = AtLeastZero(counters.activeProducers - 1)
    <2>1. Holders' = Holders \ {p} /\ p \in Holders
      BY <1>3, <1>6 DEF Holders
    <2>2. Cardinality(Holders') = Cardinality(Holders) - 1
      BY <1>1, <2>1, FS_RemoveElement
    <2>3. Cardinality(Holders') \in Nat
      BY <1>1, <2>1, FS_RemoveElement, FS_CardinalityType
    <2> QED  BY <1>2, <1>6, <2>1, <2>2, <2>3 DEF AtLeastZero
  <1> QED  BY <1>4, <1>5, <1>6 DEF Tallied

(* A row keeps its owner where it is.                                      *)
Keeps(p) ==
    \/ /\ RecordingNow(p) /\ RecordingNow(p)' /\ Outcome(p)' = Outcome(p)
       /\ ticket[p].at \in {"queued", "leaving", "none"}
            => ticket'[p].at \in {"queued", "leaving", "none"}
    \/ At(p, "done")' /\ ticket'[p].at = "none"
    \/ ~RecordingNow(p) /\ ~At(p, "done")

(* What is sound of a thread stays so while it and its rows stay.          *)
LEMMA OthersStay ==
    ASSUME NEW q \in Producers, TicketSound(q), FrameSound(q), LedgerSound(q),
           ticket'[q] = ticket[q], call'[q] = call[q], commits'[q] = commits[q],
           ledger'[q] = ledger[q],
           \A what \in Outcomes : Pending(q, what)' <=> Pending(q, what)
    PROVE  TicketSound(q)' /\ FrameSound(q)' /\ LedgerSound(q)'
  <1>1. TicketSound(q)'
    BY DEF TicketSound, RecordingNow, Outcome, At
  <1>2. FrameSound(q)'
    BY DEF FrameSound, IsMutation, At
  <1>3. LedgerSound(q)'
    BY DEF LedgerSound, RecordingNow, Outcome, At, IsMutation, Outcomes
  <1> QED  BY <1>1, <1>2, <1>3

(* So a step of p that moves no row needs to be looked at for p alone.     *)
LEMMA QuietStep ==
    ASSUME AuditInv, NEW p \in Producers, StepOf(p), Tallied(p), Keeps(p),
           UNCHANGED <<queue, batch, ledger, commits, worker, closing>>,
           TicketSound(p)', FrameSound(p)', LedgerSound(p)'
    PROVE  AuditInv'
  <1> USE DEF AuditInv
  <1>1. Shape'
    BY DEF Shape, StepOf, Tallied
  <1>2. \A q \in Producers, what \in Outcomes :
           /\ Pending(q, what)' <=> Pending(q, what)
           /\ Queued(q, what)' <=> Queued(q, what)
           /\ Taken(q, what)' <=> Taken(q, what)
    BY DEF Pending, Queued, Taken
  <1>3. ASSUME NEW q \in Producers
        PROVE  TicketSound(q)' /\ FrameSound(q)' /\ LedgerSound(q)'
    <2>1. CASE q = p
      BY <2>1
    <2>2. CASE q # p
      BY <1>2, <2>2, OthersStay DEF StepOf
    <2> QED  BY <2>1, <2>2
  <1>4. RowsSound'
    <2>1. ASSUME NEW q \in Producers, NEW what \in Outcomes,
                 Queued(q, what)' \/ Taken(q, what)'
          PROVE  /\ ticket'[q].at \in {"queued", "leaving", "none"}
                 /\ (RecordingNow(q)' /\ what = Outcome(q)') \/ At(q, "done")'
      <3>1. /\ ticket[q].at \in {"queued", "leaving", "none"}
            /\ (RecordingNow(q) /\ what = Outcome(q)) \/ At(q, "done")
        BY <1>2, <2>1 DEF RowsSound
      <3>2. CASE q = p
        BY <3>1, <3>2 DEF Keeps, RecordingNow, At
      <3>3. CASE q # p
        BY <3>1, <3>3 DEF StepOf, RecordingNow, Outcome, At
      <3> QED  BY <3>2, <3>3
    <2> QED  BY <2>1 DEF RowsSound
  <1>5. ShutdownSound'
    BY TallyCounts DEF ShutdownSound, ShuttingDown
  <1> QED  BY <1>1, <1>3, <1>4, <1>5
-----------------------------------------------------------------------------
(* What the operations of the ledger do to the ticket.                     *)

TicketStep(p) ==
    /\ ticket' \in [Producers -> Ticket]
    /\ \A q \in Producers \ {p} : ticket'[q] = ticket[q]
    /\ Tallied(p)
    /\ UNCHANGED <<queue, batch, worker, closing, ledger>>

LEMMA LargerOfTwo ==
    ASSUME NEW a \in Nat, NEW b \in Nat
    PROVE  Max({a, b}) \in Nat /\ Max({a, b}) >= a /\ Max({a, b}) >= b
  <1>1. \E x \in {a, b} : \A y \in {a, b} : x >= y
    OBVIOUS
  <1> QED  BY <1>1 DEF Max

LEMMA NoTicketIsTicket == NoTicket \in Ticket
  BY DEF NoTicket, Ticket, TicketPlaces, Payload, Outcomes, Answers

LEMMA Asking ==
    ASSUME AuditInv, NEW p \in Producers, NEW load \in Payloads, Ask(p, load)
    PROVE  /\ TicketStep(p) /\ ticket'[p].at = "asking" /\ ~ticket'[p].transferred
           /\ ticket[p].at = "none"
  <1> DEFINE t == [NoTicket EXCEPT !.at = "asking", !.load = load]
  <1>1. t \in Ticket /\ t.at = "asking" /\ ~t.transferred
    BY LedgerAssumption DEF NoTicket, Ticket, TicketPlaces, Payload, Outcomes, Answers
  <1>2. ticket' = [ticket EXCEPT ![p] = t] /\ ticket \in [Producers -> Ticket]
    BY DEF Ask, AuditInv, Shape
  <1> HIDE DEF t
  <1>3. ticket' \in [Producers -> Ticket] /\ ticket'[p] = t
    BY <1>1, <1>2
  <1>4. Tallied(p)
    BY <1>1, <1>3 DEF Tallied, Ask, Counted, AuditInv, Shape
  <1> QED  BY <1>1, <1>2, <1>3, <1>4 DEF Ask, TicketStep

LEMMA Admitting ==
    ASSUME AuditInv, NEW p \in Producers, Admit(p)
    PROVE  /\ TicketStep(p) /\ ticket'[p].at = "admitted" /\ ~ticket'[p].transferred
           /\ ticket[p].at = "asking"
  <1> DEFINE big == ticket[p].load.asked > MaxTotalBytes
             t == [ticket[p] EXCEPT !.at = "admitted",
                     !.reserved = ticket[p].load.asked,
                     !.oversized = big]
  <1>1. ticket \in [Producers -> Ticket] /\ ticket[p].load.asked \in Nat
    BY DEF AuditInv, Shape, Ticket, Payload
  <1>2. ~ticket[p].transferred /\ ticket[p].at = "asking"
    BY DEF AuditInv, TicketSound, Admit
  <1>3. ticket' = [ticket EXCEPT ![p] = t]
    BY <1>1 DEF Admit
  <1>4. big \in BOOLEAN
    OBVIOUS
  <1> HIDE DEF big
  <1>5. t \in Ticket /\ t.at = "admitted" /\ ~t.transferred
    BY <1>1, <1>2, <1>4 DEF Ticket, TicketPlaces
  <1> HIDE DEF t
  <1>6. ticket' \in [Producers -> Ticket] /\ ticket'[p] = t
    BY <1>1, <1>5, <1>3
  <1>7. /\ "activeProducers" \in DOMAIN counters'
        /\ counters'.activeProducers = counters.activeProducers + 1
    BY DEF Admit, AuditInv, Shape
  <1>8. Tallied(p)
    BY <1>2, <1>5, <1>6, <1>7 DEF Tallied, Admit, Counted
  <1> QED  BY <1>1, <1>2, <1>5, <1>3, <1>6, <1>8 DEF Admit, TicketStep

LEMMA Refusing ==
    ASSUME AuditInv, NEW p \in Producers, RefuseAdmission(p)
    PROVE  /\ TicketStep(p) /\ ticket'[p].at = "none" /\ ~ticket'[p].transferred
           /\ ticket'[p].answer = "refused" /\ ticket[p].at = "asking"
  <1> DEFINE t == [NoTicket EXCEPT !.answer = "refused"]
  <1>1. t \in Ticket /\ t.at = "none" /\ ~t.transferred /\ t.answer = "refused"
    BY NoTicketIsTicket DEF NoTicket, Ticket, Answers
  <1>2. ticket' = [ticket EXCEPT ![p] = t] /\ ticket \in [Producers -> Ticket]
    BY DEF RefuseAdmission, AuditInv, Shape
  <1> HIDE DEF t
  <1>3. ticket' \in [Producers -> Ticket] /\ ticket'[p] = t
    BY <1>1, <1>2
  <1>4. Tallied(p)
    BY <1>1, <1>3 DEF Tallied, RefuseAdmission, Counted, AuditInv, Shape
  <1> QED  BY <1>1, <1>2, <1>3, <1>4 DEF RefuseAdmission, TicketStep

LEMMA Recording ==
    ASSUME AuditInv, NEW p \in Producers, NEW what \in Outcomes, BeginRecord(p, what)
    PROVE  /\ TicketStep(p) /\ ticket'[p].at = "recording" /\ ~ticket'[p].transferred
           /\ ticket'[p].what = what /\ ticket[p].at = "admitted"
  <1> DEFINE wanted == Max({ticket[p].reserved, ticket[p].load.needed})
             t == [ticket[p] EXCEPT !.at = "recording", !.what = what, !.wanted = wanted,
                                    !.expansion = wanted - ticket[p].reserved]
  <1>1. /\ ticket \in [Producers -> Ticket] /\ ticket[p] \in Ticket
        /\ ticket[p].reserved \in Nat /\ ticket[p].load.needed \in Nat
    BY DEF AuditInv, Shape, Ticket, Payload
  <1>2. wanted \in Nat /\ wanted - ticket[p].reserved \in Nat
    BY <1>1, LargerOfTwo
  <1>3. ~ticket[p].transferred /\ ticket[p].at = "admitted"
    BY DEF AuditInv, TicketSound, BeginRecord
  <1>4. ticket' = [ticket EXCEPT ![p] = t]
    BY <1>1 DEF BeginRecord
  <1> HIDE DEF wanted
  <1>5. t \in Ticket /\ t.at = "recording" /\ ~t.transferred /\ t.what = what
    BY <1>1, <1>2, <1>3 DEF Ticket, TicketPlaces, Filing
  <1> HIDE DEF t
  <1>6. ticket' \in [Producers -> Ticket] /\ ticket'[p] = t
    BY <1>1, <1>4, <1>5
  <1>7. Tallied(p)
    BY <1>3, <1>5, <1>6 DEF Tallied, BeginRecord, Counted, AuditInv, Shape
  <1> QED  BY <1>1, <1>3, <1>4, <1>5, <1>6, <1>7 DEF BeginRecord, TicketStep

(* Giving a ticket back, used or not.                                      *)
LEMMA GivingBack ==
    ASSUME AuditInv, NEW p \in Producers, GiveBack(p),
           ticket[p].at \in {"admitted", "leaving"},
           UNCHANGED <<queue, batch, worker, closing, ledger>>
    PROVE  /\ TicketStep(p) /\ ticket'[p].at = "none" /\ ~ticket'[p].transferred
           /\ ticket'[p].answer = ticket[p].answer
  <1> DEFINE t == [NoTicket EXCEPT !.answer = ticket[p].answer]
  <1>1. /\ ticket \in [Producers -> Ticket] /\ ticket[p].answer \in Answers
        /\ ticket[p].transferred \in BOOLEAN
    BY DEF AuditInv, Shape, Ticket
  <1>2. t \in Ticket /\ t.at = "none" /\ ~t.transferred /\ t.answer = ticket[p].answer
    BY <1>1, NoTicketIsTicket DEF NoTicket, Ticket
  <1>3. ticket' = [ticket EXCEPT ![p] = t]
    BY DEF GiveBack
  <1> HIDE DEF t
  <1>4. ticket' \in [Producers -> Ticket] /\ ticket'[p] = t
    BY <1>1, <1>2, <1>3
  <1>5. "activeProducers" \in DOMAIN counters
    BY DEF AuditInv, Shape
  <1>6. Tallied(p)
    <2>1. CASE ticket[p].transferred
      BY <1>2, <1>4, <1>5, <2>1 DEF Tallied, Counted, GiveBack
    <2>2. CASE ~ticket[p].transferred
      <3>1. /\ "activeProducers" \in DOMAIN counters'
            /\ counters'.activeProducers = AtLeastZero(counters.activeProducers - 1)
        BY <1>5, <2>2 DEF GiveBack
      <3> QED  BY <1>2, <1>4, <2>2, <3>1 DEF Tallied, Counted
    <2> QED  BY <2>1, <2>2
  <1> QED  BY <1>1, <1>2, <1>3, <1>4, <1>6 DEF TicketStep

LEMMA InTransaction ==
    ASSUME AuditInv, NEW p \in Producers, NEW answer \in Answers,
           RecordInTransaction(p, answer)
    PROVE  /\ TicketStep(p) /\ ticket'[p].at = "none" /\ ~ticket'[p].transferred
           /\ ticket'[p].answer = answer /\ ticket[p].at = "admitted"
  <1> DEFINE t == [NoTicket EXCEPT !.answer = answer]
  <1>1. ticket \in [Producers -> Ticket] /\ ~ticket[p].transferred
    BY DEF AuditInv, Shape, TicketSound, RecordInTransaction
  <1>2. t \in Ticket /\ t.at = "none" /\ ~t.transferred /\ t.answer = answer
    BY NoTicketIsTicket DEF NoTicket, Ticket
  <1>3. ticket' = [ticket EXCEPT ![p] = t]
    BY DEF RecordInTransaction
  <1> HIDE DEF t
  <1>4. ticket' \in [Producers -> Ticket] /\ ticket'[p] = t
    BY <1>1, <1>2, <1>3
  <1>5. /\ "activeProducers" \in DOMAIN counters'
        /\ counters'.activeProducers = AtLeastZero(counters.activeProducers - 1)
    BY DEF RecordInTransaction, AuditInv, Shape
  <1>6. Tallied(p)
    BY <1>1, <1>2, <1>4, <1>5 DEF Tallied, Counted, RecordInTransaction
  <1> QED  BY <1>1, <1>2, <1>3, <1>4, <1>6 DEF RecordInTransaction, TicketStep

-----------------------------------------------------------------------------
(* What the steps of audited() and of its transactions do to the call.     *)

CallStep(p) ==
    /\ call' \in [Producers -> CallRecord]
    /\ \A q \in Producers \ {p} : call'[q] = call[q]

SameFrame(p) ==
    /\ call'[p].kind = call[p].kind /\ call'[p].inserted = call[p].inserted
    /\ call'[p].committed = call[p].committed /\ call'[p].staged = call[p].staged
    /\ call'[p].spoiled = call[p].spoiled /\ call'[p].doomed = call[p].doomed

LEMMA Going ==
    ASSUME AuditInv, NEW p \in Producers, NEW place \in CallPlaces, Goes(p, place)
    PROVE  CallStep(p) /\ call'[p].at = place /\ SameFrame(p)
  <1>1. call \in [Producers -> CallRecord]
    BY DEF AuditInv, Shape
  <1>2. [call[p] EXCEPT !.at = place] \in CallRecord
    BY <1>1 DEF CallRecord
  <1> QED  BY <1>1, <1>2 DEF Goes, CallStep, SameFrame, CallRecord

LEMMA Ending ==
    ASSUME AuditInv, NEW p \in Producers, NEW result \in {"returned", "raised"},
           Ends(p, result)
    PROVE  /\ CallStep(p) /\ call'[p].at = "done" /\ call'[p].result = result
           /\ call'[p].kind = call[p].kind
           /\ ~call'[p].inserted /\ ~call'[p].committed /\ ~call'[p].spoiled
           /\ ~call'[p].staged
  <1> DEFINE over == Call(call[p].kind, "done")
             c == [over EXCEPT !.result = result]
  <1>1. call \in [Producers -> CallRecord] /\ call[p].kind \in Kinds \cup {"none"}
    BY DEF AuditInv, Shape, CallRecord
  <1>2. call' = [call EXCEPT ![p] = c]
    BY DEF Ends
  <1>3. /\ over \in CallRecord /\ over.at = "done" /\ over.kind = call[p].kind
        /\ ~over.inserted /\ ~over.committed /\ ~over.spoiled
        /\ ~over.staged
    <2>1. "done" \in CallPlaces
      BY DEF CallPlaces
    <2>2. over \in CallRecord
      BY <1>1, <2>1 DEF Call, CallRecord
    <2> QED  BY <2>2 DEF Call
  <1> HIDE DEF over
  <1>4. /\ c \in CallRecord /\ c.at = "done" /\ c.result = result
        /\ c.kind = call[p].kind /\ ~c.inserted /\ ~c.committed /\ ~c.spoiled
        /\ ~c.staged
    BY <1>3 DEF CallRecord
  <1> HIDE DEF c
  <1> QED  BY <1>1, <1>2, <1>4 DEF CallStep

LEMMA Leaving ==
    ASSUME AuditInv, NEW p \in Producers, NEW place \in CallPlaces,
           NEW committed \in BOOLEAN, Over(p, place, committed)
    PROVE  /\ CallStep(p) /\ call'[p].at = place /\ call'[p].kind = call[p].kind
           /\ call'[p].inserted = call[p].inserted /\ call'[p].committed = committed
           /\ ~call'[p].staged /\ ~call'[p].doomed /\ ~call'[p].spoiled
  <1> DEFINE here == [call[p] EXCEPT !.at = place, !.committed = committed,
                        !.staged = FALSE]
             out == [here EXCEPT !.depth = 0]
             c == [out EXCEPT !.doomed = FALSE, !.spoiled = FALSE]
  <1>1. call \in [Producers -> CallRecord] /\ call[p] \in CallRecord
    BY DEF AuditInv, Shape
  <1>2. call' = [call EXCEPT ![p] = c]
    BY <1>1 DEF Over
  <1>3. /\ here \in CallRecord /\ here.at = place /\ here.kind = call[p].kind
        /\ here.inserted = call[p].inserted /\ ~here.staged
    BY <1>1 DEF CallRecord
  <1>4. here.committed = committed
    BY <1>1 DEF CallRecord
  <1> HIDE DEF here
  <1>5. /\ out \in CallRecord /\ out.at = place /\ out.kind = call[p].kind
        /\ out.inserted = call[p].inserted /\ ~out.staged /\ out.committed = committed
    BY <1>3, <1>4 DEF CallRecord
  <1> HIDE DEF out
  <1>6. /\ c \in CallRecord /\ c.at = place /\ c.kind = call[p].kind
        /\ ~c.staged /\ ~c.doomed /\ ~c.spoiled
    BY <1>5 DEF CallRecord
  <1>7. c.inserted = call[p].inserted /\ c.committed = committed
    BY <1>5 DEF CallRecord
  <1> HIDE DEF c
  <1> QED  BY <1>1, <1>2, <1>6, <1>7 DEF CallStep

(* A thread has a row on its way only while it records and after that.     *)
LEMMA NoRowYet ==
    ASSUME AuditInv, NEW p \in Producers,
           \/ ~RecordingNow(p) /\ ~At(p, "done")
           \/ ticket[p].at \notin {"queued", "leaving", "none"}
    PROVE  \A what \in Outcomes :
             ~Pending(p, what) /\ ~Queued(p, what) /\ ~Taken(p, what)
  BY DEF AuditInv, RowsSound, Pending

(* A step of the operation proper, before anything is recorded.            *)
Before(place) == place \notin {"recording failure", "recording result", "done"}

LEMMA OperationStep ==
    ASSUME AuditInv, NEW p \in Producers, TicketStep(p), CallStep(p),
           UNCHANGED commits,
           Before(call[p].at), Before(call'[p].at),
           call'[p].committed <=> call[p].committed,
           TicketSound(p)', FrameSound(p)'
    PROVE  AuditInv'
  <1>1. \A what \in Outcomes : ~Pending(p, what)' 
    BY NoRowYet DEF TicketStep, Pending, Queued, Taken, Before, RecordingNow, At
  <1>2. LedgerSound(p)'
    BY <1>1 DEF AuditInv, LedgerSound, TicketStep, Before, RecordingNow, At
  <1>3. StepOf(p) /\ Keeps(p)
    BY DEF TicketStep, CallStep, StepOf, Keeps, Before, RecordingNow, At
  <1> QED  BY <1>2, <1>3, QuietStep DEF TicketStep

(* A ticket and a ledger that are left alone.                              *)
LEMMA LeftAlone ==
    ASSUME AuditInv, NEW p \in Producers, UNCHANGED ledgerVars
    PROVE  TicketStep(p) /\ ticket'[p] = ticket[p]
  BY DEF AuditInv, Shape, TicketStep, Tallied, Counted, ledgerVars

-----------------------------------------------------------------------------
(* The operation and its transactions.                                     *)

LEMMA StartKeeps ==
    ASSUME AuditInv, NEW p \in Producers, Start(p)
    PROVE  AuditInv'
  <1>1. PICK kind \in Kinds : call' = [call EXCEPT ![p] = Call(kind, "admission")]
    BY DEF Start
  <1>2. PICK load \in Payloads : Ask(p, load)
    BY DEF Start
  <1>3. /\ TicketStep(p) /\ ticket'[p].at = "asking" /\ ~ticket'[p].transferred
    BY <1>2, Asking
  <1>4. At(p, "idle") /\ commits' = commits /\ commits[p] = <<>> /\ ~call[p].committed
    BY DEF Start, AuditInv, FrameSound, At
  <1> DEFINE c == Call(kind, "admission")
  <1>5. /\ c \in CallRecord /\ c.at = "admission" /\ ~c.inserted /\ ~c.committed
        /\ ~c.spoiled /\ ~c.staged
    <2>1. "admission" \in CallPlaces
      BY DEF CallPlaces
    <2>2. c \in CallRecord
      BY <2>1 DEF Call, CallRecord
    <2> QED  BY <2>2 DEF Call
  <1>6. CallStep(p) /\ call'[p] = c
    BY <1>1, <1>5 DEF CallStep, AuditInv, Shape
  <1> HIDE DEF c
  <1>7. TicketSound(p)'
    BY <1>3, <1>5, <1>6 DEF TicketSound, At, RecordingNow
  <1>8. FrameSound(p)'
    BY <1>4, <1>5, <1>6 DEF FrameSound, At, IsMutation
  <1> QED
    BY <1>3, <1>4, <1>5, <1>6, <1>7, <1>8, OperationStep DEF At, Before

LEMMA AdmittedKeeps ==
    ASSUME AuditInv, NEW p \in Producers, Admitted(p)
    PROVE  AuditInv'
  <1>1. At(p, "admission") /\ commits' = commits /\ FrameSound(p)
    BY DEF Admitted, AuditInv
  <1>2. /\ TicketStep(p) /\ ticket'[p].at = "admitted" /\ ~ticket'[p].transferred
    BY Admitting DEF Admitted
  <1>3. CallStep(p) /\ call'[p].at = "operation" /\ SameFrame(p)
    BY Going DEF Admitted, CallPlaces
  <1>4. TicketSound(p)'
    BY <1>2, <1>3 DEF TicketSound, At, RecordingNow
  <1>5. FrameSound(p)'
    BY <1>1, <1>3 DEF FrameSound, At, IsMutation, SameFrame
  <1> QED
    BY <1>1, <1>2, <1>3, <1>4, <1>5, OperationStep DEF At, Before, SameFrame

LEMMA RestartKeeps ==
    ASSUME AuditInv, NEW p \in Producers, Restart(p)
    PROVE  AuditInv'
  <1>1. At(p, "operation") /\ commits' = commits /\ FrameSound(p)
    BY DEF Restart, AuditInv
  <1>2. /\ TicketStep(p) /\ ticket'[p].at = "none" /\ ~ticket'[p].transferred
    BY GivingBack DEF Restart, ReleaseUnused
  <1>3. CallStep(p) /\ call'[p].at = "restart" /\ SameFrame(p)
    BY Going DEF Restart, CallPlaces
  <1>4. TicketSound(p)'
    BY <1>2, <1>3 DEF TicketSound, At, RecordingNow
  <1>5. FrameSound(p)'
    BY <1>1, <1>3 DEF FrameSound, At, IsMutation, SameFrame
  <1> QED
    BY <1>1, <1>2, <1>3, <1>4, <1>5, OperationStep DEF At, Before, SameFrame

LEMMA AskAgainKeeps ==
    ASSUME AuditInv, NEW p \in Producers, AskAgain(p)
    PROVE  AuditInv'
  <1>1. At(p, "restart") /\ commits' = commits /\ FrameSound(p)
    BY DEF AskAgain, AuditInv
  <1>2. PICK load \in Payloads : Ask(p, load)
    BY DEF AskAgain
  <1>3. /\ TicketStep(p) /\ ticket'[p].at = "asking" /\ ~ticket'[p].transferred
    BY <1>2, Asking
  <1> DEFINE here == [call[p] EXCEPT !.at = "admission"]
             n == call[p].retries + 1
             c == [here EXCEPT !.retries = n]
  <1>4. call \in [Producers -> CallRecord] /\ call[p] \in CallRecord
    BY DEF AuditInv, Shape
  <1>5. "admission" \in CallPlaces
    BY DEF CallPlaces
  <1>6. call' = [call EXCEPT ![p] = c]
    BY <1>4 DEF AskAgain
  <1>7. here \in CallRecord /\ here.at = "admission" /\ n \in Nat
    BY <1>4, <1>5 DEF CallRecord
  <1>8. /\ here.kind = call[p].kind /\ here.inserted = call[p].inserted
        /\ here.committed = call[p].committed /\ here.staged = call[p].staged
        /\ here.spoiled = call[p].spoiled
    BY <1>4 DEF CallRecord
  <1> HIDE DEF here, n
  <1>9. c \in CallRecord /\ c.at = "admission"
    BY <1>7 DEF CallRecord
  <1>10. /\ c.kind = call[p].kind /\ c.inserted = call[p].inserted
         /\ c.committed = call[p].committed /\ c.staged = call[p].staged
         /\ c.spoiled = call[p].spoiled
    BY <1>7, <1>8 DEF CallRecord
  <1> HIDE DEF c
  <1>11. CallStep(p) /\ call'[p] = c
    BY <1>4, <1>6, <1>9 DEF CallStep
  <1>12. TicketSound(p)'
    BY <1>3, <1>9, <1>11 DEF TicketSound, At, RecordingNow
  <1>13. FrameSound(p)'
    BY <1>1, <1>9, <1>10, <1>11 DEF FrameSound, At, IsMutation
  <1> QED
    BY <1>1, <1>3, <1>9, <1>10, <1>11, <1>12, <1>13, OperationStep DEF At, Before

LEMMA BeginKeeps ==
    ASSUME AuditInv, NEW p \in Producers, Begin(p)
    PROVE  AuditInv'
  <1>1. At(p, "operation") /\ commits' = commits /\ FrameSound(p) /\ TicketSound(p)
    BY DEF Begin, AuditInv
  <1>2. TicketStep(p) /\ ticket'[p] = ticket[p]
    BY LeftAlone DEF Begin
  <1> DEFINE outer == [call[p] EXCEPT !.depth = 1]
             here == [outer EXCEPT !.at = "transaction"]
             n == call[p].transactions + 1
             c == [here EXCEPT !.transactions = n]
  <1>3. call \in [Producers -> CallRecord] /\ call[p] \in CallRecord
    BY DEF AuditInv, Shape
  <1>4. "transaction" \in CallPlaces
    BY DEF CallPlaces
  <1>5. call' = [call EXCEPT ![p] = c]
    BY <1>3 DEF Begin
  <1>6. /\ outer \in CallRecord /\ n \in Nat
         /\ outer.kind = call[p].kind /\ outer.inserted = call[p].inserted
         /\ outer.committed = call[p].committed /\ outer.staged = call[p].staged
         /\ outer.spoiled = call[p].spoiled
    BY <1>3 DEF CallRecord
  <1> HIDE DEF outer
  <1>7. here \in CallRecord /\ here.at = "transaction"
    BY <1>6, <1>4 DEF CallRecord
  <1>8. /\ here.kind = call[p].kind /\ here.inserted = call[p].inserted
        /\ here.committed = call[p].committed /\ here.staged = call[p].staged
        /\ here.spoiled = call[p].spoiled
    BY <1>6 DEF CallRecord
  <1> HIDE DEF here, n
  <1>9. c \in CallRecord /\ c.at = "transaction"
    BY <1>7, <1>6 DEF CallRecord
  <1>10. /\ c.kind = call[p].kind /\ c.inserted = call[p].inserted
        /\ c.committed = call[p].committed /\ c.staged = call[p].staged
        /\ c.spoiled = call[p].spoiled
    BY <1>7, <1>8 DEF CallRecord
  <1> HIDE DEF c
  <1>11. CallStep(p) /\ call'[p] = c
    BY <1>3, <1>5, <1>9 DEF CallStep
  <1>12. TicketSound(p)'
    BY <1>1, <1>2, <1>9, <1>11 DEF TicketSound, At, RecordingNow
  <1>13. FrameSound(p)'
    BY <1>1, <1>9, <1>10, <1>11 DEF FrameSound, At, IsMutation
  <1> QED
    BY <1>1, <1>2, <1>9, <1>10, <1>11, <1>12, <1>13, OperationStep DEF At, Before

(* Nested blocks change the depth, and may doom the transaction.           *)
LEMMA NestedKeeps ==
    ASSUME AuditInv, NEW p \in Producers, Nest(p) \/ LeaveNested(p) \/ RaiseNested(p)
    PROVE  AuditInv'
  <1>1. /\ At(p, "transaction") /\ commits' = commits /\ FrameSound(p) /\ TicketSound(p)
        /\ UNCHANGED ledgerVars
    BY DEF Nest, LeaveNested, RaiseNested, AuditInv
  <1>2. TicketStep(p) /\ ticket'[p] = ticket[p]
    BY <1>1, LeftAlone
  <1>3. call \in [Producers -> CallRecord] /\ call[p] \in CallRecord
    BY DEF AuditInv, Shape
  <1> DEFINE Fine ==
               /\ CallStep(p) /\ call'[p].at = "transaction"
               /\ call'[p].kind = call[p].kind /\ call'[p].inserted = call[p].inserted
               /\ call'[p].committed = call[p].committed
               /\ call'[p].staged = call[p].staged
               /\ call'[p].spoiled => call'[p].doomed
  <1>4. Fine
    <2> DEFINE here(n) == [call[p] EXCEPT !.depth = n]
    <2>1. ASSUME NEW n \in Int
          PROVE  /\ here(n) \in CallRecord /\ here(n).at = call[p].at
                 /\ here(n).kind = call[p].kind /\ here(n).inserted = call[p].inserted
                 /\ here(n).committed = call[p].committed
                 /\ here(n).staged = call[p].staged /\ here(n).doomed = call[p].doomed
                 /\ here(n).spoiled = call[p].spoiled
      BY <1>3 DEF CallRecord
    <2>2. call[p].depth + 1 \in Int /\ call[p].depth - 1 \in Int
      BY <1>3 DEF CallRecord
    <2>3. ASSUME NEW n \in Int, call' = [call EXCEPT ![p] = here(n)]
          PROVE  Fine
      <3> HIDE DEF here
      <3> QED  BY <1>1, <1>3, <2>1, <2>3 DEF CallStep, FrameSound, At
    <2>4. CASE Nest(p)
      <3>1. call' = [call EXCEPT ![p] = here(call[p].depth + 1)]
        BY <1>3, <2>4 DEF Nest
      <3> QED  BY <2>2, <2>3, <3>1
    <2>5. CASE LeaveNested(p)
      <3>1. call' = [call EXCEPT ![p] = here(call[p].depth - 1)]
        BY <1>3, <2>5 DEF LeaveNested
      <3> QED  BY <2>2, <2>3, <3>1
    <2>6. CASE RaiseNested(p)
      <3> DEFINE h == here(call[p].depth - 1)
                 c == [h EXCEPT !.doomed = TRUE, !.spoiled = TRUE]
      <3>1. call' = [call EXCEPT ![p] = c]
        BY <1>3, <2>6 DEF RaiseNested
      <3>2. /\ h \in CallRecord /\ h.at = call[p].at
            /\ h.kind = call[p].kind /\ h.inserted = call[p].inserted
            /\ h.committed = call[p].committed /\ h.staged = call[p].staged
        BY <2>1, <2>2
      <3> HIDE DEF h
      <3>3. c \in CallRecord /\ c.at = h.at /\ c.kind = h.kind /\ c.doomed
        BY <3>2 DEF CallRecord
      <3>4. /\ c.inserted = h.inserted /\ c.committed = h.committed
            /\ c.staged = h.staged
        BY <3>2 DEF CallRecord
      <3> HIDE DEF c
      <3> QED  BY <1>1, <1>3, <3>1, <3>2, <3>3, <3>4 DEF CallStep, At
    <2> QED  BY <2>4, <2>5, <2>6
  <1>5. TicketSound(p)'
    BY <1>1, <1>2, <1>4 DEF TicketSound, At, RecordingNow
  <1>6. FrameSound(p)'
    BY <1>1, <1>4 DEF FrameSound, At, IsMutation
  <1> QED
    BY <1>1, <1>2, <1>4, <1>5, <1>6, OperationStep DEF At, Before

(* A transaction that is rolled back.                                      *)
LEMMA AbortedKeeps ==
    ASSUME AuditInv, NEW p \in Producers,
           call[p].at \in {"transaction", "committing"}, Aborted(p), commits' = commits,
           TicketStep(p), ticket'[p].at \in {"admitted", "none"}, ~ticket'[p].transferred
    PROVE  AuditInv'
  <1>1. FrameSound(p)
    BY DEF AuditInv
  <1>2. call[p].committed \in BOOLEAN /\ "raised" \in CallPlaces
    BY DEF AuditInv, Shape, CallRecord, CallPlaces
  <1>3. /\ CallStep(p) /\ call'[p].at = "raised" /\ call'[p].kind = call[p].kind
        /\ call'[p].inserted = call[p].inserted
        /\ call'[p].committed = call[p].committed
        /\ ~call'[p].staged /\ ~call'[p].doomed /\ ~call'[p].spoiled
    BY <1>2, Leaving DEF Aborted
  <1>4. TicketSound(p)'
    BY <1>3 DEF TicketSound, At, RecordingNow
  <1>5. FrameSound(p)'
    BY <1>1, <1>3 DEF FrameSound, At, IsMutation
  <1> QED
    BY <1>3, <1>4, <1>5, OperationStep DEF At, Before

LEMMA RollbacksKeep ==
    ASSUME AuditInv, NEW p \in Producers,
           RaiseInTransaction(p) \/ RefuseDoomed(p) \/ FailCommit(p)
    PROVE  AuditInv'
  <1>1. /\ call[p].at \in {"transaction", "committing"} /\ Aborted(p)
        /\ commits' = commits /\ UNCHANGED ledgerVars
    BY DEF RaiseInTransaction, RefuseDoomed, FailCommit, At
  <1>2. TicketStep(p) /\ ticket'[p] = ticket[p]
    BY <1>1, LeftAlone
  <1>3. ticket[p].at \in {"admitted", "none"} /\ ~ticket[p].transferred
    BY <1>1 DEF AuditInv, TicketSound
  <1> QED  BY <1>1, <1>2, <1>3, AbortedKeeps

LEMMA FailHookKeeps ==
    ASSUME AuditInv, NEW p \in Producers, FailHook(p)
    PROVE  AuditInv'
  <1>1. call[p].at = "transaction" /\ Aborted(p) /\ commits' = commits
    BY DEF FailHook, EndsWell, At
  <1>2. TicketStep(p) /\ ticket'[p].at = "none" /\ ~ticket'[p].transferred
    BY InTransaction DEF FailHook, Answers
  <1> QED  BY <1>1, <1>2, AbortedKeeps

LEMMA RunHookKeeps ==
    ASSUME AuditInv, NEW p \in Producers, RunHook(p)
    PROVE  AuditInv'
  <1>1. /\ At(p, "transaction") /\ ~call[p].doomed /\ ~call[p].inserted
        /\ commits' = commits /\ FrameSound(p)
    BY DEF RunHook, EndsWell, HookInserts, AuditInv
  <1>2. TicketStep(p) /\ ticket'[p].at = "none" /\ ~ticket'[p].transferred
    BY InTransaction DEF RunHook, Answers
  <1> DEFINE here == [call[p] EXCEPT !.at = "committing"]
             c == [here EXCEPT !.inserted = TRUE, !.staged = TRUE]
  <1>3. call \in [Producers -> CallRecord] /\ call[p] \in CallRecord
    BY DEF AuditInv, Shape
  <1>4. call' = [call EXCEPT ![p] = c]
    BY <1>3 DEF RunHook
  <1>5. "committing" \in CallPlaces
    BY DEF CallPlaces
  <1>6. /\ here \in CallRecord /\ here.at = "committing" /\ here.kind = call[p].kind
        /\ here.committed = call[p].committed /\ here.spoiled = call[p].spoiled
    BY <1>3, <1>5 DEF CallRecord
  <1> HIDE DEF here
  <1>7. c \in CallRecord /\ c.at = "committing" /\ c.kind = call[p].kind
    BY <1>6 DEF CallRecord
  <1>8. /\ c.committed = call[p].committed /\ c.spoiled = call[p].spoiled
        /\ c.inserted /\ c.staged
    BY <1>6 DEF CallRecord
  <1> HIDE DEF c
  <1>9. CallStep(p) /\ call'[p] = c
    BY <1>3, <1>4, <1>7 DEF CallStep
  <1>10. TicketSound(p)'
    BY <1>2, <1>7, <1>9 DEF TicketSound, At, RecordingNow
  <1>11. FrameSound(p)'
    BY <1>1, <1>7, <1>8, <1>9 DEF FrameSound, At, IsMutation
  <1> QED
    BY <1>1, <1>2, <1>7, <1>8, <1>9, <1>10, <1>11, OperationStep DEF At, Before

(* A step to another place with the ticket left alone.                     *)
LEMMA WalkKeeps ==
    ASSUME AuditInv, NEW p \in Producers, SkipHook(p) \/ RaiseInOperation(p)
    PROVE  AuditInv'
  <1>1. /\ UNCHANGED ledgerVars /\ commits' = commits
        /\ FrameSound(p) /\ TicketSound(p)
    BY DEF AuditInv, SkipHook, RaiseInOperation
  <1>2. TicketStep(p) /\ ticket'[p] = ticket[p]
    BY <1>1, LeftAlone
  <1>3. CASE SkipHook(p)
    <2>1. CallStep(p) /\ call'[p].at = "committing" /\ SameFrame(p)
      BY <1>3, Going DEF SkipHook, CallPlaces
    <2>2. At(p, "transaction") /\ ~call[p].doomed /\ (IsMutation(p) => call[p].inserted)
      BY <1>3 DEF SkipHook, EndsWell, HookInserts
    <2>3. TicketSound(p)'
      BY <1>1, <1>2, <2>1, <2>2 DEF TicketSound, At, RecordingNow
    <2>4. FrameSound(p)'
      BY <1>1, <2>1, <2>2 DEF FrameSound, At, IsMutation, SameFrame
    <2> QED
      BY <1>1, <1>2, <2>1, <2>2, <2>3, <2>4, OperationStep DEF At, Before, SameFrame
  <1>4. CASE RaiseInOperation(p)
    <2>1. CallStep(p) /\ call'[p].at = "raised" /\ SameFrame(p)
      BY <1>4, Going DEF RaiseInOperation, CallPlaces
    <2>2. At(p, "operation")
      BY <1>4 DEF RaiseInOperation
    <2>3. TicketSound(p)'
      BY <1>1, <1>2, <2>1, <2>2 DEF TicketSound, At, RecordingNow
    <2>4. FrameSound(p)'
      BY <1>1, <2>1, <2>2 DEF FrameSound, At, IsMutation, SameFrame
    <2> QED
      BY <1>1, <1>2, <2>1, <2>2, <2>3, <2>4, OperationStep DEF At, Before, SameFrame
  <1> QED  BY <1>3, <1>4

(* The error of an operation, to be recorded with a second ticket.         *)
LEMMA AskForFailureKeeps ==
    ASSUME AuditInv, NEW p \in Producers, AskForFailure(p)
    PROVE  AuditInv'
  <1>1. At(p, "raised") /\ commits' = commits /\ FrameSound(p)
    BY DEF AuditInv, AskForFailure
  <1>2. PICK load \in Payloads : Ask(p, load)
    BY DEF AskForFailure
  <1>3. TicketStep(p) /\ ticket'[p].at = "asking" /\ ~ticket'[p].transferred
    BY <1>2, Asking
  <1>4. CallStep(p) /\ call'[p].at = "asking for failure" /\ SameFrame(p)
    BY Going DEF AskForFailure, CallPlaces
  <1>5. TicketSound(p)'
    BY <1>3, <1>4 DEF TicketSound, At, RecordingNow
  <1>6. FrameSound(p)'
    BY <1>1, <1>4 DEF FrameSound, At, IsMutation, SameFrame
  <1> QED
    BY <1>1, <1>3, <1>4, <1>5, <1>6, OperationStep DEF At, Before, SameFrame

(* That ticket's admission.                                                *)
LEMMA SecondAdmissionKeeps ==
    ASSUME AuditInv, NEW p \in Producers, At(p, "asking for failure"),
           Admit(p) \/ RefuseAdmission(p), UNCHANGED auditedVars
    PROVE  AuditInv'
  <1>1. call' = call /\ commits' = commits /\ FrameSound(p)
    BY DEF AuditInv, auditedVars
  <1>2. /\ TicketStep(p) /\ ~ticket'[p].transferred
        /\ \/ ticket'[p].at = "admitted"
           \/ ticket'[p].at = "none" /\ ticket'[p].answer = "refused"
    BY Admitting, Refusing
  <1>3. CallStep(p)
    BY <1>1 DEF CallStep, AuditInv, Shape
  <1>4. TicketSound(p)'
    BY <1>1, <1>2 DEF TicketSound, At, RecordingNow
  <1>5. FrameSound(p)'
    BY <1>1 DEF FrameSound, At, IsMutation
  <1> QED  BY <1>1, <1>2, <1>3, <1>4, <1>5, OperationStep DEF At, Before

-----------------------------------------------------------------------------
(* Recording, and the end of the call.                                     *)

(* A ticket that begins to record has no row anywhere.                     *)
LEMMA RecordingStep ==
    ASSUME AuditInv, NEW p \in Producers,
           NEW what \in Outcomes,
           NEW place \in {"recording failure", "recording result"},
           what = IF place = "recording failure" THEN "failed" ELSE "accepted",
           call[p].at \in {"operation", "raised", "asking for failure"},
           place = "recording result" => ~call[p].committed,
           BeginRecord(p, what), Goes(p, place), commits' = commits
    PROVE  AuditInv'
  <1>1. /\ TicketStep(p) /\ ticket'[p].at = "recording" /\ ~ticket'[p].transferred
        /\ ticket'[p].what = what /\ ticket[p].at = "admitted"
    BY Recording
  <1>2. CallStep(p) /\ call'[p].at = place /\ SameFrame(p)
    BY Going DEF CallPlaces
  <1>3. FrameSound(p) /\ LedgerSound(p)
    BY DEF AuditInv
  <1>4. TicketSound(p)'
    BY <1>1, <1>2 DEF TicketSound, At, RecordingNow, Outcome, Filing
  <1>5. FrameSound(p)'
    BY <1>2, <1>3 DEF FrameSound, At, IsMutation, SameFrame
  <1>6. \A w \in Outcomes : ~Pending(p, w)'
    BY <1>1, NoRowYet DEF TicketStep, Pending, Queued, Taken
  <1>7. /\ ledger'[p]["failed"] = 0
        /\ ledger'[p]["accepted"] = IF call[p].committed THEN 1 ELSE 0
    BY <1>1, <1>3 DEF TicketStep, LedgerSound, At
  <1>8. LedgerSound(p)'
    BY <1>1, <1>2, <1>6, <1>7 DEF LedgerSound, At, RecordingNow, Outcome, SameFrame,
                                  Outcomes, Filing
  <1>9. StepOf(p) /\ Keeps(p)
    BY <1>1, <1>2 DEF TicketStep, CallStep, StepOf, Keeps, RecordingNow, At
  <1> QED  BY <1>1, <1>4, <1>5, <1>8, <1>9, QuietStep DEF TicketStep

LEMMA BeginRecordKeeps ==
    ASSUME AuditInv, NEW p \in Producers,
           RecordFailure(p) \/ AdmittedForFailure(p) \/ RecordResult(p)
    PROVE  AuditInv'
  <1>1. CASE RecordFailure(p) \/ AdmittedForFailure(p)
    BY <1>1, RecordingStep DEF RecordFailure, AdmittedForFailure, At, Outcomes
  <1>2. CASE RecordResult(p)
    BY <1>2, RecordingStep DEF RecordResult, MustRecordResult, At, Outcomes
  <1> QED  BY <1>1, <1>2

(* audited() ends.                                                         *)
LEMMA EndStep ==
    ASSUME AuditInv, NEW p \in Producers, NEW result \in {"returned", "raised"},
           Ends(p, result), commits' = commits,
           TicketStep(p), ticket'[p].at = "none", ~ticket'[p].transferred,
           LedgerSound(p)'
    PROVE  AuditInv'
  <1>1. /\ CallStep(p) /\ call'[p].at = "done"
        /\ ~call'[p].inserted /\ ~call'[p].committed /\ ~call'[p].spoiled
        /\ ~call'[p].staged
    BY Ending
  <1>2. TicketSound(p)'
    BY <1>1 DEF TicketSound, At, RecordingNow
  <1>3. FrameSound(p)'
    BY <1>1 DEF FrameSound, At, IsMutation
  <1>4. StepOf(p) /\ Keeps(p)
    BY <1>1 DEF TicketStep, CallStep, StepOf, Keeps, At
  <1> QED  BY <1>2, <1>3, <1>4, QuietStep DEF TicketStep

LEMMA NotAdmittedKeeps ==
    ASSUME AuditInv, NEW p \in Producers, NotAdmitted(p)
    PROVE  AuditInv'
  <1>1. /\ At(p, "admission") /\ commits' = commits /\ FrameSound(p) /\ LedgerSound(p)
        /\ Ends(p, "raised")
    BY DEF AuditInv, NotAdmitted
  <1>2. /\ TicketStep(p) /\ ticket'[p].at = "none" /\ ~ticket'[p].transferred
        /\ ticket'[p].answer = "refused"
    BY Refusing DEF NotAdmitted
  <1>3. /\ call'[p].at = "done" /\ call'[p].result = "raised"
        /\ call'[p].kind = call[p].kind
    BY <1>1, Ending
  <1>4. \A w \in Outcomes : ~Pending(p, w)'
    BY <1>1, <1>2, NoRowYet DEF TicketStep, Pending, Queued, Taken, RecordingNow, At
  <1>5. LedgerSound(p)'
    BY <1>1, <1>2, <1>3, <1>4
       DEF LedgerSound, FrameSound, TicketStep, At, RecordingNow, IsMutation, Outcomes
  <1> QED  BY <1>1, <1>2, <1>5, EndStep

LEMMA ReturnUnrecordedKeeps ==
    ASSUME AuditInv, NEW p \in Producers, ReturnUnrecorded(p)
    PROVE  AuditInv'
  <1>1. /\ At(p, "operation") /\ commits' = commits /\ FrameSound(p) /\ LedgerSound(p)
        /\ TicketSound(p) /\ Ends(p, "returned")
        /\ call[p].committed \/ call[p].kind = "human read"
    BY DEF AuditInv, ReturnUnrecorded, MustRecordResult
  <1>2. /\ TicketStep(p) /\ ticket'[p].at = "none" /\ ~ticket'[p].transferred
    <2>1. CASE Spent(p)
      <3>1. UNCHANGED ledgerVars
        BY <2>1 DEF ReturnUnrecorded
      <3> QED  BY <1>1, <2>1, <3>1, LeftAlone DEF Spent, TicketSound
    <2>2. CASE ~Spent(p)
      BY <2>2, GivingBack DEF ReturnUnrecorded, ReleaseUnused
    <2> QED  BY <2>1, <2>2
  <1>3. /\ call'[p].at = "done" /\ call'[p].result = "returned"
        /\ call'[p].kind = call[p].kind
    BY <1>1, Ending
  <1>4. \A w \in Outcomes : ~Pending(p, w)'
    BY <1>1, <1>2, NoRowYet DEF TicketStep, Pending, Queued, Taken, RecordingNow, At
  <1>5. LedgerSound(p)'
    BY <1>1, <1>2, <1>3, <1>4
       DEF LedgerSound, FrameSound, TicketStep, At, RecordingNow, IsMutation, Outcomes
  <1> QED  BY <1>1, <1>2, <1>5, EndStep

LEMMA AnswerKeeps ==
    ASSUME AuditInv, NEW p \in Producers, Answer(p)
    PROVE  AuditInv'
  <1> DEFINE result == IF At(p, "recording result") /\ ticket[p].answer = "recorded"
                       THEN "returned" ELSE "raised"
  <1>1. /\ call[p].at \in {"recording failure", "recording result", "asking for failure"}
        /\ ticket[p].at = "none" /\ commits' = commits /\ UNCHANGED ledgerVars
        /\ FrameSound(p) /\ LedgerSound(p) /\ TicketSound(p)
        /\ Ends(p, result) /\ result \in {"returned", "raised"}
    BY DEF AuditInv, Answer
  <1>2. /\ TicketStep(p) /\ ticket' = ticket /\ ticket'[p].at = "none"
        /\ ~ticket'[p].transferred /\ ledger' = ledger
    BY <1>1, LeftAlone DEF TicketSound, ledgerVars
  <1>3. /\ call'[p].at = "done" /\ call'[p].result = result
        /\ call'[p].kind = call[p].kind
    BY <1>1, Ending
  <1>4. \A w \in Outcomes : Pending(p, w)' <=> Pending(p, w)
    BY <1>1 DEF ledgerVars, Pending, Queued, Taken
  <1>5. CASE At(p, "asking for failure")
    <2>1. \A w \in Outcomes : ~Pending(p, w)
      BY <1>5, NoRowYet DEF RecordingNow, At
    <2>2. LedgerSound(p)'
      BY <1>1, <1>2, <1>3, <1>4, <1>5, <2>1
         DEF LedgerSound, FrameSound, TicketSound, At, RecordingNow, IsMutation, Outcomes
    <2> QED  BY <1>1, <1>2, <2>2, EndStep
  <1>6. CASE At(p, "recording failure")
    <2>1. Outcome(p) = "failed" /\ RecordingNow(p)
      BY <1>6 DEF Outcome, RecordingNow, At
    <2>2. LedgerSound(p)'
      BY <1>1, <1>2, <1>3, <1>4, <1>6, <2>1
         DEF LedgerSound, FrameSound, At, RecordingNow, IsMutation, Outcomes
    <2> QED  BY <1>1, <1>2, <2>2, EndStep
  <1>7. CASE At(p, "recording result")
    <2>1. Outcome(p) = "accepted" /\ RecordingNow(p)
      BY <1>7 DEF Outcome, RecordingNow, At
    <2>2. ~Pending(p, "failed")
      BY <1>7, <2>1 DEF AuditInv, RowsSound, Pending, At, Outcomes
    <2>3. LedgerSound(p)'
      BY <1>1, <1>2, <1>3, <1>4, <1>7, <2>1, <2>2
         DEF LedgerSound, FrameSound, At, RecordingNow, IsMutation, Outcomes
    <2> QED  BY <1>1, <1>2, <2>3, EndStep
  <1> QED  BY <1>1, <1>5, <1>6, <1>7 DEF At

(* The row becomes durable with the transaction.                           *)
LEMMA CommitKeeps ==
    ASSUME AuditInv, NEW p \in Producers, Commit(p)
    PROVE  AuditInv'
  <1>1. /\ At(p, "committing") /\ FrameSound(p) /\ LedgerSound(p) /\ TicketSound(p)
        /\ UNCHANGED <<ticket, queue, batch, counters, worker, closing>>
        /\ commits' = [commits EXCEPT ![p] = Append(@, call[p].spoiled)]
    BY DEF AuditInv, Commit
  <1>2. call[p] \in CallRecord /\ "operation" \in CallPlaces
    BY DEF AuditInv, Shape, CallPlaces
  <1>3. call[p].inserted \in BOOLEAN /\ call[p].spoiled \in BOOLEAN
    BY <1>2 DEF CallRecord
  <1>4. /\ CallStep(p) /\ call'[p].at = "operation" /\ call'[p].kind = call[p].kind
        /\ call'[p].inserted = call[p].inserted
        /\ call'[p].committed = call[p].inserted
        /\ ~call'[p].staged /\ ~call'[p].doomed /\ ~call'[p].spoiled
    BY <1>2, <1>3, Leaving DEF Commit
  <1>5. /\ commits' \in [Producers -> Seq({FALSE})] /\ commits'[p] # <<>>
        /\ \A q \in Producers \ {p} : commits'[q] = commits[q]
    <2>1. call[p].spoiled = FALSE /\ commits \in [Producers -> Seq({FALSE})]
      BY <1>1, <1>3 DEF FrameSound, At, AuditInv, Shape
    <2> DEFINE longer == Append(commits[p], FALSE)
    <2>2. longer \in Seq({FALSE}) /\ Len(longer) # 0
      BY <2>1
    <2>3. commits' = [commits EXCEPT ![p] = longer]
      BY <1>1, <2>1
    <2> HIDE DEF longer
    <2> QED  BY <2>1, <2>2, <2>3
  <1>6. /\ ledger' \in [Producers -> [Outcomes -> 0 .. 1]]
        /\ ledger'[p]["failed"] = 0
        /\ ledger'[p]["accepted"] = IF call[p].inserted THEN 1 ELSE 0
        /\ \A q \in Producers \ {p} : ledger'[q] = ledger[q]
    <2>1. ledger \in [Producers -> [Outcomes -> 0 .. 1]]
      BY DEF AuditInv, Shape
    <2>2. /\ ledger[p]["failed"] = 0
          /\ ledger[p]["accepted"] = IF call[p].committed THEN 1 ELSE 0
      BY <1>1 DEF LedgerSound, At
    <2>3. CASE call[p].staged
      <3>1. call[p].inserted /\ ledger[p]["accepted"] = 0
        BY <1>1, <2>2, <2>3 DEF FrameSound, At
      <3>2. ledger' = [ledger EXCEPT ![p]["accepted"] = @ + 1]
        BY <2>3 DEF Commit
      <3> QED  BY <2>1, <2>2, <3>1, <3>2 DEF Outcomes
    <2>4. CASE ~call[p].staged
      <3>1. call[p].inserted <=> call[p].committed
        BY <1>1, <2>4 DEF FrameSound, At
      <3> QED  BY <2>1, <2>2, <2>4, <3>1 DEF Commit
    <2> QED  BY <2>3, <2>4
  <1>7. \A q \in Producers, what \in Outcomes :
           /\ Pending(q, what)' <=> Pending(q, what)
           /\ Queued(q, what)' <=> Queued(q, what)
           /\ Taken(q, what)' <=> Taken(q, what)
    BY <1>1 DEF Pending, Queued, Taken
  <1>8. TicketSound(p)'
    BY <1>1, <1>4 DEF TicketSound, At, RecordingNow
  <1>9. FrameSound(p)'
    BY <1>1, <1>4, <1>5 DEF FrameSound, At, IsMutation
  <1>10. LedgerSound(p)'
    <2>1. \A what \in Outcomes : ~Pending(p, what)
      BY <1>1, NoRowYet DEF RecordingNow, At
    <2> QED  BY <1>4, <1>6, <1>7, <2>1 DEF LedgerSound, At, RecordingNow
  <1>11. ASSUME NEW q \in Producers
         PROVE  TicketSound(q)' /\ FrameSound(q)' /\ LedgerSound(q)'
    <2>1. CASE q = p
      BY <1>8, <1>9, <1>10, <2>1
    <2>2. CASE q # p
      BY <1>1, <1>4, <1>5, <1>6, <1>7, <2>2, OthersStay DEF CallStep, AuditInv
    <2> QED  BY <2>1, <2>2
  <1>12. Shape'
    BY <1>1, <1>4, <1>5, <1>6 DEF AuditInv, Shape, CallStep
  <1>13. RowsSound'
    <2>1. ASSUME NEW q \in Producers, NEW what \in Outcomes,
                 Queued(q, what)' \/ Taken(q, what)'
          PROVE  /\ ticket'[q].at \in {"queued", "leaving", "none"}
                 /\ (RecordingNow(q)' /\ what = Outcome(q)') \/ At(q, "done")'
      <3>1. /\ ticket[q].at \in {"queued", "leaving", "none"}
            /\ (RecordingNow(q) /\ what = Outcome(q)) \/ At(q, "done")
        BY <1>7, <2>1 DEF RowsSound, AuditInv
      <3>2. q # p
        BY <1>1, <3>1 DEF RecordingNow, At
      <3> QED  BY <1>1, <1>4, <3>1, <3>2 DEF CallStep, RecordingNow, Outcome, At
    <2> QED  BY <1>1, <2>1 DEF RowsSound, AuditInv
  <1>14. ShutdownSound'
    BY <1>1 DEF AuditInv, ShutdownSound, ShuttingDown, Holders, Counted
  <1> QED  BY <1>11, <1>12, <1>13, <1>14 DEF AuditInv

-----------------------------------------------------------------------------
(* The steps of record() that move no row.                                 *)

(* The ticket moves on, and holds what it held.                            *)
LEMMA TicketMoves ==
    ASSUME AuditInv, NEW p \in Producers, RecordingNow(p), TicketStep(p),
           UNCHANGED auditedVars,
           ticket'[p].what = ticket[p].what,
           ticket[p].at \in Filing,
           ticket'[p].at \in Filing \/ ticket'[p].at = "leaving",
           ~ticket'[p].transferred,
           ticket'[p].at = "leaving" => ticket'[p].answer = "refused"
    PROVE  AuditInv'
  <1>1. /\ TicketSound(p) /\ FrameSound(p) /\ LedgerSound(p)
        /\ call' = call /\ commits' = commits
    BY DEF AuditInv, auditedVars
  <1>2. StepOf(p) /\ Keeps(p)
    BY <1>1 DEF TicketStep, AuditInv, Shape, StepOf, Keeps, RecordingNow, Outcome, At,
                Filing
  <1>3. \A w \in Outcomes : ~Pending(p, w)'
    BY NoRowYet DEF TicketStep, Pending, Queued, Taken, Filing
  <1>4. TicketSound(p)'
    BY <1>1 DEF TicketSound, At, RecordingNow, Outcome, Filing
  <1>5. FrameSound(p)'
    BY <1>1 DEF FrameSound, At, IsMutation
  <1>6. LedgerSound(p)'
    BY <1>1, <1>3 DEF LedgerSound, TicketStep, At, RecordingNow, Outcome, Filing, Outcomes
  <1> QED  BY <1>1, <1>2, <1>4, <1>5, <1>6, QuietStep DEF TicketStep

(* A thread that is filing is in audited().                                *)
LEMMA FilingIsRecording ==
    ASSUME AuditInv, NEW p \in Producers,
           ticket[p].at \in Filing \cup {"queued", "leaving"}
    PROVE  /\ RecordingNow(p) /\ ticket[p].what = Outcome(p) /\ ticket[p].what \in Outcomes
           /\ ticket[p].at \in Filing => ~ticket[p].transferred /\ Counted(p)
           /\ ticket[p] \in Ticket /\ ticket \in [Producers -> Ticket]
           /\ "activeProducers" \in DOMAIN counters
  <1>1. TicketSound(p) /\ call[p] \in CallRecord
    BY DEF AuditInv, Shape
  <1>2. call[p].at \in CallPlaces
    BY <1>1 DEF CallRecord
  <1>3. RecordingNow(p)
    BY <1>1, <1>2 DEF TicketSound, RecordingNow, At, Filing, CallPlaces
  <1>4. ticket[p].what = Outcome(p) /\ Outcome(p) \in Outcomes
    BY <1>1, <1>3 DEF TicketSound, Filing, Outcome, Outcomes
  <1> QED
    BY <1>1, <1>3, <1>4 DEF TicketSound, Filing, Counted, AuditInv, Shape

LEMMA ProceedKeeps ==
    ASSUME AuditInv, NEW p \in Producers, ProceedAsIs(p), UNCHANGED auditedVars
    PROVE  AuditInv'
  <1>1. ticket[p].at \in Filing
    BY DEF ProceedAsIs, Filing
  <1>2. /\ RecordingNow(p) /\ ~ticket[p].transferred /\ ticket \in [Producers -> Ticket]
        /\ "activeProducers" \in DOMAIN counters /\ ticket[p] \in Ticket /\ Counted(p)
    BY <1>1, FilingIsRecording
  <1> DEFINE t == [ticket[p] EXCEPT !.at = "granted"]
  <1>3. ticket' = [ticket EXCEPT ![p] = t]
    BY <1>2 DEF ProceedAsIs
  <1>4. /\ t \in Ticket /\ t.at = "granted" /\ t.what = ticket[p].what
        /\ ~t.transferred
    BY <1>2 DEF Ticket, TicketPlaces, Filing
  <1> HIDE DEF t
  <1>5. ticket' \in [Producers -> Ticket] /\ ticket'[p] = t
    BY <1>2, <1>3, <1>4
  <1>6. TicketStep(p)
    BY <1>2, <1>3, <1>4, <1>5 DEF TicketStep, Tallied, Counted, ProceedAsIs
  <1> QED  BY <1>1, <1>2, <1>4, <1>5, <1>6, TicketMoves DEF Filing

(* Grow leaves the producer counted.                                       *)
LEMMA Growing ==
    ASSUME AuditInv, NEW p \in Producers, ticket[p].at \in Filing, NEW extra,
           Grow(p, extra), UNCHANGED <<queue, batch, worker, closing, ledger>>
    PROVE  /\ TicketStep(p) /\ ticket'[p].at = "granted" /\ ~ticket'[p].transferred
           /\ ticket'[p].what = ticket[p].what
  <1>1. /\ RecordingNow(p) /\ ~ticket[p].transferred /\ ticket \in [Producers -> Ticket]
        /\ "activeProducers" \in DOMAIN counters /\ ticket[p] \in Ticket /\ Counted(p)
    BY FilingIsRecording
  <1> DEFINE big == ticket[p].oversized \/ Oversized(p)
             t == [ticket[p] EXCEPT !.at = "granted", !.reserved = ticket[p].wanted,
                                    !.oversized = big]
  <1>2. ticket' = [ticket EXCEPT ![p] = t]
    BY <1>1 DEF Grow
  <1>3. big \in BOOLEAN
    OBVIOUS
  <1> HIDE DEF big
  <1>4. /\ t \in Ticket /\ t.at = "granted" /\ t.what = ticket[p].what
        /\ ~t.transferred
    BY <1>1, <1>3 DEF Ticket, TicketPlaces, Filing
  <1> HIDE DEF t
  <1>5. ticket' \in [Producers -> Ticket] /\ ticket'[p] = t
    BY <1>1, <1>2, <1>4
  <1>6. /\ "activeProducers" \in DOMAIN counters'
        /\ counters'.activeProducers = counters.activeProducers
    BY <1>1 DEF Grow
  <1>7. Tallied(p)
    BY <1>1, <1>4, <1>5, <1>6 DEF Tallied, Counted
  <1> QED  BY <1>1, <1>2, <1>4, <1>5, <1>7 DEF TicketStep

LEMMA GrowKeeps ==
    ASSUME AuditInv, NEW p \in Producers, ExpandNow(p) \/ AcquireInTurn(p),
           UNCHANGED auditedVars
    PROVE  AuditInv'
  <1>1. /\ ticket[p].at \in Filing
        /\ UNCHANGED <<queue, batch, worker, closing, ledger>>
    BY DEF ExpandNow, AcquireInTurn, Filing
  <1>2. PICK extra : Grow(p, extra)
    BY DEF ExpandNow, AcquireInTurn
  <1>3. /\ TicketStep(p) /\ ticket'[p].at = "granted" /\ ~ticket'[p].transferred
        /\ ticket'[p].what = ticket[p].what
    BY <1>1, <1>2, Growing
  <1> QED  BY <1>1, <1>3, FilingIsRecording, TicketMoves DEF Filing

LEMMA LineUpKeeps ==
    ASSUME AuditInv, NEW p \in Producers, LineUp(p), UNCHANGED auditedVars
    PROVE  AuditInv'
  <1>1. ticket[p].at \in Filing
    BY DEF LineUp, Filing
  <1>2. /\ RecordingNow(p) /\ ~ticket[p].transferred /\ ticket \in [Producers -> Ticket]
        /\ "activeProducers" \in DOMAIN counters /\ ticket[p] \in Ticket /\ Counted(p)
    BY <1>1, FilingIsRecording
  <1> DEFINE t == [ticket[p] EXCEPT !.at = "waiting", !.reserved = 0]
  <1>3. ticket' = [ticket EXCEPT ![p] = t]
    BY <1>2 DEF LineUp
  <1>4. /\ t \in Ticket /\ t.at = "waiting" /\ t.what = ticket[p].what
        /\ ~t.transferred
    BY <1>2 DEF Ticket, TicketPlaces, Filing
  <1> HIDE DEF t
  <1>5. ticket' \in [Producers -> Ticket] /\ ticket'[p] = t
    BY <1>2, <1>3, <1>4
  <1>6. /\ "activeProducers" \in DOMAIN counters'
        /\ counters'.activeProducers = counters.activeProducers
    BY <1>2 DEF LineUp
  <1>7. TicketStep(p)
    BY <1>2, <1>3, <1>4, <1>5, <1>6 DEF TicketStep, Tallied, Counted, LineUp
  <1> QED  BY <1>1, <1>2, <1>4, <1>5, <1>7, TicketMoves DEF Filing

(* Leaving empty-handed.                                                   *)
LEMMA LeavingTicket ==
    ASSUME AuditInv, NEW p \in Producers, NEW answer \in Answers, Leave(p, answer),
           ticket[p].at \in Filing \cup {"queued"},
           counters' = counters
    PROVE  /\ ticket' \in [Producers -> Ticket]
           /\ \A q \in Producers \ {p} : ticket'[q] = ticket[q]
           /\ Tallied(p) /\ ticket'[p].at = "leaving"
           /\ ticket'[p].transferred <=> ticket[p].transferred
           /\ ticket'[p].what = ticket[p].what /\ ticket'[p].answer = answer
  <1>1. /\ ticket \in [Producers -> Ticket] /\ ticket[p] \in Ticket
        /\ "activeProducers" \in DOMAIN counters
    BY FilingIsRecording
  <1> DEFINE t == [ticket[p] EXCEPT !.at = "leaving", !.answer = answer]
  <1>2. ticket' = [ticket EXCEPT ![p] = t]
    BY <1>1 DEF Leave
  <1>3. /\ t \in Ticket /\ t.at = "leaving" /\ t.what = ticket[p].what
        /\ t.answer = answer
    BY <1>1 DEF Ticket, TicketPlaces
  <1>4. t.transferred = ticket[p].transferred
    BY <1>1 DEF Ticket
  <1> HIDE DEF t
  <1>5. ticket' \in [Producers -> Ticket] /\ ticket'[p] = t
    BY <1>1, <1>2, <1>3
  <1>6. Tallied(p)
    BY <1>1, <1>3, <1>4, <1>5 DEF Tallied, Counted, Filing
  <1> QED  BY <1>1, <1>2, <1>3, <1>4, <1>5, <1>6

LEMMA GiveUpKeeps ==
    ASSUME AuditInv, NEW p \in Producers, GiveUp(p) \/ FailDirect(p),
           UNCHANGED auditedVars
    PROVE  AuditInv'
  <1>1. /\ ticket[p].at \in Filing /\ Leave(p, "refused")
        /\ UNCHANGED <<queue, batch, counters, worker, closing, ledger>>
    BY DEF GiveUp, FailDirect, Filing
  <1>2. /\ TicketStep(p) /\ ticket'[p].at = "leaving"
        /\ ticket'[p].transferred <=> ticket[p].transferred
        /\ ticket'[p].what = ticket[p].what /\ ticket'[p].answer = "refused"
    BY <1>1, LeavingTicket DEF TicketStep, Answers
  <1>3. RecordingNow(p) /\ ~ticket[p].transferred
    BY <1>1, FilingIsRecording
  <1> QED  BY <1>1, <1>2, <1>3, TicketMoves

LEMMA GoDirectKeeps ==
    ASSUME AuditInv, NEW p \in Producers, GoDirect(p), UNCHANGED auditedVars
    PROVE  AuditInv'
  <1>1. ticket[p].at \in Filing
    BY DEF GoDirect, Filing
  <1>2. /\ RecordingNow(p) /\ ~ticket[p].transferred /\ ticket \in [Producers -> Ticket]
        /\ "activeProducers" \in DOMAIN counters /\ ticket[p] \in Ticket /\ Counted(p)
    BY <1>1, FilingIsRecording
  <1> DEFINE t == [ticket[p] EXCEPT !.at = "direct", !.reserved = RowSize(p)]
  <1>3. ticket' = [ticket EXCEPT ![p] = t]
    BY <1>2 DEF GoDirect
  <1>4. RowSize(p) \in Nat
    BY <1>2 DEF RowSize, Ticket, Payload
  <1>5. /\ t \in Ticket /\ t.at = "direct" /\ t.what = ticket[p].what
        /\ ~t.transferred
    BY <1>2, <1>4 DEF Ticket, TicketPlaces, Filing
  <1> HIDE DEF t
  <1>6. ticket' \in [Producers -> Ticket] /\ ticket'[p] = t
    BY <1>2, <1>3, <1>5
  <1>7. /\ "activeProducers" \in DOMAIN counters'
        /\ counters'.activeProducers = counters.activeProducers
    BY <1>2 DEF GoDirect
  <1>8. TicketStep(p)
    BY <1>2, <1>3, <1>5, <1>6, <1>7 DEF TicketStep, Tallied, Counted, GoDirect
  <1> QED  BY <1>1, <1>2, <1>5, <1>6, <1>8, TicketMoves DEF Filing

(* Giving up the wait for the future, and the end of a recording.          *)
LEMMA AwayKeeps ==
    ASSUME AuditInv, NEW p \in Producers, Despair(p) \/ Release(p),
           UNCHANGED auditedVars
    PROVE  AuditInv'
  <1>1. /\ ticket[p].at \in {"queued", "leaving"}
        /\ call' = call /\ commits' = commits
        /\ TicketSound(p) /\ FrameSound(p) /\ LedgerSound(p)
    BY DEF AuditInv, auditedVars, Despair, Release
  <1>2. RecordingNow(p)
    BY <1>1, FilingIsRecording
  <1>3. /\ TicketStep(p)
        /\ \/ /\ ticket[p].at = "queued" /\ ticket'[p].at = "leaving"
              /\ ticket'[p].answer = "uncertain" /\ ticket'[p].what = ticket[p].what
           \/ /\ ticket[p].at = "leaving" /\ ticket'[p].at = "none"
              /\ ticket'[p].answer = ticket[p].answer /\ ~ticket'[p].transferred
    <2>1. CASE Despair(p)
      BY <2>1, LeavingTicket DEF Despair, TicketStep, Answers
    <2>2. CASE Release(p)
      BY <2>2, GivingBack DEF Release
    <2> QED  BY <2>1, <2>2
  <1>4. StepOf(p) /\ Keeps(p)
    BY <1>1, <1>2, <1>3
       DEF TicketStep, AuditInv, Shape, StepOf, Keeps, RecordingNow, Outcome, At
  <1>5. \A w \in Outcomes : Pending(p, w)' <=> Pending(p, w)
    BY <1>3 DEF TicketStep, Pending, Queued, Taken
  <1>6. TicketSound(p)'
    BY <1>1, <1>2, <1>3 DEF TicketSound, At, RecordingNow, Outcome, Filing
  <1>7. FrameSound(p)'
    BY <1>1 DEF FrameSound, At, IsMutation
  <1>8. LedgerSound(p)'
    <2>1. Outcome(p) \in Outcomes /\ Outcome(p)' = Outcome(p)
      BY <1>1 DEF Outcome, Outcomes, At
    <2> QED
      BY <1>1, <1>2, <1>3, <1>5, <2>1
         DEF LedgerSound, TicketStep, At, RecordingNow, Filing
  <1> QED  BY <1>1, <1>3, <1>4, <1>6, <1>7, <1>8, QuietStep DEF TicketStep

-----------------------------------------------------------------------------
(* The steps that move rows.                                               *)

LEMMA RowsAreRows ==
    ASSUME AuditInv
    PROVE  /\ \A i \in DOMAIN queue : queue[i].by \in Producers /\ queue[i].what \in Outcomes
           /\ \A i \in DOMAIN batch : batch[i].by \in Producers /\ batch[i].what \in Outcomes
  <1>1. queue \in Seq(Row) /\ batch \in Seq(Row)
    BY DEF AuditInv, Shape
  <1>2. \A i \in DOMAIN queue : queue[i] \in Row
    BY <1>1
  <1>3. \A i \in DOMAIN batch : batch[i] \in Row
    BY <1>1
  <1>4. \A row \in Row : row.by \in Producers /\ row.what \in Outcomes
    BY DEF Row
  <1> QED  BY <1>2, <1>3, <1>4

(* A row is written without the worker.                                    *)
LEMMA PersistKeeps ==
    ASSUME AuditInv, NEW p \in Producers, PersistDirect(p), UNCHANGED auditedVars
    PROVE  AuditInv'
  <1> DEFINE what == Outcome(p)
  <1>1. /\ ticket[p].at = "direct" /\ Leave(p, "recorded")
        /\ UNCHANGED <<queue, batch, counters, worker, closing, call, commits>>
        /\ TicketSound(p) /\ FrameSound(p) /\ LedgerSound(p)
    BY DEF PersistDirect, AuditInv, auditedVars
  <1>2. /\ RecordingNow(p) /\ ~ticket[p].transferred /\ what \in Outcomes
        /\ ticket[p].what = what
    BY <1>1, FilingIsRecording DEF Filing
  <1>3. /\ ticket' \in [Producers -> Ticket]
        /\ \A q \in Producers \ {p} : ticket'[q] = ticket[q]
        /\ Tallied(p) /\ ticket'[p].at = "leaving" /\ ~ticket'[p].transferred
        /\ ticket'[p].what = what /\ ticket'[p].answer = "recorded"
    BY <1>1, <1>2, LeavingTicket DEF Filing, Answers
  <1>4. /\ ledger' \in [Producers -> [Outcomes -> 0 .. 1]]
        /\ ledger'[p][what] = 1
        /\ \A w \in Outcomes \ {what} : ledger'[p][w] = ledger[p][w]
        /\ \A q \in Producers \ {p} : ledger'[q] = ledger[q]
    <2>1. ledger \in [Producers -> [Outcomes -> 0 .. 1]]
      BY DEF AuditInv, Shape
    <2>2. ledger[p][what] = 0
      BY <1>1, <1>2 DEF LedgerSound, Filing
    <2>3. ledger' = [ledger EXCEPT ![p][what] = @ + 1]
      BY <1>2 DEF PersistDirect
    <2> HIDE DEF what
    <2> QED  BY <1>2, <2>1, <2>2, <2>3
  <1>5. \A q \in Producers, w \in Outcomes :
           /\ Pending(q, w)' <=> Pending(q, w)
           /\ Queued(q, w)' <=> Queued(q, w)
           /\ Taken(q, w)' <=> Taken(q, w)
    BY <1>1 DEF Pending, Queued, Taken
  <1>6. \A w \in Outcomes : ~Pending(p, w) /\ ~Queued(p, w) /\ ~Taken(p, w)
    BY <1>1, NoRowYet
  <1>7. TicketSound(p)'
    BY <1>1, <1>2, <1>3 DEF TicketSound, At, RecordingNow, Outcome, Filing
  <1>8. FrameSound(p)'
    BY <1>1 DEF FrameSound, At, IsMutation
  <1>9. LedgerSound(p)'
    <2>1. Outcome(p)' = what /\ RecordingNow(p)'
      BY <1>1, <1>2 DEF Outcome, RecordingNow, At
    <2>2. At(p, "recording failure") => what = "failed"
      BY DEF Outcome
    <2>3. At(p, "recording result") => what = "accepted"
      BY DEF Outcome, At
    <2> HIDE DEF what
    <2> QED
      BY <1>1, <1>2, <1>3, <1>4, <1>5, <1>6, <2>1, <2>2, <2>3
         DEF LedgerSound, At, RecordingNow, Filing, Outcomes
  <1>10. ASSUME NEW q \in Producers
         PROVE  TicketSound(q)' /\ FrameSound(q)' /\ LedgerSound(q)'
    <2>1. CASE q = p
      BY <1>7, <1>8, <1>9, <2>1
    <2>2. CASE q # p
      BY <1>1, <1>3, <1>4, <1>5, <2>2, OthersStay DEF AuditInv
    <2> QED  BY <2>1, <2>2
  <1>11. Shape'
    BY <1>1, <1>3, <1>4 DEF AuditInv, Shape, Tallied
  <1>12. RowsSound'
    <2>1. ASSUME NEW q \in Producers, NEW w \in Outcomes,
                 Queued(q, w)' \/ Taken(q, w)'
          PROVE  /\ ticket'[q].at \in {"queued", "leaving", "none"}
                 /\ (RecordingNow(q)' /\ w = Outcome(q)') \/ At(q, "done")'
      <3>1. /\ ticket[q].at \in {"queued", "leaving", "none"}
            /\ (RecordingNow(q) /\ w = Outcome(q)) \/ At(q, "done")
            /\ q # p
        BY <1>5, <1>6, <2>1 DEF RowsSound, AuditInv
      <3> QED  BY <1>1, <1>3, <3>1 DEF RecordingNow, Outcome, At
    <2> QED  BY <1>1, <2>1 DEF RowsSound, AuditInv
  <1>13. ShutdownSound'
    <2>1. StepOf(p)
      BY <1>1, <1>3 DEF StepOf, AuditInv, Shape
    <2> QED  BY <1>1, <1>3, <2>1, TallyCounts DEF AuditInv, ShutdownSound, ShuttingDown
  <1> QED  BY <1>10, <1>11, <1>12, <1>13 DEF AuditInv

(* A row is appended to the queue, with the ticket that it had.            *)
LEMMA EnqueueKeeps ==
    ASSUME AuditInv, NEW p \in Producers, Enqueue(p), UNCHANGED auditedVars
    PROVE  AuditInv'
  <1> DEFINE row == QueuedRow(p)
             t == [ticket[p] EXCEPT !.at = "queued", !.reserved = RowSize(p),
                                    !.transferred = TRUE]
  <1>1. /\ ticket[p].at = "granted" /\ ~ShuttingDown /\ queue' = Append(queue, row)
        /\ UNCHANGED <<batch, worker, closing, ledger, call, commits>>
        /\ TicketSound(p) /\ FrameSound(p) /\ LedgerSound(p)
    BY DEF Enqueue, CanQueue, AuditInv, auditedVars
  <1>2. /\ RecordingNow(p) /\ ~ticket[p].transferred /\ Outcome(p) \in Outcomes
        /\ ticket[p].what = Outcome(p) /\ ticket[p] \in Ticket
        /\ ticket \in [Producers -> Ticket]
        /\ "activeProducers" \in DOMAIN counters /\ Counted(p)
    BY <1>1, FilingIsRecording DEF Filing
  <1>3. RowSize(p) \in Nat
    BY <1>2 DEF RowSize, Ticket, Payload
  <1>4. row \in Row /\ row.by = p /\ row.what = Outcome(p)
    <2>1. ticket[p].oversized \in BOOLEAN
      BY <1>2 DEF Ticket
    <2> QED  BY <1>2, <1>3, <2>1 DEF QueuedRow, Row
  <1>5. ticket' = [ticket EXCEPT ![p] = t]
    BY <1>2 DEF Enqueue
  <1>6. /\ t \in Ticket /\ t.at = "queued" /\ t.what = ticket[p].what /\ t.transferred
    BY <1>2, <1>3 DEF Ticket, TicketPlaces
  <1> HIDE DEF row, t
  <1>7. /\ ticket' \in [Producers -> Ticket] /\ ticket'[p] = t
        /\ \A q \in Producers \ {p} : ticket'[q] = ticket[q]
    BY <1>2, <1>5, <1>6
  <1>8. /\ "activeProducers" \in DOMAIN counters'
        /\ counters'.activeProducers = AtLeastZero(counters.activeProducers - 1)
    BY <1>2 DEF Enqueue
  <1>9. Tallied(p)
    BY <1>2, <1>6, <1>7, <1>8 DEF Tallied, Counted
  <1>10. /\ queue \in Seq(Row) /\ queue' \in Seq(Row)
         /\ DOMAIN queue' = DOMAIN queue \cup {Len(queue) + 1}
         /\ Len(queue) + 1 \notin DOMAIN queue
         /\ \A i \in DOMAIN queue : queue'[i] = queue[i]
         /\ queue'[Len(queue) + 1] = row
    BY <1>1, <1>4 DEF AuditInv, Shape
  <1>11. \A w \in Outcomes : ~Pending(p, w) /\ ~Queued(p, w) /\ ~Taken(p, w)
    BY <1>1, NoRowYet
  <1>12. \A q \in Producers, w \in Outcomes :
           /\ Queued(q, w)' <=> Queued(q, w) \/ (q = p /\ w = Outcome(p))
           /\ Taken(q, w)' <=> Taken(q, w)
           /\ Pending(q, w)' <=> Pending(q, w) \/ (q = p /\ w = Outcome(p))
    BY <1>1, <1>4, <1>10 DEF Pending, Queued, Taken
  <1>13. TicketSound(p)'
    BY <1>1, <1>2, <1>6, <1>7 DEF TicketSound, At, RecordingNow, Outcome, Filing
  <1>14. FrameSound(p)'
    BY <1>1 DEF FrameSound, At, IsMutation
  <1>15. LedgerSound(p)'
    <2>1. Outcome(p)' = Outcome(p) /\ RecordingNow(p)'
      BY <1>1, <1>2 DEF Outcome, RecordingNow, At
    <2>2. ledger[p][Outcome(p)] = 0
      BY <1>1, <1>2 DEF LedgerSound, Filing
    <2> QED
      BY <1>1, <1>2, <1>6, <1>7, <1>11, <1>12, <2>1, <2>2
         DEF LedgerSound, At, RecordingNow, Filing
  <1>16. ASSUME NEW q \in Producers
         PROVE  TicketSound(q)' /\ FrameSound(q)' /\ LedgerSound(q)'
    <2>1. CASE q = p
      BY <1>13, <1>14, <1>15, <2>1
    <2>2. CASE q # p
      BY <1>1, <1>7, <1>12, <2>2, OthersStay DEF AuditInv
    <2> QED  BY <2>1, <2>2
  <1>17. Shape'
    BY <1>1, <1>7, <1>8, <1>10 DEF AuditInv, Shape
  <1>18. RowsSound'
    <2>1. ASSUME NEW q \in Producers, NEW w \in Outcomes,
                 Queued(q, w)' \/ Taken(q, w)'
          PROVE  /\ ticket'[q].at \in {"queued", "leaving", "none"}
                 /\ (RecordingNow(q)' /\ w = Outcome(q)') \/ At(q, "done")'
      <3>1. CASE q = p
        BY <1>1, <1>2, <1>6, <1>7, <1>11, <1>12, <2>1, <3>1
           DEF RecordingNow, Outcome, At
      <3>2. CASE q # p
        <4>1. /\ ticket[q].at \in {"queued", "leaving", "none"}
              /\ (RecordingNow(q) /\ w = Outcome(q)) \/ At(q, "done")
          BY <1>12, <2>1, <3>2 DEF RowsSound, AuditInv
        <4> QED  BY <1>1, <1>7, <3>2, <4>1 DEF RecordingNow, Outcome, At
      <3> QED  BY <3>1, <3>2
    <2>2. \A i \in DOMAIN queue : queue[i].by # p
      <3>1. \A i \in DOMAIN queue : queue[i].what \in Outcomes
        BY RowsAreRows
      <3> QED  BY <1>11, <3>1 DEF Queued
    <2>3. \A j \in DOMAIN batch : batch[j].by # p
      <3>1. \A j \in DOMAIN batch : batch[j].what \in Outcomes
        BY RowsAreRows
      <3> QED  BY <1>11, <3>1 DEF Taken
    <2>4. \A i, j \in DOMAIN queue' : queue'[i].by = queue'[j].by => i = j
      BY <1>4, <1>10, <2>2 DEF RowsSound, AuditInv
    <2>5. \A i \in DOMAIN queue' : \A j \in DOMAIN batch : queue'[i].by # batch[j].by
      BY <1>4, <1>10, <2>3 DEF RowsSound, AuditInv
    <2> QED  BY <1>1, <2>1, <2>4, <2>5 DEF RowsSound, AuditInv
  <1>19. ShutdownSound'
    <2>1. StepOf(p)
      BY <1>1, <1>7 DEF StepOf, AuditInv, Shape
    <2>2. worker.at # "stopped"
      BY <1>1 DEF AuditInv, ShutdownSound
    <2> QED
      BY <1>1, <1>9, <2>1, <2>2, TallyCounts DEF AuditInv, ShutdownSound, ShuttingDown
  <1> QED  BY <1>16, <1>17, <1>18, <1>19 DEF AuditInv

-----------------------------------------------------------------------------
(* The worker.                                                             *)

(* A step that leaves the tickets, the calls and their rows alone.         *)
LEMMA NothingMoves ==
    ASSUME AuditInv, UNCHANGED <<ticket, call, commits, ledger>>,
           \A q \in Producers, w \in Outcomes :
              /\ Pending(q, w)' <=> Pending(q, w)
              /\ Queued(q, w)' \/ Taken(q, w)' => Queued(q, w) \/ Taken(q, w)
    PROVE  /\ \A q \in Producers : TicketSound(q)' /\ FrameSound(q)' /\ LedgerSound(q)'
           /\ \A q \in Producers, w \in Outcomes :
                Queued(q, w)' \/ Taken(q, w)' =>
                   /\ ticket'[q].at \in {"queued", "leaving", "none"}
                   /\ (RecordingNow(q)' /\ w = Outcome(q)') \/ At(q, "done")'
           /\ Holders' = Holders
  <1>1. ASSUME NEW q \in Producers
        PROVE  TicketSound(q)' /\ FrameSound(q)' /\ LedgerSound(q)'
    BY OthersStay DEF AuditInv
  <1>2. ASSUME NEW q \in Producers, NEW w \in Outcomes, Queued(q, w)' \/ Taken(q, w)'
        PROVE  /\ ticket'[q].at \in {"queued", "leaving", "none"}
               /\ (RecordingNow(q)' /\ w = Outcome(q)') \/ At(q, "done")'
    <2>1. /\ ticket[q].at \in {"queued", "leaving", "none"}
          /\ (RecordingNow(q) /\ w = Outcome(q)) \/ At(q, "done")
      BY <1>2 DEF AuditInv, RowsSound
    <2> QED  BY <2>1 DEF RecordingNow, Outcome, At
  <1>3. Holders' = Holders
    BY DEF Holders, Counted
  <1> QED  BY <1>1, <1>2, <1>3

(* The worker is declared healthy, or the service begins or ends to close. *)
LEMMA HealthKeeps ==
    ASSUME AuditInv, UNCHANGED auditedVars,
           (\E p \in Producers : Probe(p)) \/ BeginClose \/ EndClose \/ StopWorker
    PROVE  AuditInv'
  <1>1. /\ UNCHANGED <<ticket, call, commits, ledger, queue, batch, counters>>
        /\ worker'.at = "committing" <=> worker.at = "committing"
        /\ worker' \in [at : {"waiting", "committing", "settling", "stopped"},
                        healthy : BOOLEAN, error : Failures \cup {"none"}]
    BY DEF AuditInv, Shape, auditedVars, Probe, BeginClose, EndClose, StopWorker
  <1>2. \A q \in Producers, w \in Outcomes :
              /\ Pending(q, w)' <=> Pending(q, w)
              /\ Queued(q, w)' \/ Taken(q, w)' => Queued(q, w) \/ Taken(q, w)
    BY <1>1 DEF Pending, Queued, Taken
  <1>3. Shape'
    BY <1>1 DEF AuditInv, Shape
  <1>4. RowsSound'
    <2>1. worker'.at \in {"waiting", "stopped"} => batch = <<>>
      BY DEF AuditInv, Shape, RowsSound, Probe, BeginClose, EndClose, StopWorker
    <2> QED  BY <1>1, <1>2, <2>1, NothingMoves DEF AuditInv, RowsSound
  <1>5. ShutdownSound'
    <2>1. Holders' = Holders /\ IsFiniteSet(Holders)
      BY <1>1, LedgerAssumption, FS_Subset DEF Holders, Counted
    <2>2. CASE \E p \in Producers : Probe(p)
      BY <1>1, <2>1, <2>2 DEF AuditInv, Shape, ShutdownSound, ShuttingDown, Probe
    <2>3. CASE BeginClose \/ EndClose
      BY <1>1, <2>1, <2>3 DEF AuditInv, ShutdownSound, ShuttingDown, BeginClose, EndClose
    <2>4. CASE StopWorker
      <3>1. Holders = {}
        BY <2>1, <2>4, FS_EmptySet DEF AuditInv, ShutdownSound, StopWorker
      <3> QED
        BY <1>1, <2>1, <2>4, <3>1 DEF AuditInv, Shape, ShutdownSound, ShuttingDown, StopWorker
    <2> QED  BY <2>2, <2>3, <2>4
  <1> QED  BY <1>1, <1>2, <1>3, <1>4, <1>5, NothingMoves DEF AuditInv

LEMMA SmallerOfTwo ==
    ASSUME NEW a \in Nat, NEW b \in Nat
    PROVE  Min({a, b}) \in Nat /\ Min({a, b}) <= a /\ Min({a, b}) <= b
  <1>1. \E x \in {a, b} : \A y \in {a, b} : x <= y
    OBVIOUS
  <1> QED  BY <1>1 DEF Min

(* Splitting the queue moves every row to one side.                        *)
LEMMA Split ==
    ASSUME NEW S, NEW s \in Seq(S), NEW n \in 0 .. Len(s)
    PROVE  /\ SubSeq(s, 1, n) \in Seq(S) /\ DOMAIN SubSeq(s, 1, n) = 1 .. n
           /\ \A i \in 1 .. n : SubSeq(s, 1, n)[i] = s[i]
           /\ SubSeq(s, n + 1, Len(s)) \in Seq(S)
           /\ DOMAIN SubSeq(s, n + 1, Len(s)) = 1 .. Len(s) - n
           /\ \A i \in 1 .. Len(s) - n : SubSeq(s, n + 1, Len(s))[i] = s[i + n]
  OBVIOUS

LEMMA TakeBatchKeeps ==
    ASSUME AuditInv, UNCHANGED auditedVars, TakeBatch
    PROVE  AuditInv'
  <1> DEFINE n == Min({Len(queue), MaxBatch})
  <1>1. /\ queue \in Seq(Row) /\ Len(queue) \in Nat /\ DOMAIN queue = 1 .. Len(queue)
        /\ UNCHANGED <<ticket, call, commits, ledger, closing>>
        /\ worker.at = "waiting" /\ worker' = [worker EXCEPT !.at = "committing"]
        /\ batch = <<>>
    BY DEF AuditInv, Shape, RowsSound, TakeBatch, auditedVars
  <1>2. n \in 0 .. Len(queue)
    BY <1>1, SmallerOfTwo, LedgerAssumption
  <1>3. batch' = SubSeq(queue, 1, n) /\ queue' = SubSeq(queue, n + 1, Len(queue))
    BY DEF TakeBatch
  <1> HIDE DEF n
  <1>4. /\ batch' \in Seq(Row) /\ DOMAIN batch' = 1 .. n
        /\ \A i \in 1 .. n : batch'[i] = queue[i]
        /\ queue' \in Seq(Row) /\ DOMAIN queue' = 1 .. Len(queue) - n
        /\ \A i \in 1 .. Len(queue) - n : queue'[i] = queue[i + n]
    BY <1>1, <1>2, <1>3, Split
  <1>5. \A q \in Producers, w \in Outcomes :
           Queued(q, w)' \/ Taken(q, w)' <=> Queued(q, w)
    <2>1. ASSUME NEW q \in Producers, NEW w \in Outcomes, Queued(q, w)
          PROVE  Queued(q, w)' \/ Taken(q, w)'
      <3>1. PICK i \in 1 .. Len(queue) : queue[i].by = q /\ queue[i].what = w
        BY <1>1, <2>1 DEF Queued
      <3>2. CASE i <= n
        BY <1>2, <1>4, <3>1, <3>2 DEF Taken
      <3>3. CASE i > n
        <4>1. i - n \in DOMAIN queue' /\ queue'[i - n] = queue[i]
          BY <1>1, <1>2, <1>4, <3>1, <3>3
        <4> QED  BY <3>1, <4>1 DEF Queued
      <3> QED  BY <1>2, <3>2, <3>3
    <2>2. ASSUME NEW q \in Producers, NEW w \in Outcomes, Queued(q, w)'
          PROVE  Queued(q, w)
      <3>1. PICK i \in DOMAIN queue' : queue'[i].by = q /\ queue'[i].what = w
        BY <2>2 DEF Queued
      <3>2. i + n \in DOMAIN queue /\ queue'[i] = queue[i + n]
        BY <1>1, <1>2, <1>4
      <3> QED  BY <3>1, <3>2 DEF Queued
    <2>3. ASSUME NEW q \in Producers, NEW w \in Outcomes, Taken(q, w)'
          PROVE  Queued(q, w)
      <3>1. PICK i \in DOMAIN batch' : batch'[i].by = q /\ batch'[i].what = w
        BY <2>3 DEF Taken
      <3>2. i \in DOMAIN queue /\ batch'[i] = queue[i]
        BY <1>1, <1>2, <1>4
      <3> QED  BY <3>1, <3>2 DEF Queued
    <2> QED  BY <2>1, <2>2, <2>3
  <1>6. worker'.at = "committing"
    BY <1>1 DEF AuditInv, Shape
  <1>7. \A q \in Producers, w \in Outcomes :
              /\ Pending(q, w)' <=> Pending(q, w)
              /\ Queued(q, w)' \/ Taken(q, w)' => Queued(q, w) \/ Taken(q, w)
    BY <1>1, <1>5, <1>6 DEF Pending
  <1>8. "activeProducers" \in DOMAIN counters'
        /\ counters'.activeProducers = counters.activeProducers
    BY DEF TakeBatch, AuditInv, Shape
  <1>9. Shape'
    BY <1>1, <1>4, <1>8 DEF AuditInv, Shape
  <1>10. RowsSound'
    <2>1. \A i, j \in 1 .. Len(queue) : queue[i].by = queue[j].by => i = j
      BY <1>1 DEF AuditInv, RowsSound
    <2>2. \A i, j \in DOMAIN batch' : batch'[i].by = batch'[j].by => i = j
      BY <1>2, <1>4, <2>1
    <2>3. \A i \in DOMAIN queue' : i + n \in 1 .. Len(queue) /\ queue'[i] = queue[i + n]
      BY <1>1, <1>2, <1>4
    <2>4. ASSUME NEW i \in DOMAIN queue', NEW j \in DOMAIN queue',
                 queue'[i].by = queue'[j].by
          PROVE  i = j
      <3>1. PICK k \in 1 .. Len(queue) : k = i + n /\ queue'[i] = queue[k]
        BY <2>3
      <3>2. PICK l \in 1 .. Len(queue) : l = j + n /\ queue'[j] = queue[l]
        BY <2>3
      <3>3. k = l
        BY <2>1, <2>4, <3>1, <3>2
      <3>4. i \in Nat /\ j \in Nat /\ n \in Nat
        BY <1>2, <1>4
      <3> QED
        BY <3>1, <3>2, <3>3, <3>4
    <2>5. ASSUME NEW i \in DOMAIN queue', NEW j \in DOMAIN batch',
                 queue'[i].by = batch'[j].by
          PROVE  FALSE
      <3>1. j \in 1 .. Len(queue) /\ batch'[j] = queue[j] /\ j <= n /\ i >= 1
        BY <1>1, <1>2, <1>4
      <3>2. i + n = j
        BY <2>1, <2>3, <2>5, <3>1
      <3> QED  BY <1>2, <1>4, <3>1, <3>2
    <2> QED  BY <1>1, <1>6, <1>7, <2>2, <2>4, <2>5, NothingMoves DEF RowsSound
  <1>11. ShutdownSound'
    BY <1>1, <1>6, <1>7, <1>8, NothingMoves DEF AuditInv, ShutdownSound
  <1> QED  BY <1>1, <1>7, <1>9, <1>10, <1>11, NothingMoves DEF AuditInv

LEMMA SettleBatchKeeps ==
    ASSUME AuditInv, UNCHANGED auditedVars, SettleBatch
    PROVE  AuditInv'
  <1>1. /\ UNCHANGED <<ticket, call, commits, ledger, closing, queue>>
        /\ worker.at = "settling" /\ worker' = [worker EXCEPT !.at = "waiting"]
        /\ batch' = <<>>
    BY DEF SettleBatch, auditedVars
  <1>2. worker'.at = "waiting"
    BY <1>1 DEF AuditInv, Shape
  <1>3. \A q \in Producers, w \in Outcomes :
              /\ Pending(q, w)' <=> Pending(q, w)
              /\ Queued(q, w)' \/ Taken(q, w)' => Queued(q, w) \/ Taken(q, w)
    BY <1>1, <1>2 DEF Pending, Queued, Taken
  <1>4. "activeProducers" \in DOMAIN counters'
        /\ counters'.activeProducers = counters.activeProducers
    BY DEF SettleBatch, AuditInv, Shape
  <1>5. Shape'
    <2>1. batch' \in Seq(Row)
      BY <1>1
    <2>2. worker' \in [at : {"waiting", "committing", "settling", "stopped"},
                      healthy : BOOLEAN, error : Failures \cup {"none"}]
      BY <1>1 DEF AuditInv, Shape
    <2> QED  BY <1>1, <1>4, <2>1, <2>2 DEF AuditInv, Shape
  <1>6. RowsSound'
    BY <1>1, <1>3, NothingMoves DEF AuditInv, RowsSound
  <1>7. ShutdownSound'
    BY <1>1, <1>2, <1>3, <1>4, NothingMoves DEF AuditInv, ShutdownSound
  <1> QED  BY <1>1, <1>3, <1>5, <1>6, <1>7, NothingMoves DEF AuditInv

(* Whoever waits for the future of a row of the batch has its answer.      *)
LEMMA Resolving ==
    ASSUME AuditInv, NEW answer \in Answers, Resolve(answer)
    PROVE  /\ ticket' \in [Producers -> Ticket]
           /\ \A q \in Producers :
                /\ ticket'[q].transferred <=> ticket[q].transferred
                /\ ticket'[q].what = ticket[q].what
                /\ (\A w \in Outcomes : ~Taken(q, w)) => ticket'[q] = ticket[q]
                /\ ticket[q].at # "queued" => ticket'[q] = ticket[q]
                /\ ticket[q].at = "queued" /\ (\E w \in Outcomes : Taken(q, w))
                     => ticket'[q].at = "leaving" /\ ticket'[q].answer = answer
           /\ Holders' = Holders
  <1> DEFINE t(q) == [ticket[q] EXCEPT !.at = "leaving", !.answer = answer]
             Mine(q) == \E i \in DOMAIN batch : batch[i].by = q
  <1>1. ticket \in [Producers -> Ticket]
    BY DEF AuditInv, Shape
  <1>2. \A q \in Producers : Mine(q) <=> \E w \in Outcomes : Taken(q, w)
    BY RowsAreRows DEF Taken
  <1>3. ticket' = [q \in Producers |-> IF ticket[q].at = "queued" /\ Mine(q)
                                       THEN t(q) ELSE ticket[q]]
    BY DEF Resolve
  <1>4. ASSUME NEW q \in Producers
        PROVE  /\ t(q) \in Ticket /\ t(q).at = "leaving" /\ t(q).answer = answer
               /\ t(q).what = ticket[q].what
               /\ t(q).transferred <=> ticket[q].transferred
    <2>1. ticket[q] \in Ticket
      BY <1>1
    <2>2. t(q) \in Ticket /\ t(q).at = "leaving"
      BY <2>1 DEF Ticket, TicketPlaces
    <2>3. t(q).answer = answer /\ t(q).what = ticket[q].what
      BY <2>1 DEF Ticket
    <2>4. t(q).transferred <=> ticket[q].transferred
      BY <2>1 DEF Ticket
    <2> QED  BY <2>2, <2>3, <2>4
  <1> HIDE DEF t, Mine
  <1>5. ticket' \in [Producers -> Ticket]
    BY <1>1, <1>3, <1>4
  <1>6. ASSUME NEW q \in Producers
        PROVE  /\ ticket'[q].transferred <=> ticket[q].transferred
               /\ ticket'[q].what = ticket[q].what
               /\ (\A w \in Outcomes : ~Taken(q, w)) => ticket'[q] = ticket[q]
               /\ ticket[q].at # "queued" => ticket'[q] = ticket[q]
               /\ ticket[q].at = "queued" /\ (\E w \in Outcomes : Taken(q, w))
                    => ticket'[q].at = "leaving" /\ ticket'[q].answer = answer
    BY <1>2, <1>3, <1>4
  <1>7. Holders' = Holders
    <2>1. \A q \in Producers : ticket[q].at = "queued" =>
             ticket[q].transferred /\ ticket'[q].transferred
      BY <1>6 DEF AuditInv, TicketSound
    <2>2. \A q \in Producers : Counted(q)' <=> Counted(q)
      BY <1>6, <2>1 DEF Counted
    <2> QED  BY <2>2 DEF Holders
  <1> QED  BY <1>5, <1>6, <1>7

(* A thread has at most one row in the batch, and then none in the queue.  *)
LEMMA OneRowTaken ==
    ASSUME AuditInv, NEW q \in Producers, NEW w \in Outcomes, Taken(q, w)
    PROVE  /\ \A v \in Outcomes : ~Queued(q, v)
           /\ \A v \in Outcomes \ {w} : ~Taken(q, v)
           /\ ticket[q].at \in {"queued", "leaving", "none"}
           /\ (RecordingNow(q) /\ w = Outcome(q)) \/ At(q, "done")
           /\ Cardinality(RowsOf(q, w)) = 1
  <1>1. PICK i \in DOMAIN batch : batch[i].by = q /\ batch[i].what = w
    BY DEF Taken
  <1>2. RowsOf(q, w) = {i}
    BY <1>1 DEF RowsOf, AuditInv, RowsSound
  <1>3. Cardinality(RowsOf(q, w)) = 1
    BY <1>2, FS_Singleton
  <1>4. \A v \in Outcomes \ {w} : ~Taken(q, v)
    BY <1>1 DEF Taken, AuditInv, RowsSound
  <1>5. \A v \in Outcomes : ~Queued(q, v)
    BY <1>1 DEF Queued, AuditInv, RowsSound
  <1> QED  BY <1>3, <1>4, <1>5 DEF AuditInv, RowsSound

LEMMA NoRowTaken ==
    ASSUME NEW q, NEW w, ~Taken(q, w)
    PROVE  Cardinality(RowsOf(q, w)) = 0
  <1>1. RowsOf(q, w) = {}
    BY DEF RowsOf, Taken
  <1> QED  BY <1>1, FS_EmptySet

(* What both ends of a batch have in common.                               *)
LEMMA BatchEnds ==
    ASSUME AuditInv, UNCHANGED auditedVars,
           NEW answer \in {"recorded", "refused"}, Resolve(answer),
           worker.at = "committing", UNCHANGED <<queue, batch, counters, closing>>,
           worker' \in [at : {"settling"}, healthy : BOOLEAN, error : Failures \cup {"none"}],
           ledger' \in [Producers -> [Outcomes -> 0 .. 1]],
           \A q \in Producers, w \in Outcomes :
              ledger'[q][w] = IF answer = "recorded" /\ Taken(q, w) THEN 1 ELSE ledger[q][w]
    PROVE  AuditInv'
  <1>1. /\ call' = call /\ commits' = commits /\ worker'.at = "settling"
        /\ ticket' \in [Producers -> Ticket] /\ Holders' = Holders
        /\ ledger \in [Producers -> [Outcomes -> 0 .. 1]]
    BY Resolving DEF auditedVars, Answers, AuditInv, Shape
  <1>2. \A q \in Producers :
                /\ ticket'[q].transferred <=> ticket[q].transferred
                /\ ticket'[q].what = ticket[q].what
                /\ (\A w \in Outcomes : ~Taken(q, w)) => ticket'[q] = ticket[q]
                /\ ticket[q].at # "queued" => ticket'[q] = ticket[q]
                /\ ticket[q].at = "queued" /\ (\E w \in Outcomes : Taken(q, w))
                     => ticket'[q].at = "leaving" /\ ticket'[q].answer = answer
    BY Resolving DEF Answers
  <1>3. \A q \in Producers, w \in Outcomes :
           /\ Queued(q, w)' <=> Queued(q, w)
           /\ Taken(q, w)' <=> Taken(q, w)
           /\ Pending(q, w)' <=> Queued(q, w)
           /\ Pending(q, w) <=> Queued(q, w) \/ Taken(q, w)
    BY <1>1 DEF Pending, Queued, Taken
  <1>4. ASSUME NEW q \in Producers
        PROVE  TicketSound(q)' /\ FrameSound(q)' /\ LedgerSound(q)'
    <2>1. CASE \A w \in Outcomes : ~Taken(q, w)
      <3>1. ledger'[q] = ledger[q]
        BY <1>1, <2>1
      <3> QED  BY <1>1, <1>2, <1>3, <2>1, <3>1, OthersStay DEF AuditInv
    <2>2. ASSUME NEW w \in Outcomes, Taken(q, w)
          PROVE  TicketSound(q)' /\ FrameSound(q)' /\ LedgerSound(q)'
      <3>1. /\ \A v \in Outcomes : ~Queued(q, v)
            /\ \A v \in Outcomes \ {w} : ~Taken(q, v)
            /\ ticket[q].at \in {"queued", "leaving", "none"}
            /\ (RecordingNow(q) /\ w = Outcome(q)) \/ At(q, "done")
        BY <2>2, OneRowTaken
      <3>2. /\ ledger[q][w] = 0 /\ Pending(q, w)
            /\ ledger'[q][w] = IF answer = "recorded" THEN 1 ELSE 0
            /\ \A v \in Outcomes \ {w} : ledger'[q][v] = ledger[q][v]
            /\ \A v \in Outcomes : ~Pending(q, v)'
        BY <1>3, <2>2, <3>1 DEF AuditInv, LedgerSound
      <3>3. TicketSound(q) /\ FrameSound(q) /\ LedgerSound(q)
        BY DEF AuditInv
      <3>4. TicketSound(q)'
        BY <1>1, <1>2, <2>2, <3>1, <3>3 DEF TicketSound, At, RecordingNow, Outcome
      <3>5. FrameSound(q)'
        BY <1>1, <3>3 DEF FrameSound, At, IsMutation
      <3>6. CASE RecordingNow(q) /\ w = Outcome(q)
        <4>1. /\ ticket'[q].at \in {"leaving", "none"}
              /\ \/ ticket'[q].answer = answer
                 \/ ticket'[q].answer = "uncertain"
          <5>1. CASE ticket[q].at = "queued"
            BY <1>2, <2>2, <5>1
          <5>2. CASE ticket[q].at # "queued"
            <6>1. ticket[q].answer \in Answers
              BY DEF AuditInv, Shape, Ticket
            <6>2. ticket[q].at \in {"leaving", "none"} /\ ticket'[q] = ticket[q]
              BY <1>2, <3>1, <5>2
            <6>3. Pending(q, Outcome(q)) /\ ledger[q][Outcome(q)] = 0
              BY <3>2, <3>6
            <6>4. /\ ticket[q].answer # "none"
                  /\ ticket[q].answer = "refused" => ~Pending(q, Outcome(q))
                  /\ ticket[q].answer = "recorded" => ledger[q][Outcome(q)] = 1
              BY <3>3, <3>6, <6>2 DEF LedgerSound
            <6> QED  BY <6>1, <6>2, <6>3, <6>4 DEF Answers
          <5> QED  BY <5>1, <5>2
        <4>2. At(q, "recording failure") => w = "failed"
          BY <3>6 DEF Outcome
        <4>3. At(q, "recording result") => w = "accepted"
          BY <3>6 DEF Outcome, At
        <4>4. Outcome(q)' = w /\ RecordingNow(q)'
          BY <1>1, <3>6 DEF Outcome, RecordingNow, At
        <4>5. CASE At(q, "recording failure")
          <5>1. w = "failed" /\ ledger'[q]["accepted"] = ledger[q]["accepted"]
            BY <3>2, <4>2, <4>5 DEF Outcomes
          <5>2. ledger[q]["accepted"] = IF call[q].committed THEN 1 ELSE 0
            BY <3>3, <4>5 DEF LedgerSound, At
          <5>3. LedgerSound(q)'
            BY <1>1, <3>2, <4>1, <4>4, <4>5, <5>1, <5>2
               DEF LedgerSound, At, RecordingNow, Filing
          <5> QED  BY <3>4, <3>5, <5>3
        <4>6. CASE At(q, "recording result")
          <5>1. w = "accepted" /\ ledger'[q]["failed"] = ledger[q]["failed"]
            BY <3>2, <4>3, <4>6 DEF Outcomes
          <5>2. ledger[q]["failed"] = 0
            BY <3>3, <4>6 DEF LedgerSound, At
          <5>3. LedgerSound(q)'
            BY <1>1, <3>2, <4>1, <4>4, <4>6, <5>1, <5>2
               DEF LedgerSound, At, RecordingNow, Filing
          <5> QED  BY <3>4, <3>5, <5>3
        <4> QED  BY <3>6, <4>5, <4>6 DEF RecordingNow, At
      <3>7. CASE At(q, "done")
        <4>1. ticket[q].at = "none" /\ ticket'[q] = ticket[q]
          BY <1>2, <3>3, <3>7 DEF TicketSound, At
        <4>2. call'[q] = call[q] /\ commits'[q] = commits[q] /\ call[q].at = "done"
          BY <1>1, <3>7 DEF At
        <4>3. /\ \A v \in Outcomes : ledger[q][v] = 1 => ledger'[q][v] = 1
              /\ \A v \in Outcomes : ~Pending(q, v) => ledger'[q][v] = ledger[q][v]
          <5> HIDE DEF Pending, Outcomes
          <5> QED  BY <3>2
        <4>4. /\ At(q, "done") /\ At(q, "done")' /\ ~RecordingNow(q)'
              /\ IsMutation(q)' <=> IsMutation(q)
          BY <4>2 DEF At, RecordingNow, IsMutation
        <4>5. /\ call[q].result = "returned" /\ call[q].kind # "human read"
                   => ledger[q]["accepted"] = 1
              /\ call[q].result = "raised" /\ ticket[q].answer = "refused"
                   => ledger[q]["failed"] = 0 /\ ~Pending(q, "failed")
              /\ call[q].result = "raised" /\ ticket[q].answer = "recorded"
                   => ledger[q]["failed"] = 1
              /\ IsMutation(q) /\ commits[q] # <<>> => ledger[q]["accepted"] = 1
          BY <3>3, <4>4 DEF LedgerSound
        <4>6. LedgerSound(q)'
          <5>1. "accepted" \in Outcomes /\ "failed" \in Outcomes
            BY DEF Outcomes
          <5> HIDE DEF Pending, Outcomes
          <5> QED  BY <3>2, <4>1, <4>2, <4>3, <4>4, <4>5, <5>1 DEF LedgerSound
        <4> QED  BY <3>4, <3>5, <4>6
      <3> QED  BY <3>1, <3>6, <3>7
    <2> QED  BY <2>1, <2>2
  <1>5. Shape'
    BY <1>1 DEF AuditInv, Shape
  <1>6. RowsSound'
    <2>1. ASSUME NEW q \in Producers, NEW w \in Outcomes, Queued(q, w)' \/ Taken(q, w)'
          PROVE  /\ ticket'[q].at \in {"queued", "leaving", "none"}
                 /\ (RecordingNow(q)' /\ w = Outcome(q)') \/ At(q, "done")'
      <3>1. /\ ticket[q].at \in {"queued", "leaving", "none"}
            /\ (RecordingNow(q) /\ w = Outcome(q)) \/ At(q, "done")
        BY <1>3, <2>1 DEF AuditInv, RowsSound
      <3> QED  BY <1>1, <1>2, <3>1 DEF RecordingNow, Outcome, At
    <2> QED  BY <1>1, <2>1 DEF AuditInv, RowsSound
  <1>7. ShutdownSound'
    BY <1>1 DEF AuditInv, ShutdownSound
  <1> QED  BY <1>4, <1>5, <1>6, <1>7 DEF AuditInv

LEMMA CommitBatchKeeps ==
    ASSUME AuditInv, UNCHANGED auditedVars, CommitBatch
    PROVE  AuditInv'
  <1>1. ledger \in [Producers -> [Outcomes -> 0 .. 1]]
    BY DEF AuditInv, Shape
  <1>2. \A q \in Producers, w \in Outcomes :
           /\ ledger[q][w] \in 0 .. 1
           /\ ledger[q][w] + Cardinality(RowsOf(q, w)) =
                IF Taken(q, w) THEN 1 ELSE ledger[q][w]
    <2>1. ASSUME NEW q \in Producers, NEW w \in Outcomes
          PROVE  /\ ledger[q][w] \in 0 .. 1
                 /\ ledger[q][w] + Cardinality(RowsOf(q, w)) =
                      IF Taken(q, w) THEN 1 ELSE ledger[q][w]
      <3>1. ledger[q][w] \in 0 .. 1
        BY <1>1
      <3>2. CASE Taken(q, w)
        <4>1. ledger[q][w] = 0
          BY <3>2 DEF AuditInv, LedgerSound, Pending, CommitBatch
        <4> QED  BY <3>2, <4>1, OneRowTaken
      <3>3. CASE ~Taken(q, w)
        BY <3>1, <3>3, NoRowTaken
      <3> QED  BY <3>1, <3>2, <3>3
    <2> QED  BY <2>1
  <1>3. ledger' = [q \in Producers |-> [w \in Outcomes |->
                     IF Taken(q, w) THEN 1 ELSE ledger[q][w]]]
    BY <1>2 DEF CommitBatch
  <1>4. /\ ledger' \in [Producers -> [Outcomes -> 0 .. 1]]
        /\ \A q \in Producers, w \in Outcomes :
             ledger'[q][w] = IF Taken(q, w) THEN 1 ELSE ledger[q][w]
    BY <1>2, <1>3
  <1> QED  BY <1>4, BatchEnds DEF CommitBatch

LEMMA FailBatchKeeps ==
    ASSUME AuditInv, UNCHANGED auditedVars, NEW error \in Failures, FailBatch(error)
    PROVE  AuditInv'
  <1>1. ledger' \in [Producers -> [Outcomes -> 0 .. 1]] /\ ledger' = ledger
    BY DEF AuditInv, Shape, FailBatch
  <1> QED  BY <1>1, BatchEnds DEF FailBatch

-----------------------------------------------------------------------------
(* The theorems.                                                           *)

LEMMA InitSound ==
    ASSUME Init PROVE AuditInv
  <1> DEFINE c == Call("none", "idle")
  <1>1. /\ ticket = [p \in Producers |-> NoTicket]
        /\ call = [p \in Producers |-> c]
        /\ queue = <<>> /\ batch = <<>> /\ commits = [p \in Producers |-> <<>>]
        /\ ledger = [p \in Producers |-> [what \in Outcomes |-> 0]]
        /\ closing = "open"
        /\ worker = [at |-> "waiting", healthy |-> TRUE, error |-> "none"]
        /\ "activeProducers" \in DOMAIN counters /\ counters.activeProducers = 0
    BY DEF Init, LedgerInit
  <1>2. /\ c \in CallRecord /\ c.at = "idle" /\ ~c.inserted /\ ~c.committed
        /\ ~c.staged /\ ~c.spoiled
    <2>1. "idle" \in CallPlaces
      BY DEF CallPlaces
    <2>2. c \in CallRecord
      BY <2>1 DEF Call, CallRecord
    <2> QED  BY <2>2 DEF Call
  <1> HIDE DEF c
  <1>3. NoTicket.at = "none" /\ ~NoTicket.transferred
    BY DEF NoTicket
  <1>4. Shape
    <2>1. /\ ticket \in [Producers -> Ticket] /\ call \in [Producers -> CallRecord]
      BY <1>1, <1>2, NoTicketIsTicket
    <2>2. ledger \in [Producers -> [Outcomes -> 0 .. 1]]
      BY <1>1
    <2>3. commits \in [Producers -> Seq({FALSE})]
      BY <1>1
    <2> QED  BY <1>1, <2>1, <2>2, <2>3 DEF Shape
  <1>5. \A p \in Producers, what \in Outcomes :
           ~Queued(p, what) /\ ~Taken(p, what) /\ ~Pending(p, what)
    BY <1>1 DEF Queued, Taken, Pending
  <1>6. ASSUME NEW p \in Producers
        PROVE  TicketSound(p) /\ FrameSound(p) /\ LedgerSound(p)
    <2>1. ticket[p] = NoTicket /\ call[p] = c /\ commits[p] = <<>>
          /\ \A what \in Outcomes : ledger[p][what] = 0
      BY <1>1
    <2>2. TicketSound(p)
      BY <1>2, <1>3, <2>1 DEF TicketSound, At, RecordingNow
    <2>3. FrameSound(p)
      BY <1>2, <2>1 DEF FrameSound, At, IsMutation
    <2>4. LedgerSound(p)
      BY <1>2, <1>5, <2>1 DEF LedgerSound, At, RecordingNow, Outcomes
    <2> QED  BY <2>2, <2>3, <2>4
  <1>7. RowsSound
    BY <1>1, <1>5 DEF RowsSound
  <1>8. ShutdownSound
    <2>1. Holders = {}
      BY <1>1, <1>3 DEF Holders, Counted
    <2> QED  BY <1>1, <2>1, FS_EmptySet DEF ShutdownSound
  <1> QED  BY <1>4, <1>6, <1>7, <1>8 DEF AuditInv

LEMMA ElementOfSequence ==
    ASSUME NEW S, NEW s \in Seq(S), NEW i \in DOMAIN s
    PROVE  s[i] \in S
  OBVIOUS

LEMMA LedgerStepKeeps ==
    ASSUME AuditInv, NEW p \in Producers, LedgerStepOf(p), UNCHANGED auditedVars
    PROVE  AuditInv'
  <1>1. CASE At(p, "asking for failure") /\ (Admit(p) \/ RefuseAdmission(p))
    BY <1>1, SecondAdmissionKeeps
  <1>2. CASE ProceedAsIs(p)
    BY <1>2, ProceedKeeps
  <1>3. CASE ExpandNow(p) \/ AcquireInTurn(p)
    BY <1>3, GrowKeeps
  <1>4. CASE LineUp(p)
    BY <1>4, LineUpKeeps
  <1>5. CASE GiveUp(p) \/ FailDirect(p)
    BY <1>5, GiveUpKeeps
  <1>6. CASE Enqueue(p)
    BY <1>6, EnqueueKeeps
  <1>7. CASE GoDirect(p)
    BY <1>7, GoDirectKeeps
  <1>8. CASE Probe(p)
    BY <1>8, HealthKeeps
  <1>9. CASE PersistDirect(p)
    BY <1>9, PersistKeeps
  <1>10. CASE Despair(p) \/ Release(p)
    BY <1>10, AwayKeeps
  <1> QED
    BY <1>1, <1>2, <1>3, <1>4, <1>5, <1>6, <1>7, <1>8, <1>9, <1>10 DEF LedgerStepOf

LEMMA StepKeeps ==
    ASSUME AuditInv, NEW p \in Producers, Step(p)
    PROVE  AuditInv'
  <1>1. CASE Start(p) \/ Admitted(p) \/ NotAdmitted(p) \/ Restart(p) \/ AskAgain(p)
    BY <1>1, StartKeeps, AdmittedKeeps, NotAdmittedKeeps, RestartKeeps, AskAgainKeeps
  <1>2. CASE Begin(p) \/ Nest(p) \/ LeaveNested(p) \/ RaiseNested(p)
    BY <1>2, BeginKeeps, NestedKeeps
  <1>3. CASE RaiseInTransaction(p) \/ RefuseDoomed(p) \/ FailCommit(p) \/ FailHook(p)
    BY <1>3, RollbacksKeep, FailHookKeeps
  <1>4. CASE RunHook(p) \/ SkipHook(p) \/ RaiseInOperation(p) \/ Commit(p)
    BY <1>4, RunHookKeeps, WalkKeeps, CommitKeeps
  <1>5. CASE RecordFailure(p) \/ AskForFailure(p) \/ AdmittedForFailure(p) \/ RecordResult(p)
    BY <1>5, BeginRecordKeeps, AskForFailureKeeps
  <1>6. CASE ReturnUnrecorded(p) \/ Answer(p)
    BY <1>6, ReturnUnrecordedKeeps, AnswerKeeps
  <1>7. CASE LedgerStepOf(p) /\ UNCHANGED auditedVars
    BY <1>7, LedgerStepKeeps
  <1> QED
    BY <1>1, <1>2, <1>3, <1>4, <1>5, <1>6, <1>7 DEF Step

LEMMA NextKeeps ==
    ASSUME AuditInv, [Next]_vars
    PROVE  AuditInv'
  <1>1. CASE \E p \in Producers : Step(p)
    BY <1>1, StepKeeps
  <1>2. CASE WorkerStep /\ UNCHANGED auditedVars
    BY <1>2, TakeBatchKeeps, CommitBatchKeeps, FailBatchKeeps, SettleBatchKeeps, HealthKeeps
       DEF WorkerStep
  <1>3. CASE (BeginClose \/ EndClose) /\ UNCHANGED auditedVars
    BY <1>3, HealthKeeps
  <1>4. CASE UNCHANGED vars
    <2>1. UNCHANGED <<ticket, call, commits, ledger, queue, batch, counters, worker, closing>>
      BY <1>4 DEF vars, ledgerVars, auditedVars
    <2>2. \A q \in Producers, w \in Outcomes :
              /\ Pending(q, w)' <=> Pending(q, w)
              /\ Queued(q, w)' \/ Taken(q, w)' => Queued(q, w) \/ Taken(q, w)
      BY <2>1 DEF Pending, Queued, Taken
    <2>3. Shape' /\ RowsSound' /\ ShutdownSound'
      BY <2>1, <2>2, NothingMoves DEF AuditInv, Shape, RowsSound, ShutdownSound, ShuttingDown
    <2> QED  BY <2>1, <2>2, <2>3, NothingMoves DEF AuditInv
  <1> QED  BY <1>1, <1>2, <1>3, <1>4 DEF Next

(* One row of one thread is in one place on its way from the ticket to the *)
(* ledger, whatever audited(), the hooks of db.py and the worker of        *)
(* activity.py do in between.                                              *)
THEOREM AuditInvariant == Spec => []AuditInv
  <1>1. Init => AuditInv
    BY InitSound
  <1>2. AuditInv /\ [Next]_vars => AuditInv'
    BY NextKeeps
  <1> QED  BY <1>1, <1>2, PTL DEF Spec

(* "A mutation writes exactly one ledger row: inside the first storage     *)
(* transaction it commits", its answer agrees with that row, and nothing   *)
(* is committed of a transaction in which a block raised: audited() of     *)
(* access.py, with the queue of activity.py and the hooks of db.py.        *)
THEOREM MutationsAreAudited == Spec => []MutationIsAudited
  <1>1. AuditInv => MutationIsAudited
    <2> SUFFICES ASSUME AuditInv PROVE MutationIsAudited
      OBVIOUS
    <2>1. \A p \in Producers : FrameSound(p) /\ LedgerSound(p)
      BY DEF AuditInv
    <2>2. ledger \in [Producers -> [Outcomes -> 0 .. 1]]
      BY DEF AuditInv, Shape
    <2>3. OneRowPerMutation
      <3>1. ASSUME NEW p \in Producers, IsMutation(p)
            PROVE  /\ ledger[p]["accepted"] <= 1
                   /\ commits[p] # <<>> => ledger[p]["accepted"] = 1
                   /\ commits[p] = <<>> /\ At(p, "raised") => ledger[p]["accepted"] = 0
        <4>1. ledger[p]["accepted"] \in 0 .. 1
          BY <2>2 DEF Outcomes
        <4>2. FrameSound(p) /\ LedgerSound(p)
          BY <2>1
        <4>3. ledger[p]["accepted"] <= 1
          BY <4>1
        <4>4. commits[p] # <<>> => ledger[p]["accepted"] = 1
          <5>1. CASE At(p, "done")
            BY <3>1, <4>2, <5>1 DEF LedgerSound
          <5>2. CASE At(p, "recording result")
            BY <3>1, <4>2, <5>2 DEF FrameSound, At
          <5>3. CASE ~At(p, "done") /\ ~At(p, "recording result")
            BY <3>1, <4>2, <5>3 DEF LedgerSound, FrameSound
          <5> QED  BY <5>1, <5>2, <5>3
        <4>5. commits[p] = <<>> /\ At(p, "raised") => ledger[p]["accepted"] = 0
          BY <3>1, <4>2 DEF LedgerSound, FrameSound, At
        <4> QED  BY <4>3, <4>4, <4>5
      <3> QED  BY <3>1 DEF OneRowPerMutation
    <2>4. AnswersMatchLedger
      BY <2>1 DEF AnswersMatchLedger, LedgerSound
    <2>5. NoHalfTransaction
      <3>1. ASSUME NEW p \in Producers, NEW i \in DOMAIN commits[p]
            PROVE  ~commits[p][i]
        <4>1. commits[p] \in Seq({FALSE})
          BY DEF AuditInv, Shape
        <4>2. commits[p][i] \in {FALSE}
          BY <4>1, ElementOfSequence
        <4> QED  BY <4>2
      <3> QED  BY <3>1 DEF NoHalfTransaction
    <2> QED  BY <2>3, <2>4, <2>5 DEF MutationIsAudited
  <1> QED  BY <1>1, AuditInvariant, PTL

(* A clean shutdown leaves no ticket, no queued row and nobody waiting for *)
(* a future: close() and _commit_worker_loop of activity.py.               *)
THEOREM ShutdownLosesNothing == Spec => []CloseLosesNothing
  <1>1. AuditInv => CloseLosesNothing
    <2> SUFFICES ASSUME AuditInv, closing = "closed"
                 PROVE  /\ queue = <<>> /\ batch = <<>>
                        /\ \A p \in Producers : ~Counted(p) /\ ticket[p].at # "queued"
      BY DEF CloseLosesNothing
    <2>1. worker.at = "stopped" /\ queue = <<>> /\ batch = <<>> /\ Holders = {}
      BY DEF AuditInv, ShutdownSound, RowsSound
    <2>2. ASSUME NEW p \in Producers, ticket[p].at = "queued"
          PROVE  FALSE
      <3>1. RecordingNow(p) /\ Outcome(p) \in Outcomes
        BY <2>2, FilingIsRecording
      <3>2. Pending(p, Outcome(p))
        BY <2>2, <3>1 DEF AuditInv, LedgerSound
      <3> QED  BY <2>1, <3>2 DEF Pending, Queued
    <2> QED  BY <2>1, <2>2 DEF Holders
  <1> QED  BY <1>1, AuditInvariant, PTL

-----------------------------------------------------------------------------
(* Sums.  The ledger's byte counters are sums over tickets and rows, which *)
(* the model takes with the folds of the community modules.  A fold here   *)
(* is the one function on the subsets of a finite set that adds a picked   *)
(* element to the sum of the rest; by the least size at which it could     *)
(* fail it does not matter which element is picked, so any can be taken    *)
(* out.                                                                    *)
Pick(s) == CHOOSE x \in s : TRUE

IsSum(it, g, S) ==
    it = [s \in SUBSET S |-> IF s = {} THEN 0 ELSE g[Pick(s)] + it[s \ {Pick(s)}]]

LEMMA PickIsIn == \A s : s # {} => Pick(s) \in s
  BY DEF Pick

(* The recursive functions exist.                                          *)
LEMMA SumExists ==
    ASSUME NEW S, IsFiniteSet(S), NEW g, \A x \in S : g[x] \in Nat
    PROVE  \E it : IsSum(it, g, S)
  <1> DEFINE Up(it, s) == IF s = {} THEN 0 ELSE g[Pick(s)] + it[s \ {Pick(s)}]
             Good(n) == \E it \in [SUBSET S -> Nat] :
                           \A s \in SUBSET S : Cardinality(s) <= n => it[s] = Up(it, s)
             Bad == {n \in Nat : ~Good(n)}
  <1>1. \A s \in SUBSET S : /\ IsFiniteSet(s) /\ Cardinality(s) \in Nat
                            /\ Cardinality(s) <= Cardinality(S)
    BY FS_Subset, FS_CardinalityType
  <1>2. Good(0)
    <2> DEFINE it == [s \in SUBSET S |-> 0]
    <2>1. \A s \in SUBSET S : Cardinality(s) <= 0 => it[s] = Up(it, s)
      BY <1>1, FS_EmptySet
    <2>2. it \in [SUBSET S -> Nat]
      OBVIOUS
    <2> HIDE DEF it, Up
    <2> QED  BY <2>1, <2>2
  <1>3. ASSUME NEW n \in Nat, Good(n)
        PROVE  Good(n + 1)
    <2>1. PICK it \in [SUBSET S -> Nat] :
             \A s \in SUBSET S : Cardinality(s) <= n => it[s] = Up(it, s)
      BY <1>3
    <2> DEFINE more == [s \in SUBSET S |-> IF Cardinality(s) <= n THEN it[s] ELSE Up(it, s)]
    <2>2. \A s \in SUBSET S : s # {} =>
             /\ Pick(s) \in S /\ s \ {Pick(s)} \in SUBSET S
             /\ Cardinality(s \ {Pick(s)}) = Cardinality(s) - 1
      BY <1>1, PickIsIn, PickedOff
    <2>3. more \in [SUBSET S -> Nat]
      <3>1. \A s \in SUBSET S : Up(it, s) \in Nat
        BY <2>2
      <3> HIDE DEF Up
      <3> QED  BY <3>1
    <2>4. ASSUME NEW s \in SUBSET S, Cardinality(s) <= n + 1
          PROVE  more[s] = Up(more, s)
      <3>1. CASE s = {}
        <4>1. Cardinality(s) <= n /\ Up(it, s) = 0 /\ Up(more, s) = 0
          BY <3>1, FS_EmptySet
        <4> HIDE DEF Up
        <4> QED  BY <2>1, <4>1
      <3>2. CASE s # {}
        <4>1. /\ s \ {Pick(s)} \in SUBSET S /\ Cardinality(s) \in Nat
              /\ Cardinality(s \ {Pick(s)}) <= n
          BY <1>1, <2>2, <2>4, <3>2
        <4>2. more[s \ {Pick(s)}] = it[s \ {Pick(s)}]
          BY <4>1
        <4>3. Up(more, s) = Up(it, s)
          BY <4>2
        <4>4. more[s] = IF Cardinality(s) <= n THEN it[s] ELSE Up(it, s)
          OBVIOUS
        <4> HIDE DEF Up, more
        <4> QED  BY <2>1, <4>3, <4>4
      <3> QED  BY <3>1, <3>2
    <2> HIDE DEF more, Up
    <2> QED  BY <2>3, <2>4
  <1>4. \A n \in Nat : Good(n)
    <2> SUFFICES ASSUME NEW n \in Bad
                 PROVE  FALSE
      OBVIOUS
    <2>1. PICK m \in Bad : \A k \in Bad : m <= k
      BY LeastOf
    <2> HIDE DEF Good
    <2>2. m # 0 /\ m - 1 \in Nat /\ Good(m - 1)
      BY <1>2, <2>1
    <2>3. Good((m - 1) + 1)
      BY <1>3, <2>2
    <2> QED  BY <2>1, <2>3
  <1>5. Cardinality(S) \in Nat
    BY FS_CardinalityType
  <1>6. PICK it \in [SUBSET S -> Nat] :
           \A s \in SUBSET S : Cardinality(s) <= Cardinality(S) => it[s] = Up(it, s)
    BY <1>4, <1>5
  <1>7. it = [s \in SUBSET S |-> Up(it, s)]
    BY <1>1, <1>6
  <1> QED  BY <1>7 DEF IsSum

(* Where two of them go over the same elements they agree.                 *)
LEMMA SumsAgree ==
    ASSUME NEW S, NEW R, NEW g, NEW h, NEW i, NEW j, IsSum(i, g, S), IsSum(j, h, R),
           NEW s, s \subseteq S \cap R, IsFiniteSet(s), \A x \in s : g[x] = h[x]
    PROVE  i[s] = j[s]
  <1> DEFINE Differ(r) == r \subseteq s /\ i[r] # j[r]
             Bad == {n \in Nat : \E r \in SUBSET s : Cardinality(r) = n /\ i[r] # j[r]}
  <1> SUFFICES ASSUME i[s] # j[s]
               PROVE  FALSE
    OBVIOUS
  <1>1. Cardinality(s) \in Bad
    BY FS_CardinalityType
  <1>2. PICK m \in Bad : \A k \in Bad : m <= k
    BY <1>1, LeastOf
  <1>3. PICK r \in SUBSET s : Cardinality(r) = m /\ i[r] # j[r]
    BY <1>2
  <1>4. /\ i[r] = IF r = {} THEN 0 ELSE g[Pick(r)] + i[r \ {Pick(r)}]
        /\ j[r] = IF r = {} THEN 0 ELSE h[Pick(r)] + j[r \ {Pick(r)}]
    BY DEF IsSum
  <1>5. r # {}
    BY <1>3, <1>4
  <1>6. Pick(r) \in r /\ IsFiniteSet(r)
    BY <1>5, PickIsIn, FS_Subset
  <1>7. Cardinality(r \ {Pick(r)}) = m - 1 /\ Cardinality(r \ {Pick(r)}) \in Nat
    BY <1>3, <1>6, PickedOff
  <1>8. i[r \ {Pick(r)}] = j[r \ {Pick(r)}]
    <2>1. m - 1 \notin Bad
      BY <1>2, <1>7
    <2> QED  BY <1>7, <2>1
  <1> QED  BY <1>3, <1>4, <1>5, <1>6, <1>8

(* Any element may be taken out first.                                     *)
LEMMA SumTakesOut ==
    ASSUME NEW S, IsFiniteSet(S), NEW g, \A x \in S : g[x] \in Nat, NEW it, IsSum(it, g, S)
    PROVE  /\ \A s \in SUBSET S : it[s] \in Nat
           /\ \A s \in SUBSET S : \A x \in s : it[s] = g[x] + it[s \ {x}]
  <1> DEFINE Odd == {n \in Nat : \E s \in SUBSET S : Cardinality(s) = n /\ it[s] \notin Nat}
             Bad == {n \in Nat : \E s \in SUBSET S : \E x \in s :
                                   Cardinality(s) = n /\ it[s] # g[x] + it[s \ {x}]}
  <1>1. \A s \in SUBSET S : IsFiniteSet(s) /\ Cardinality(s) \in Nat
    BY FS_Subset, FS_CardinalityType
  <1>2. \A s \in SUBSET S : it[s] = IF s = {} THEN 0 ELSE g[Pick(s)] + it[s \ {Pick(s)}]
    BY DEF IsSum
  <1>3. ASSUME NEW s \in SUBSET S
        PROVE  it[s] \in Nat
    <2> SUFFICES ASSUME it[s] \notin Nat
                 PROVE  FALSE
      OBVIOUS
    <2>1. Cardinality(s) \in Odd
      BY <1>1
    <2>2. PICK m \in Odd : \A k \in Odd : m <= k
      BY <2>1, LeastOf
    <2>3. PICK r \in SUBSET S : Cardinality(r) = m /\ it[r] \notin Nat
      BY <2>2
    <2>4. r # {} /\ Pick(r) \in r
      BY <1>2, <2>3, PickIsIn
    <2>5. Cardinality(r \ {Pick(r)}) = m - 1 /\ Cardinality(r \ {Pick(r)}) \in Nat
      BY <1>1, <2>3, <2>4, PickedOff
    <2>6. it[r \ {Pick(r)}] \in Nat
      <3>1. m - 1 \notin Odd
        BY <2>2, <2>5
      <3> QED  BY <2>5, <3>1
    <2>7. g[Pick(r)] \in Nat /\ it[r] = g[Pick(r)] + it[r \ {Pick(r)}]
      BY <1>2, <2>4
    <2> QED  BY <2>3, <2>6, <2>7
  <1>4. ASSUME NEW s \in SUBSET S, NEW x \in s
        PROVE  it[s] = g[x] + it[s \ {x}]
    <2> SUFFICES ASSUME it[s] # g[x] + it[s \ {x}]
                 PROVE  FALSE
      OBVIOUS
    <2>1. Cardinality(s) \in Bad
      BY <1>1
    <2>2. PICK m \in Bad : \A k \in Bad : m <= k
      BY <2>1, LeastOf
    <2>3. PICK r \in SUBSET S : \E y \in r : Cardinality(r) = m /\ it[r] # g[y] + it[r \ {y}]
      BY <2>2
    <2>4. PICK y \in r : Cardinality(r) = m /\ it[r] # g[y] + it[r \ {y}]
      BY <2>3
    <2> DEFINE z == Pick(r)
    <2>5. z \in r /\ it[r] = g[z] + it[r \ {z}]
      BY <1>2, <2>4, PickIsIn
    <2>6. y # z
      BY <2>4, <2>5
    <2>7. /\ Cardinality(r \ {z}) = m - 1 /\ Cardinality(r \ {z}) \in Nat
      BY <1>1, <2>4, <2>5, PickedOff
    <2>8. /\ Cardinality(r \ {y}) = m - 1 /\ Cardinality(r \ {y}) \in Nat
      BY <1>1, <2>4, PickedOff
    <2>9. m - 1 \notin Bad
      <3>1. m \in Nat
        BY <2>2
      <3> HIDE DEF Bad
      <3> QED  BY <2>2, <3>1
    <2> HIDE DEF z
    <2>10. it[r \ {z}] = g[y] + it[(r \ {z}) \ {y}]
      BY <2>5, <2>6, <2>7, <2>9
    <2>11. it[r \ {y}] = g[z] + it[(r \ {y}) \ {z}]
      BY <2>5, <2>6, <2>8, <2>9
    <2>12. (r \ {z}) \ {y} = (r \ {y}) \ {z}
      OBVIOUS
    <2>13. g[y] \in Nat /\ g[z] \in Nat
      BY <2>4, <2>5
    <2>14. it[(r \ {y}) \ {z}] \in Nat
      BY <1>3
    <2>15. it[r] = g[z] + (g[y] + it[(r \ {y}) \ {z}])
      BY <2>5, <2>10, <2>12
    <2>16. it[r] # g[y] + (g[z] + it[(r \ {y}) \ {z}])
      BY <2>4, <2>11
    <2> HIDE DEF Bad, Odd
    <2> QED  BY <2>13, <2>14, <2>15, <2>16
  <1> QED  BY <1>3, <1>4

Total(g, S) == (CHOOSE it : IsSum(it, g, S))[S]

LEMMA TotalIs ==
    ASSUME NEW S, IsFiniteSet(S), NEW g, \A x \in S : g[x] \in Nat,
           NEW it, IsSum(it, g, S)
    PROVE  it[S] = Total(g, S)
  <1> DEFINE i == CHOOSE i : IsSum(i, g, S)
  <1>1. IsSum(i, g, S)
    OBVIOUS
  <1> HIDE DEF i
  <1>2. it[S] = i[S]
    BY <1>1, SumsAgree
  <1> QED  BY <1>2 DEF i, Total

LEMMA TotalTakesOut ==
    ASSUME NEW S, IsFiniteSet(S), NEW g, \A x \in S : g[x] \in Nat
    PROVE  /\ Total(g, S) \in Nat
           /\ \A x \in S : Total(g, S) = g[x] + Total(g, S \ {x})
  <1>1. PICK it : IsSum(it, g, S)
    BY SumExists
  <1>2. it[S] = Total(g, S) /\ it[S] \in Nat
    BY <1>1, TotalIs, SumTakesOut
  <1>3. ASSUME NEW x \in S
        PROVE  Total(g, S) = g[x] + Total(g, S \ {x})
    <2>1. IsFiniteSet(S \ {x})
      BY FS_Subset
    <2>2. PICK i : IsSum(i, g, S \ {x})
      BY <2>1, SumExists
    <2>3. i[S \ {x}] = Total(g, S \ {x})
      BY <2>1, <2>2, TotalIs
    <2>4. i[S \ {x}] = it[S \ {x}]
      BY <1>1, <2>1, <2>2, SumsAgree
    <2>5. it[S] = g[x] + it[S \ {x}]
      BY <1>1, SumTakesOut
    <2> QED  BY <1>2, <2>3, <2>4, <2>5
  <1> QED  BY <1>2, <1>3

LEMMA TotalSame ==
    ASSUME NEW S, IsFiniteSet(S), NEW g, NEW h, \A x \in S : g[x] \in Nat /\ h[x] = g[x]
    PROVE  Total(h, S) = Total(g, S)
  <1>1. PICK i : IsSum(i, g, S)
    BY SumExists
  <1>2. PICK j : IsSum(j, h, S)
    BY SumExists
  <1>3. i[S] = Total(g, S) /\ j[S] = Total(h, S)
    BY <1>1, <1>2, TotalIs
  <1> QED  BY <1>1, <1>2, <1>3, SumsAgree

LEMMA TotalEmpty ==
    ASSUME NEW g
    PROVE  Total(g, {}) = 0
  <1>1. PICK it : IsSum(it, g, {})
    BY SumExists, FS_EmptySet
  <1>2. it[{}] = 0
    BY <1>1 DEF IsSum
  <1> QED  BY <1>1, <1>2, TotalIs, FS_EmptySet

(* The sums of the model are totals.                                       *)
Weights == [p \in Producers |-> ticket[p].reserved]
Sizes(items) == [i \in DOMAIN items |-> items[i].size]

LEMMA ReservedIsTotal ==
    ASSUME Shape
    PROVE  ReservedSum = Total(Weights, Holders)
  <1>1. IsFiniteSet(Holders) /\ Holders \subseteq Producers
    BY LedgerAssumption, FS_Subset DEF Holders
  <1>2. \A p \in Producers : Weights[p] = ticket[p].reserved /\ Weights[p] \in Nat
    BY DEF Weights, Shape, Ticket
  <1> DEFINE F(it) == [s \in SUBSET Holders |->
                         IF s = {} THEN 0
                         ELSE ticket[Pick(s)].reserved + it[s \ {Pick(s)}]]
             i == CHOOSE it : it = F(it)
  <1>3. ReservedSum = i[Holders]
    BY DEF ReservedSum, MapThenSumSet, MapThenFoldSet, Pick
  <1>4. ASSUME NEW it
        PROVE  IsSum(it, Weights, Holders) <=> it = F(it)
    <2> DEFINE G == [s \in SUBSET Holders |->
                       IF s = {} THEN 0 ELSE Weights[Pick(s)] + it[s \ {Pick(s)}]]
    <2>1. ASSUME NEW s \in SUBSET Holders, s # {}
          PROVE  Weights[Pick(s)] = ticket[Pick(s)].reserved
      BY <1>1, <1>2, <2>1, PickIsIn
    <2>2. G = F(it)
      BY <2>1
    <2> QED  BY <2>2 DEF IsSum
  <1>5. \E it : it = F(it)
    BY <1>1, <1>2, <1>4, SumExists
  <1> HIDE DEF F
  <1>6. i = F(i)
    BY <1>5
  <1> HIDE DEF i
  <1>7. IsSum(i, Weights, Holders)
    BY <1>4, <1>6
  <1> QED  BY <1>1, <1>2, <1>3, <1>7, TotalIs

LEMMA SizesAreBytes ==
    ASSUME NEW items \in Seq(Row), NEW k \in DOMAIN items
    PROVE  /\ Sizes(items)[k] = items[k].size /\ items[k].size \in Nat
           /\ items[k] \in Row
  <1>1. items[k] \in Row
    BY ElementOfSequence
  <1>2. Sizes(items)[k] = items[k].size
    BY DEF Sizes
  <1> QED  BY <1>1, <1>2 DEF Row

LEMMA BytesAreTotal ==
    ASSUME NEW items \in Seq(Row)
    PROVE  BytesOf(items) = Total(Sizes(items), DOMAIN items)
  <1>1. IsFiniteSet(DOMAIN items)
    BY FS_Interval
  <1>2. \A k \in DOMAIN items : Sizes(items)[k] = items[k].size /\ items[k].size \in Nat
    BY SizesAreBytes
  <1> DEFINE F(it) == [s \in SUBSET DOMAIN items |->
                         IF s = {} THEN 0
                         ELSE items[Pick(s)].size + it[s \ {Pick(s)}]]
             i == CHOOSE it : it = F(it)
  <1>3. BytesOf(items) = i[DOMAIN items]
    BY DEF BytesOf, FoldSeq, FoldFunction, FoldFunctionOnSet, MapThenFoldSet, Pick
  <1>4. ASSUME NEW it
        PROVE  IsSum(it, Sizes(items), DOMAIN items) <=> it = F(it)
    <2> DEFINE G == [s \in SUBSET DOMAIN items |->
                       IF s = {} THEN 0 ELSE Sizes(items)[Pick(s)] + it[s \ {Pick(s)}]]
    <2>1. ASSUME NEW s \in SUBSET DOMAIN items, s # {}
          PROVE  Sizes(items)[Pick(s)] = items[Pick(s)].size
      BY <1>2, <2>1, PickIsIn
    <2>2. G = F(it)
      BY <2>1
    <2> QED  BY <2>2 DEF IsSum
  <1>5. \E it : it = F(it)
    BY <1>1, <1>2, <1>4, SumExists
  <1> HIDE DEF F
  <1>6. i = F(i)
    BY <1>5
  <1> HIDE DEF i
  <1>7. IsSum(i, Sizes(items), DOMAIN items)
    BY <1>4, <1>6
  <1> QED  BY <1>1, <1>2, <1>3, <1>7, TotalIs

RowsBy(p, items) == {i \in DOMAIN items : items[i].by = p}

LEMMA BytesByAreTotal ==
    ASSUME NEW items \in Seq(Row), NEW p
    PROVE  BytesBy(p, items) = Total(Sizes(items), RowsBy(p, items))
  <1> DEFINE rows == RowsBy(p, items)
  <1>1. IsFiniteSet(rows) /\ rows \subseteq DOMAIN items
    BY FS_Interval, FS_Subset DEF RowsBy
  <1>2. \A k \in DOMAIN items : Sizes(items)[k] = items[k].size /\ items[k].size \in Nat
    BY SizesAreBytes
  <1> DEFINE F(it) == [s \in SUBSET rows |->
                         IF s = {} THEN 0
                         ELSE items[Pick(s)].size + it[s \ {Pick(s)}]]
             i == CHOOSE it : it = F(it)
  <1>3. BytesBy(p, items) = i[rows]
    BY DEF BytesBy, MapThenSumSet, MapThenFoldSet, Pick, RowsBy
  <1> HIDE DEF rows
  <1>4. ASSUME NEW it
        PROVE  IsSum(it, Sizes(items), rows) <=> it = F(it)
    <2> DEFINE G == [s \in SUBSET rows |->
                       IF s = {} THEN 0 ELSE Sizes(items)[Pick(s)] + it[s \ {Pick(s)}]]
    <2>1. ASSUME NEW s \in SUBSET rows, s # {}
          PROVE  Sizes(items)[Pick(s)] = items[Pick(s)].size
      BY <1>1, <1>2, <2>1, PickIsIn
    <2>2. G = F(it)
      BY <2>1
    <2> QED  BY <2>2 DEF IsSum
  <1>5. \E it : it = F(it)
    BY <1>1, <1>2, <1>4, SumExists
  <1> HIDE DEF F
  <1>6. i = F(i)
    BY <1>5
  <1> HIDE DEF i
  <1>7. IsSum(i, Sizes(items), rows)
    BY <1>4, <1>6
  <1>8. i[rows] = Total(Sizes(items), rows)
    BY <1>1, <1>2, <1>7, TotalIs
  <1> QED  BY <1>3, <1>8 DEF rows

-----------------------------------------------------------------------------
(* Bytes of a sequence of rows.                                            *)
LEMMA BytesOfEmpty == BytesOf(<<>>) = 0
  <1>1. <<>> \in Seq(Row) /\ DOMAIN <<>> = {}
    OBVIOUS
  <1> QED  BY <1>1, BytesAreTotal, TotalEmpty

LEMMA BytesAreBytes ==
    ASSUME NEW items \in Seq(Row)
    PROVE  /\ BytesOf(items) \in Nat
           /\ \A i \in DOMAIN items : BytesOf(items) >= items[i].size
  <1>1. IsFiniteSet(DOMAIN items)
    BY FS_Interval
  <1>2. \A k \in DOMAIN items : Sizes(items)[k] = items[k].size /\ items[k].size \in Nat
    BY SizesAreBytes
  <1>3. /\ Total(Sizes(items), DOMAIN items) \in Nat
        /\ \A i \in DOMAIN items : Total(Sizes(items), DOMAIN items) =
             Sizes(items)[i] + Total(Sizes(items), DOMAIN items \ {i})
    BY <1>1, <1>2, TotalTakesOut
  <1>4. ASSUME NEW i \in DOMAIN items
        PROVE  Total(Sizes(items), DOMAIN items) >= items[i].size
    <2>1. Total(Sizes(items), DOMAIN items \ {i}) \in Nat
      <3>1. IsFiniteSet(DOMAIN items \ {i})
        BY <1>1, FS_Subset
      <3> QED  BY <1>2, <3>1, TotalTakesOut
    <2>2. /\ Total(Sizes(items), DOMAIN items) =
               items[i].size + Total(Sizes(items), DOMAIN items \ {i})
          /\ items[i].size \in Nat
      BY <1>2, <1>3
    <2> QED  BY <2>1, <2>2
  <1> QED  BY <1>3, <1>4, BytesAreTotal

(* A first part of a sequence and one row more.                            *)
LEMMA BytesOfOneMore ==
    ASSUME NEW items \in Seq(Row), NEW more \in Seq(Row),
           Len(more) = Len(items) + 1,
           \A i \in DOMAIN items : more[i] = items[i]
    PROVE  BytesOf(more) = BytesOf(items) + more[Len(more)].size
  <1> DEFINE last == Len(more)
  <1>1. /\ IsFiniteSet(DOMAIN items) /\ IsFiniteSet(DOMAIN more)
        /\ last \in DOMAIN more /\ DOMAIN items = DOMAIN more \ {last}
    <2>1. /\ DOMAIN items = 1 .. Len(items) /\ DOMAIN more = 1 .. Len(more)
          /\ Len(items) \in Nat /\ Len(more) = Len(items) + 1
      OBVIOUS
    <2>2. IsFiniteSet(DOMAIN items) /\ IsFiniteSet(DOMAIN more)
      BY <2>1, FS_Interval
    <2>3. last \in DOMAIN more /\ DOMAIN items = DOMAIN more \ {last}
      BY <2>1
    <2> QED  BY <2>2, <2>3
  <1>2. /\ \A k \in DOMAIN more : Sizes(more)[k] = more[k].size /\ more[k].size \in Nat
        /\ \A k \in DOMAIN items : Sizes(items)[k] = items[k].size /\ items[k].size \in Nat
    BY SizesAreBytes
  <1> HIDE DEF last
  <1>3. /\ Total(Sizes(more), DOMAIN more) =
             more[last].size + Total(Sizes(more), DOMAIN more \ {last})
    <2>1. \A k \in DOMAIN more : Sizes(more)[k] \in Nat
      BY <1>2
    <2>2. Total(Sizes(more), DOMAIN more) =
             Sizes(more)[last] + Total(Sizes(more), DOMAIN more \ {last})
      BY <1>1, <2>1, TotalTakesOut
    <2> QED  BY <1>1, <1>2, <2>2
  <1>4. Total(Sizes(more), DOMAIN items) = Total(Sizes(items), DOMAIN items)
    <2>1. \A k \in DOMAIN items : Sizes(items)[k] \in Nat /\ Sizes(more)[k] = Sizes(items)[k]
      BY <1>1, <1>2
    <2> QED  BY <1>1, <2>1, TotalSame
  <1>5. /\ BytesOf(more) = more[last].size + BytesOf(items)
        /\ BytesOf(items) \in Nat /\ more[last].size \in Nat
    BY <1>1, <1>2, <1>3, <1>4, BytesAreTotal, BytesAreBytes
  <1> QED  BY <1>5 DEF last

LEMMA PartOf ==
    ASSUME NEW S, NEW s \in Seq(S), NEW a \in Nat \ {0}, NEW b \in Nat,
           a <= b + 1, b <= Len(s)
    PROVE  /\ SubSeq(s, a, b) \in Seq(S) /\ Len(SubSeq(s, a, b)) = b - a + 1
           /\ DOMAIN SubSeq(s, a, b) = 1 .. b - a + 1
           /\ \A i \in 1 .. b - a + 1 : SubSeq(s, a, b)[i] = s[a + i - 1]
  OBVIOUS

(* Split anywhere, the parts have the bytes of the whole.                  *)
LEMMA BytesOfSplit ==
    ASSUME NEW s \in Seq(Row), NEW n \in 0 .. Len(s)
    PROVE  BytesOf(s) = BytesOf(SubSeq(s, 1, n)) + BytesOf(SubSeq(s, n + 1, Len(s)))
  <1> DEFINE Wrong == {k \in 0 .. Len(s) - n :
                         BytesOf(SubSeq(s, 1, n + k)) #
                           BytesOf(SubSeq(s, 1, n)) + BytesOf(SubSeq(s, n + 1, n + k))}
  <1>1. Wrong = {}
    <2> SUFFICES ASSUME Wrong # {} PROVE FALSE
      OBVIOUS
    <2>1. PICK m \in Wrong : \A k \in Wrong : m <= k
      <3>1. Wrong \subseteq Nat
        OBVIOUS
      <3> HIDE DEF Wrong
      <3> QED  BY <3>1, LeastOf
    <2>2. m # 0
      <3>1. SubSeq(s, 1, n) \in Seq(Row) /\ SubSeq(s, n + 1, n) = <<>> /\ n + 0 = n
        OBVIOUS
      <3>2. BytesOf(SubSeq(s, 1, n)) \in Nat
        BY <3>1, BytesAreBytes
      <3>3. BytesOf(SubSeq(s, 1, n)) = BytesOf(SubSeq(s, 1, n)) + BytesOf(<<>>)
        BY <3>2, BytesOfEmpty
      <3>4. BytesOf(SubSeq(s, 1, n + 0)) =
              BytesOf(SubSeq(s, 1, n)) + BytesOf(SubSeq(s, n + 1, n + 0))
        BY <3>1, <3>3
      <3> QED  BY <2>1, <3>4
    <2> DEFINE l == m - 1
               a == SubSeq(s, 1, n + l)
               b == SubSeq(s, n + 1, n + l)
               c == SubSeq(s, 1, n + m)
               d == SubSeq(s, n + 1, n + m)
    <2>3. m \in 1 .. Len(s) - n /\ l \in 0 .. Len(s) - n /\ l < m
      BY <2>1, <2>2
    <2>4. l \notin Wrong
      <3> HIDE DEF Wrong
      <3> QED  BY <2>1, <2>3
    <2>5. BytesOf(a) = BytesOf(SubSeq(s, 1, n)) + BytesOf(b)
      BY <2>3, <2>4
    <2>6. BytesOf(c) # BytesOf(SubSeq(s, 1, n)) + BytesOf(d)
      BY <2>1
    <2> HIDE DEF Wrong
    <2>7. /\ a \in Seq(Row) /\ c \in Seq(Row) /\ Len(c) = Len(a) + 1
          /\ Len(c) = n + m /\ c[Len(c)] = s[n + m]
          /\ \A i \in DOMAIN a : c[i] = a[i]
      BY <2>3
    <2>8. /\ b \in Seq(Row) /\ d \in Seq(Row) /\ Len(d) = Len(b) + 1
          /\ Len(d) = m /\ d[Len(d)] = s[n + m]
          /\ \A i \in DOMAIN b : d[i] = b[i]
      <3>1. /\ b \in Seq(Row) /\ Len(b) = l /\ DOMAIN b = 1 .. l
            /\ \A i \in 1 .. l : b[i] = s[n + 1 + i - 1]
        BY <2>3, PartOf
      <3>2. /\ d \in Seq(Row) /\ Len(d) = m /\ DOMAIN d = 1 .. m
            /\ \A i \in 1 .. m : d[i] = s[n + 1 + i - 1]
        BY <2>3, PartOf
      <3> HIDE DEF b, d
      <3>3. l = m - 1
        OBVIOUS
      <3>4. ASSUME NEW i \in DOMAIN b
            PROVE  d[i] = b[i]
        <4>1. i \in 1 .. l /\ i \in 1 .. m
          BY <2>3, <3>1
        <4> QED  BY <3>1, <3>2, <4>1
      <3>5. d[m] = s[n + m]
        BY <2>3, <3>2
      <3> QED  BY <2>3, <3>1, <3>2, <3>3, <3>4, <3>5
    <2> HIDE DEF l, a, b, c, d
    <2>9. BytesOf(c) = BytesOf(a) + s[n + m].size
      BY <2>7, BytesOfOneMore
    <2>10. BytesOf(d) = BytesOf(b) + s[n + m].size
      BY <2>8, BytesOfOneMore
    <2>11. SubSeq(s, 1, n) \in Seq(Row)
      OBVIOUS
    <2>12. /\ BytesOf(b) \in Nat /\ BytesOf(SubSeq(s, 1, n)) \in Nat
           /\ s[n + m].size \in Nat
      <3>1. s[n + m].size \in Nat
        BY <2>3, SizesAreBytes
      <3> QED  BY <2>8, <2>11, <3>1, BytesAreBytes
    <2> QED  BY <2>5, <2>6, <2>9, <2>10, <2>12
  <1>2. Len(s) - n \in 0 .. Len(s) - n /\ n + (Len(s) - n) = Len(s) /\ SubSeq(s, 1, Len(s)) = s
    OBVIOUS
  <1> QED  BY <1>1, <1>2

(* The row that a thread has among others, if any.                         *)
LEMMA BytesByOne ==
    ASSUME NEW items \in Seq(Row), NEW p,
           \A i, j \in DOMAIN items : items[i].by = items[j].by => i = j
    PROVE  /\ (\A i \in DOMAIN items : items[i].by # p) => BytesBy(p, items) = 0
           /\ \A i \in DOMAIN items : items[i].by = p => BytesBy(p, items) = items[i].size
           /\ BytesBy(p, items) \in Nat /\ BytesBy(p, items) <= BytesOf(items)
  <1>1. ASSUME \A i \in DOMAIN items : items[i].by # p
        PROVE  BytesBy(p, items) = 0
    <2>1. RowsBy(p, items) = {}
      BY <1>1 DEF RowsBy
    <2> QED  BY <2>1, BytesByAreTotal, TotalEmpty
  <1>2. ASSUME NEW i \in DOMAIN items, items[i].by = p
        PROVE  BytesBy(p, items) = items[i].size
    <2>1. RowsBy(p, items) = {i} /\ {i} \ {i} = {}
      BY <1>2 DEF RowsBy
    <2>2. Sizes(items)[i] = items[i].size /\ items[i].size \in Nat
      BY SizesAreBytes
    <2>3. IsFiniteSet({i})
      BY FS_Singleton
    <2>4. Total(Sizes(items), {i}) = Sizes(items)[i] + Total(Sizes(items), {i} \ {i})
      BY <2>2, <2>3, TotalTakesOut
    <2>5. Total(Sizes(items), {i} \ {i}) = 0
      BY <2>1, TotalEmpty
    <2>6. Total(Sizes(items), {i}) = items[i].size
      BY <2>2, <2>4, <2>5
    <2> QED  BY <2>1, <2>6, BytesByAreTotal
  <1>3. BytesBy(p, items) \in Nat /\ BytesBy(p, items) <= BytesOf(items)
    <2>1. CASE \A i \in DOMAIN items : items[i].by # p
      BY <1>1, <2>1, BytesAreBytes
    <2>2. ASSUME NEW i \in DOMAIN items, items[i].by = p
          PROVE  BytesBy(p, items) \in Nat /\ BytesBy(p, items) <= BytesOf(items)
      BY <1>2, <2>2, BytesAreBytes, SizesAreBytes
    <2> QED  BY <2>1, <2>2
  <1> QED  BY <1>1, <1>2, <1>3

(* What one ticket is to the sum of all.                                   *)
LEMMA ReservedOf ==
    ASSUME Shape, NEW p \in Producers
    PROVE  /\ Share(p) \in Nat /\ ReservedSum \in Nat
           /\ ReservedSum = Share(p) + Total(Weights, Holders \ {p})
           /\ Total(Weights, Holders \ {p}) \in Nat
  <1>1. IsFiniteSet(Holders) /\ IsFiniteSet(Holders \ {p}) /\ Holders \subseteq Producers
    BY LedgerAssumption, FS_Subset DEF Holders
  <1>2. \A q \in Producers : Weights[q] = ticket[q].reserved /\ Weights[q] \in Nat
    BY DEF Weights, Shape, Ticket
  <1>3. /\ Total(Weights, Holders) \in Nat /\ Total(Weights, Holders \ {p}) \in Nat
        /\ \A q \in Holders : Total(Weights, Holders) = Weights[q] + Total(Weights, Holders \ {q})
    BY <1>1, <1>2, TotalTakesOut
  <1>4. Share(p) \in Nat
    BY <1>2 DEF Share
  <1>5. CASE p \in Holders
    BY <1>2, <1>3, <1>4, <1>5, ReservedIsTotal DEF Share, Holders
  <1>6. CASE p \notin Holders
    <2>1. Holders \ {p} = Holders /\ Share(p) = 0
      BY <1>6 DEF Share, Holders
    <2> QED  BY <1>3, <1>4, <2>1, ReservedIsTotal
  <1> QED  BY <1>5, <1>6

LEMMA ReservedOfNext ==
    ASSUME NEW p \in Producers
    PROVE  (Shape => /\ Share(p) \in Nat /\ ReservedSum \in Nat
                     /\ ReservedSum = Share(p) + Total(Weights, Holders \ {p})
                     /\ Total(Weights, Holders \ {p}) \in Nat)'
  <1>1. Shape => /\ Share(p) \in Nat /\ ReservedSum \in Nat
                 /\ ReservedSum = Share(p) + Total(Weights, Holders \ {p})
                 /\ Total(Weights, Holders \ {p}) \in Nat
    BY ReservedOf
  <1> QED  BY <1>1, PTL

LEMMA ReservedMoves ==
    ASSUME Shape, Shape', NEW p \in Producers,
           \A q \in Producers \ {p} : ticket'[q] = ticket[q]
    PROVE  /\ ReservedSum' = ReservedSum - Share(p) + Share(p)'
           /\ ReservedSum' \in Nat /\ ReservedSum \in Nat
           /\ Share(p)' \in Nat /\ Share(p) \in Nat
           /\ ReservedSum >= Share(p)
  <1>1. /\ ReservedSum = Share(p) + Total(Weights, Holders \ {p})
        /\ Share(p) \in Nat /\ ReservedSum \in Nat /\ Total(Weights, Holders \ {p}) \in Nat
    BY ReservedOf
  <1>2. /\ ReservedSum' = Share(p)' + Total(Weights', Holders' \ {p})
        /\ Share(p)' \in Nat /\ ReservedSum' \in Nat
    BY ReservedOfNext
  <1>3. Holders' \ {p} = Holders \ {p}
    BY DEF Holders, Counted
  <1>4. Total(Weights', Holders \ {p}) = Total(Weights, Holders \ {p})
    <2>1. \A q \in Producers : Weights[q] = ticket[q].reserved /\ Weights[q] \in Nat
      BY DEF Weights, Shape, Ticket
    <2>2. \A q \in Holders \ {p} : Weights'[q] = Weights[q] /\ Weights[q] \in Nat
      BY <2>1 DEF Weights, Holders
    <2>3. IsFiniteSet(Holders \ {p})
      BY LedgerAssumption, FS_Subset DEF Holders
    <2> QED  BY <2>2, <2>3, TotalSame
  <1>5. Total(Weights', Holders' \ {p}) = Total(Weights, Holders \ {p})
    BY <1>3, <1>4
  <1> DEFINE a == Share(p)
             b == Total(Weights, Holders \ {p})
  <1>6. ReservedSum = a + b /\ a \in Nat /\ b \in Nat
    BY <1>1
  <1>7. ReservedSum' = a' + b /\ a' \in Nat
    BY <1>2, <1>5
  <1> HIDE DEF a, b
  <1>8. ReservedSum' = ReservedSum - a + a' /\ ReservedSum >= a
    BY <1>6, <1>7
  <1> QED  BY <1>1, <1>2, <1>8 DEF a

-----------------------------------------------------------------------------
(* Admission is exact.                                                     *)

(* Sizes that a ticket may have, by the place where it is.                 *)
SizeSound(p) ==
    LET t == ticket[p] IN
    /\ t.load.actual <= t.load.needed
    /\ t.at = "recording" => t.wanted >= t.load.needed /\ t.wanted = t.reserved + t.expansion
    /\ t.at = "waiting" => t.wanted >= t.load.needed /\ t.reserved = 0
    /\ t.at = "granted" => t.reserved >= t.load.needed

(* The counters, without the number of the tickets, which ShutdownSound    *)
(* has.                                                                    *)
CountersSound ==
    /\ counters \in [admittedItems : Nat, reservedBytes : Nat, activeProducers : Nat,
                     queueBytes : Nat, committingItems : Nat, committingBytes : Nat]
    /\ counters.admittedItems = counters.activeProducers
    /\ counters.reservedBytes = ReservedSum
    /\ counters.queueBytes = BytesOf(queue)
    /\ counters.committingItems = Len(batch)
    /\ counters.committingBytes = BytesOf(batch)

HasRow(p) == Queued(p, "accepted") \/ Queued(p, "failed")
             \/ Taken(p, "accepted") \/ Taken(p, "failed")

(* Who owns the queue exclusively has a ticket, or a row, that is marked   *)
(* oversized, so that release() or the worker gives the ownership back.    *)
OwnerSound ==
    /\ oversizedOwner \in Producers \cup {Nobody}
    /\ \A p \in Producers :
         /\ HasRow(p) => ~Counted(p)
         /\ oversizedOwner = p => Counted(p) \/ HasRow(p)
         /\ oversizedOwner = p /\ Counted(p) => ticket[p].oversized
    /\ \A i \in DOMAIN queue : queue[i].by = oversizedOwner => queue[i].oversized
    /\ \A i \in DOMAIN batch : batch[i].by = oversizedOwner => batch[i].oversized

(* Who waits stands in the line, once.                                     *)
LineSound ==
    /\ expansionWaiters \in Seq(Producers)
    /\ \A i, j \in DOMAIN expansionWaiters :
         expansionWaiters[i] = expansionWaiters[j] => i = j
    /\ \A p \in Producers :
         ticket[p].at = "waiting" <=> \E i \in DOMAIN expansionWaiters : expansionWaiters[i] = p

FrameBounded ==
    /\ \A p \in Producers : call[p].depth \in 0 .. 2
    /\ writer \in Producers \cup {Nobody}
    /\ closing \in {"open", "draining", "closed", "timed out"}

AccountsInv ==
    /\ \A p \in Producers : SizeSound(p)
    /\ CountersSound
    /\ OwnerSound
    /\ LineSound
    /\ InFlightBounded
    /\ FrameBounded

LEMMA CountingTypes ==
    ASSUME AuditInv, CountersSound
    PROVE  /\ counters.admittedItems \in Nat /\ counters.reservedBytes \in Nat
           /\ counters.activeProducers \in Nat /\ counters.queueBytes \in Nat
           /\ counters.committingItems \in Nat /\ counters.committingBytes \in Nat
           /\ Len(queue) \in Nat /\ Len(batch) \in Nat
           /\ InFlightBytes \in Nat /\ InFlightItems \in Nat
  <1>1. /\ counters.admittedItems \in Nat /\ counters.reservedBytes \in Nat
        /\ counters.activeProducers \in Nat /\ counters.queueBytes \in Nat
        /\ counters.committingItems \in Nat /\ counters.committingBytes \in Nat
    BY DEF CountersSound
  <1>2. Len(queue) \in Nat /\ Len(batch) \in Nat
    BY DEF AuditInv, Shape
  <1>3. InFlightBytes \in Nat
    BY <1>1 DEF InFlightBytes
  <1>4. InFlightItems \in Nat
    BY <1>1, <1>2 DEF InFlightItems
  <1> QED  BY <1>1, <1>2, <1>3, <1>4

(* The rows of a thread, and their bytes.                                  *)
LEMMA RowsHaveBytes ==
    ASSUME AuditInv, NEW p
    PROVE  /\ HasRow(p) <=> \/ \E i \in DOMAIN queue : queue[i].by = p
                            \/ \E i \in DOMAIN batch : batch[i].by = p
           /\ ~HasRow(p) => BytesBy(p, queue) = 0 /\ BytesBy(p, batch) = 0
           /\ BytesBy(p, queue) \in Nat /\ BytesBy(p, batch) \in Nat
           /\ BytesBy(p, queue) <= BytesOf(queue) /\ BytesBy(p, batch) <= BytesOf(batch)
  <1>1. HasRow(p) <=> \/ \E i \in DOMAIN queue : queue[i].by = p
                      \/ \E i \in DOMAIN batch : batch[i].by = p
    BY RowsAreRows DEF HasRow, Queued, Taken, Outcomes
  <1>2. /\ queue \in Seq(Row) /\ batch \in Seq(Row)
        /\ \A i, j \in DOMAIN queue : queue[i].by = queue[j].by => i = j
        /\ \A i, j \in DOMAIN batch : batch[i].by = batch[j].by => i = j
    BY DEF AuditInv, Shape, RowsSound
  <1>3. /\ (\A i \in DOMAIN queue : queue[i].by # p) => BytesBy(p, queue) = 0
        /\ BytesBy(p, queue) \in Nat /\ BytesBy(p, queue) <= BytesOf(queue)
    BY <1>2, BytesByOne
  <1>4. /\ (\A i \in DOMAIN batch : batch[i].by # p) => BytesBy(p, batch) = 0
        /\ BytesBy(p, batch) \in Nat /\ BytesBy(p, batch) <= BytesOf(batch)
    BY <1>2, BytesByOne
  <1> QED  BY <1>1, <1>3, <1>4

LEMMA ReservedIsTotalNext == (Shape => ReservedSum = Total(Weights, Holders))'
  <1>1. Shape => ReservedSum = Total(Weights, Holders)
    BY ReservedIsTotal
  <1> QED  BY <1>1, PTL

LEMMA OwnedByOne ==
    /\ oversizedOwner = Nobody => OwnedBytes = 0
    /\ \A p \in Producers : oversizedOwner = p =>
         OwnedBytes = Share(p) + BytesBy(p, queue) + BytesBy(p, batch)
  BY LedgerAssumption DEF OwnedBytes

LEMMA OwnedByOneNext ==
    /\ oversizedOwner' = Nobody => OwnedBytes' = 0
    /\ \A p \in Producers : oversizedOwner' = p =>
         OwnedBytes' = Share(p)' + BytesBy(p, queue') + BytesBy(p, batch')
  <1>1. (/\ oversizedOwner = Nobody => OwnedBytes = 0
         /\ \A p \in Producers : oversizedOwner = p =>
              OwnedBytes = Share(p) + BytesBy(p, queue) + BytesBy(p, batch))'
    BY OwnedByOne, PTL
  <1> QED  BY <1>1

(* For the accounts the ticket is what it was.                             *)
Alike(p) ==
    /\ Counted(p)' <=> Counted(p)
    /\ Counted(p) => /\ ticket'[p].reserved = ticket[p].reserved
                     /\ ticket'[p].oversized = ticket[p].oversized
    /\ SizeSound(p)'

(* A step that takes nothing and gives nothing back.                       *)
LEMMA SameAccounts ==
    ASSUME AuditInv, AuditInv', AccountsInv,
           UNCHANGED <<queue, batch, counters, oversizedOwner>>,
           \A p \in Producers : Alike(p),
           LineSound', FrameBounded'
    PROVE  AccountsInv'
  <1>1. Holders' = Holders /\ IsFiniteSet(Holders) /\ Shape /\ Shape'
    BY LedgerAssumption, FS_Subset DEF Holders, Alike, AuditInv
  <1>2. ReservedSum' = ReservedSum
    <2>1. \A p \in Producers : Weights[p] = ticket[p].reserved /\ Weights[p] \in Nat
      BY <1>1 DEF Weights, Shape, Ticket
    <2>2. \A p \in Holders : Weights'[p] = Weights[p] /\ Weights[p] \in Nat
      BY <2>1 DEF Weights, Holders, Alike
    <2>3. Total(Weights', Holders) = Total(Weights, Holders)
      BY <1>1, <2>2, TotalSame
    <2>4. ReservedSum' = Total(Weights', Holders') /\ ReservedSum = Total(Weights, Holders)
      BY <1>1, ReservedIsTotal, ReservedIsTotalNext
    <2> QED  BY <1>1, <2>3, <2>4
  <1>3. CountersSound'
    BY <1>2 DEF AccountsInv, CountersSound
  <1>4. OwnerSound'
    BY DEF AccountsInv, OwnerSound, Alike, HasRow, Queued, Taken
  <1>5. InFlightBounded'
    <2>1. OwnedBytes' = OwnedBytes
      <3>1. oversizedOwner \in Producers \cup {Nobody}
        BY DEF AccountsInv, OwnerSound
      <3>2. \A p \in Producers : Share(p)' = Share(p)
        BY DEF Share, Alike
      <3> QED  BY <3>1, <3>2 DEF OwnedBytes
    <2> QED  BY <2>1 DEF AccountsInv, InFlightBounded, InFlightBytes, InFlightItems
  <1> QED  BY <1>3, <1>4, <1>5 DEF AccountsInv, Alike

(* One thread takes or gives back.  Exclusive ownership stays where it is, *)
(* or comes to the thread, or leaves it with the ticket.                   *)
OwnerMoves(p) ==
    \/ /\ oversizedOwner' = oversizedOwner
       /\ oversizedOwner = p /\ Counted(p)' => ticket'[p].oversized
       /\ oversizedOwner = p /\ Counted(p) => Counted(p)'
       /\ Share(p)' <= Share(p) \/ oversizedOwner = p \/ InFlightBytes' <= MaxTotalBytes
    \/ /\ oversizedOwner' = p /\ oversizedOwner \in {Nobody, p}
       /\ Counted(p)' /\ ticket'[p].oversized
    \/ /\ oversizedOwner' = Nobody /\ oversizedOwner = p
       /\ Counted(p) /\ ~Counted(p)'

CountersMove(p) ==
    /\ counters' \in [admittedItems : Int, reservedBytes : Int, activeProducers : Int,
                      queueBytes : Int, committingItems : Int, committingBytes : Int]
    /\ counters'.admittedItems = counters'.activeProducers
    /\ counters'.reservedBytes = counters.reservedBytes - Share(p) + Share(p)'
    /\ UNCHANGED <<counters.queueBytes, counters.committingItems, counters.committingBytes>>
    /\ \/ counters'.admittedItems <= counters.admittedItems
       \/ InFlightItems' <= MaxItems

LEMMA OneAccount ==
    ASSUME AuditInv, AuditInv', AccountsInv, NEW p \in Producers,
           \A q \in Producers \ {p} : ticket'[q] = ticket[q],
           UNCHANGED <<queue, batch>>,
           CountersMove(p), OwnerMoves(p), SizeSound(p)', LineSound', FrameBounded',
           ticket'[p].at = "leaving" /\ Counted(p)' => Counted(p)
    PROVE  AccountsInv'
  <1>1. /\ ReservedSum' = ReservedSum - Share(p) + Share(p)'
        /\ ReservedSum' \in Nat /\ ReservedSum \in Nat
        /\ Share(p)' \in Nat /\ Share(p) \in Nat
    BY ReservedMoves DEF AuditInv
  <1>2. CountersSound /\ OwnerSound
    BY DEF AccountsInv
  <1>3. CountersSound'
    <2>1. counters'.activeProducers \in Nat
      <3>1. IsFiniteSet(Holders')
        BY LedgerAssumption, FS_Subset DEF Holders
      <3> QED  BY <3>1, FS_CardinalityType DEF AuditInv, ShutdownSound
    <2>2. counters'.reservedBytes = ReservedSum'
      BY <1>1, <1>2 DEF CountersMove, CountersSound
    <2>3. /\ counters'.queueBytes = counters.queueBytes
          /\ counters'.committingItems = counters.committingItems
          /\ counters'.committingBytes = counters.committingBytes
          /\ counters'.admittedItems = counters'.activeProducers
      BY DEF CountersMove
    <2>4. counters' \in [admittedItems : Nat, reservedBytes : Nat, activeProducers : Nat,
                     queueBytes : Nat, committingItems : Nat, committingBytes : Nat]
      BY <1>1, <1>2, <2>1, <2>2, <2>3, CountingTypes DEF CountersMove
    <2> QED  BY <1>2, <2>2, <2>3, <2>4 DEF CountersSound
  <1>4. \A q \in Producers : HasRow(q)' <=> HasRow(q)
    BY DEF HasRow, Queued, Taken
  <1>5. \A q \in Producers \ {p} : (Counted(q)' <=> Counted(q)) /\ Share(q)' = Share(q)
    BY DEF Counted, Share
  <1>6. HasRow(p)' => ~Counted(p)'
    <2> SUFFICES ASSUME HasRow(p)', Counted(p)' PROVE FALSE
      OBVIOUS
    <2>1. ticket'[p].at \in {"queued", "leaving", "none"}
      BY DEF HasRow, AuditInv, RowsSound, Outcomes
    <2>2. ticket'[p].at = "leaving"
      BY <2>1 DEF Counted, AuditInv, TicketSound
    <2> QED  BY <1>2, <1>4, <2>2 DEF OwnerSound
  <1>7. OwnerSound'
    <2>1. \A q \in Producers : HasRow(q)' => ~Counted(q)'
      BY <1>2, <1>4, <1>5, <1>6 DEF OwnerSound
    <2>2. oversizedOwner' \in Producers \cup {Nobody}
      BY <1>2 DEF OwnerSound, OwnerMoves
    <2>3. \A q \in Producers : oversizedOwner' = q /\ Counted(q)' => ticket'[q].oversized
      BY <1>2, <1>5, LedgerAssumption DEF OwnerSound, OwnerMoves
    <2>4. \A q \in Producers : oversizedOwner' = q => Counted(q)' \/ HasRow(q)'
      BY <1>2, <1>4, <1>5, LedgerAssumption DEF OwnerSound, OwnerMoves
    <2>5. /\ \A i \in DOMAIN queue' : queue'[i].by = oversizedOwner' => queue'[i].oversized
          /\ \A i \in DOMAIN batch' : batch'[i].by = oversizedOwner' => batch'[i].oversized
      <3>1. CASE oversizedOwner' = oversizedOwner
        BY <1>2, <3>1 DEF OwnerSound
      <3>2. CASE oversizedOwner' = p /\ Counted(p)'
        <4>1. ~HasRow(p)
          BY <1>4, <1>6, <3>2
        <4> QED  BY <3>2, <4>1, RowsHaveBytes
      <3>3. CASE oversizedOwner' = Nobody
        <4>1. \A i \in DOMAIN queue : queue[i].by # Nobody
          BY RowsAreRows, LedgerAssumption
        <4>2. \A i \in DOMAIN batch : batch[i].by # Nobody
          BY RowsAreRows, LedgerAssumption
        <4> QED  BY <3>3, <4>1, <4>2
      <3> QED  BY <3>1, <3>2, <3>3 DEF OwnerMoves
    <2> QED  BY <2>1, <2>2, <2>3, <2>4, <2>5 DEF OwnerSound
  <1>8. InFlightBounded'
    <2> DEFINE F == InFlightBytes
               rows(q) == BytesBy(q, queue) + BytesBy(q, batch)
    <2>1. /\ F \in Nat /\ counters.queueBytes \in Nat /\ counters.committingBytes \in Nat
          /\ counters.reservedBytes \in Nat
      BY <1>2, CountingTypes
    <2>2. F' = F - Share(p) + Share(p)' /\ F' \in Int
      BY <1>1, <2>1 DEF CountersMove, InFlightBytes
    <2>3. \A q \in Producers : rows(q) \in Nat /\ Share(q) \in Nat /\ Share(q)' \in Nat
      <3>1. \A q \in Producers : rows(q) \in Nat
        BY RowsHaveBytes
      <3>2. \A q \in Producers : Share(q) \in Nat
        BY ReservedOf DEF AuditInv
      <3> QED  BY <1>1, <1>5, <3>1, <3>2
    <2>4. /\ oversizedOwner = Nobody => OwnedBytes = 0
          /\ oversizedOwner' = Nobody => OwnedBytes' = 0
          /\ \A q \in Producers : oversizedOwner = q => OwnedBytes = Share(q) + rows(q)
          /\ \A q \in Producers : oversizedOwner' = q => OwnedBytes' = Share(q)' + rows(q)
      <3>1. \A q \in Producers :
               BytesBy(q, queue) \in Nat /\ BytesBy(q, batch) \in Nat
        BY RowsHaveBytes
      <3>2. \A q \in Producers : oversizedOwner = q =>
               OwnedBytes = Share(q) + BytesBy(q, queue) + BytesBy(q, batch)
        BY OwnedByOne
      <3>3. \A q \in Producers : oversizedOwner' = q =>
               OwnedBytes' = Share(q)' + BytesBy(q, queue) + BytesBy(q, batch)
        BY OwnedByOneNext
      <3> QED  BY <2>3, <3>1, <3>2, <3>3, OwnedByOne, OwnedByOneNext
    <2>5. F - OwnedBytes <= MaxTotalBytes /\ MaxTotalBytes \in Nat
      BY LedgerAssumption DEF AccountsInv, InFlightBounded
    <2>6. /\ oversizedOwner \in Producers \cup {Nobody} /\ Nobody \notin Producers
          /\ Counted(p) => rows(p) = 0
          /\ ~Counted(p)' => Share(p)' = 0
      BY <1>2, RowsHaveBytes, LedgerAssumption DEF OwnerSound, Share
    <2>7. \A q \in Producers \ {p} : Share(q)' = Share(q)
      BY <1>5
    <2> HIDE DEF F, rows
    <2>8. F' - OwnedBytes' <= MaxTotalBytes
      <3>1. CASE oversizedOwner' = oversizedOwner
        <4>1. CASE oversizedOwner = Nobody
          BY <1>1, <2>2, <2>1, <2>4, <2>5, <2>6, <3>1, <4>1 DEF OwnerMoves, F
        <4>2. CASE oversizedOwner = p
          BY <1>1, <2>1, <2>2, <2>3, <2>4, <2>5, <2>6, <3>1, <4>2
        <4>3. CASE oversizedOwner \in Producers \ {p}
          BY <1>1, <2>1, <2>2, <2>3, <2>4, <2>5, <2>6, <2>7, <3>1, <4>3 DEF OwnerMoves, F
        <4> QED  BY <2>6, <4>1, <4>2, <4>3
      <3>2. CASE oversizedOwner' = p /\ oversizedOwner = Nobody
        BY <1>1, <2>1, <2>2, <2>3, <2>4, <2>5, <2>6, <3>2
      <3>3. CASE oversizedOwner' = Nobody /\ oversizedOwner = p /\ Counted(p) /\ ~Counted(p)'
        BY <1>1, <2>1, <2>2, <2>3, <2>4, <2>5, <2>6, <3>3
      <3> QED  BY <3>1, <3>2, <3>3 DEF OwnerMoves
    <2>9. InFlightItems' <= MaxItems
      <3>1. InFlightItems <= MaxItems /\ MaxItems \in Nat
        BY LedgerAssumption DEF AccountsInv, InFlightBounded
      <3>2. counters'.admittedItems \in Int /\ counters'.committingItems = counters.committingItems
        BY DEF CountersMove
      <3>3. CASE counters'.admittedItems <= counters.admittedItems
        BY <1>2, <3>1, <3>2, <3>3, CountingTypes DEF InFlightItems
      <3> QED  BY <3>3 DEF CountersMove
    <2> QED  BY <2>8, <2>9 DEF InFlightBounded, F
  <1>9. \A q \in Producers : SizeSound(q)'
    BY DEF AccountsInv, SizeSound
  <1> QED  BY <1>3, <1>7, <1>8, <1>9 DEF AccountsInv

-----------------------------------------------------------------------------
(* The operations of a ticket: where a ticket keeps what it holds, only    *)
(* its own sizes and the line can change.                                  *)
LEMMA LineKept ==
    ASSUME LineSound, expansionWaiters' = expansionWaiters,
           \A q \in Producers : ticket'[q].at = "waiting" <=> ticket[q].at = "waiting"
    PROVE  LineSound'
  BY DEF LineSound

LEMMA OneAlike ==
    ASSUME AuditInv, AuditInv', AccountsInv, NEW p \in Producers,
           \A q \in Producers \ {p} : ticket'[q] = ticket[q], Alike(p),
           UNCHANGED <<queue, batch, counters, oversizedOwner>>,
           LineSound', FrameBounded'
    PROVE  AccountsInv'
  <1>1. \A q \in Producers : Alike(q)
    BY DEF AccountsInv, SizeSound, Alike, Counted
  <1> QED  BY <1>1, SameAccounts

LEMMA StillAlike ==
    ASSUME AuditInv, AuditInv', AccountsInv,
           UNCHANGED <<ticket, queue, batch, counters, oversizedOwner, expansionWaiters>>,
           FrameBounded'
    PROVE  AccountsInv'
  <1>1. \A q \in Producers : Alike(q)
    BY DEF AccountsInv, SizeSound, Alike, Counted
  <1>2. LineSound'
    BY LineKept DEF AccountsInv
  <1> QED  BY <1>1, <1>2, SameAccounts

LEMMA AskAccounts ==
    ASSUME AuditInv, AuditInv', AccountsInv, FrameBounded',
           NEW p \in Producers, NEW load \in Payloads, Ask(p, load)
    PROVE  AccountsInv'
  <1> DEFINE t == [NoTicket EXCEPT !.at = "asking", !.load = load]
  <1>1. t.at = "asking" /\ t.load = load
    BY DEF NoTicket
  <1>2. ticket' = [ticket EXCEPT ![p] = t] /\ ticket \in [Producers -> Ticket]
    BY DEF Ask, AuditInv, Shape
  <1> HIDE DEF t
  <1>3. ticket'[p] = t /\ \A q \in Producers \ {p} : ticket'[q] = ticket[q]
    BY <1>2
  <1>4. Alike(p)
    <2>1. ~Counted(p) /\ ~Counted(p)'
      BY <1>1, <1>3 DEF Ask, Counted
    <2>2. load.actual <= load.needed
      BY LedgerAssumption
    <2>3. SizeSound(p)'
      BY <1>1, <1>3, <2>2 DEF SizeSound
    <2> QED  BY <2>1, <2>3 DEF Alike
  <1>5. LineSound'
    BY <1>1, <1>3, LineKept DEF Ask, AccountsInv
  <1> QED  BY <1>3, <1>4, <1>5, OneAlike DEF Ask

(* A ticket that is spent, or was never given.                             *)
LEMMA NoTicketIsSmall ==
    ASSUME NEW answer, NEW t, t = [NoTicket EXCEPT !.answer = answer]
    PROVE  /\ t.at = "none" /\ t.load.actual <= t.load.needed
  BY DEF NoTicket

LEMMA RefuseAccounts ==
    ASSUME AuditInv, AuditInv', AccountsInv, FrameBounded',
           NEW p \in Producers, RefuseAdmission(p)
    PROVE  AccountsInv'
  <1> DEFINE t == [NoTicket EXCEPT !.answer = "refused"]
  <1>1. t.at = "none" /\ t.load.actual <= t.load.needed
    BY NoTicketIsSmall
  <1>2. ticket' = [ticket EXCEPT ![p] = t] /\ ticket \in [Producers -> Ticket]
    BY DEF RefuseAdmission, AuditInv, Shape
  <1> HIDE DEF t
  <1>3. ticket'[p] = t /\ \A q \in Producers \ {p} : ticket'[q] = ticket[q]
    BY <1>2
  <1>4. Alike(p)
    <2>1. ~Counted(p) /\ ~Counted(p)'
      BY <1>1, <1>3 DEF RefuseAdmission, Counted
    <2>2. SizeSound(p)'
      BY <1>1, <1>3 DEF SizeSound
    <2> QED  BY <2>1, <2>2 DEF Alike
  <1>5. LineSound'
    BY <1>1, <1>3, LineKept DEF RefuseAdmission, AccountsInv
  <1> QED  BY <1>3, <1>4, <1>5, OneAlike DEF RefuseAdmission

LEMMA BeginRecordAccounts ==
    ASSUME AuditInv, AuditInv', AccountsInv, FrameBounded',
           NEW p \in Producers, NEW what \in Outcomes, BeginRecord(p, what)
    PROVE  AccountsInv'
  <1> DEFINE wanted == Max({ticket[p].reserved, ticket[p].load.needed})
             t == [ticket[p] EXCEPT !.at = "recording", !.what = what, !.wanted = wanted,
                                    !.expansion = wanted - ticket[p].reserved]
  <1>1. /\ ticket \in [Producers -> Ticket] /\ ticket[p] \in Ticket
        /\ ticket[p].reserved \in Nat /\ ticket[p].load.needed \in Nat
    BY DEF AuditInv, Shape, Ticket, Payload
  <1>2. wanted \in Nat /\ wanted >= ticket[p].load.needed
    BY <1>1, LargerOfTwo
  <1>3. ticket' = [ticket EXCEPT ![p] = t]
    BY <1>1 DEF BeginRecord
  <1> HIDE DEF wanted
  <1>4. /\ t.at = "recording" /\ t.wanted = wanted /\ t.expansion = wanted - ticket[p].reserved
        /\ t.reserved = ticket[p].reserved /\ t.load = ticket[p].load
        /\ t.oversized = ticket[p].oversized /\ t.transferred = ticket[p].transferred
    BY <1>1 DEF Ticket
  <1> HIDE DEF t
  <1>5. ticket'[p] = t /\ \A q \in Producers \ {p} : ticket'[q] = ticket[q]
    BY <1>1, <1>3
  <1>6. Alike(p)
    <2>1. Counted(p)' <=> Counted(p)
      BY <1>4, <1>5 DEF BeginRecord, Counted
    <2>2. ticket[p].load.actual <= ticket[p].load.needed
      BY DEF AccountsInv, SizeSound
    <2>3. SizeSound(p)'
      BY <1>1, <1>2, <1>4, <1>5, <2>2 DEF SizeSound
    <2> QED  BY <1>4, <1>5, <2>1, <2>3 DEF Alike
  <1>7. LineSound'
    BY <1>4, <1>5, LineKept DEF BeginRecord, AccountsInv
  <1> QED  BY <1>5, <1>6, <1>7, OneAlike DEF BeginRecord

LEMMA ProceedAccounts ==
    ASSUME AuditInv, AuditInv', AccountsInv, FrameBounded',
           NEW p \in Producers, ProceedAsIs(p)
    PROVE  AccountsInv'
  <1> DEFINE t == [ticket[p] EXCEPT !.at = "granted"]
  <1>1. ticket \in [Producers -> Ticket] /\ ticket[p] \in Ticket
    BY DEF AuditInv, Shape
  <1>2. ticket' = [ticket EXCEPT ![p] = t]
    BY <1>1 DEF ProceedAsIs
  <1>3. /\ t.at = "granted" /\ t.reserved = ticket[p].reserved /\ t.load = ticket[p].load
        /\ t.oversized = ticket[p].oversized /\ t.transferred = ticket[p].transferred
    BY <1>1 DEF Ticket
  <1> HIDE DEF t
  <1>4. ticket'[p] = t /\ \A q \in Producers \ {p} : ticket'[q] = ticket[q]
    BY <1>1, <1>2
  <1>5. /\ ticket[p].reserved \in Nat /\ ticket[p].wanted = ticket[p].reserved + 0
        /\ ticket[p].wanted >= ticket[p].load.needed
        /\ ticket[p].load.actual <= ticket[p].load.needed
    BY <1>1 DEF Ticket, AccountsInv, SizeSound, ProceedAsIs, NothingToGrow
  <1>6. Alike(p)
    <2>1. Counted(p)' <=> Counted(p)
      BY <1>3, <1>4 DEF ProceedAsIs, Counted
    <2>2. SizeSound(p)'
      BY <1>3, <1>4, <1>5 DEF SizeSound
    <2> QED  BY <1>3, <1>4, <2>1, <2>2 DEF Alike
  <1>7. LineSound'
    BY <1>3, <1>4, LineKept DEF ProceedAsIs, AccountsInv
  <1> QED  BY <1>4, <1>6, <1>7, OneAlike DEF ProceedAsIs

(* Leaving, with what is still reserved.                                   *)
LEMMA LeaveAlike ==
    ASSUME AuditInv, AccountsInv, NEW p \in Producers, NEW answer, Leave(p, answer),
           ticket[p].at \in Filing \cup {"queued"}
    PROVE  /\ Alike(p) /\ ticket'[p].at = "leaving"
           /\ \A q \in Producers \ {p} : ticket'[q] = ticket[q]
  <1> DEFINE t == [ticket[p] EXCEPT !.at = "leaving", !.answer = answer]
  <1>1. ticket \in [Producers -> Ticket] /\ ticket[p] \in Ticket
    BY DEF AuditInv, Shape
  <1>2. ticket' = [ticket EXCEPT ![p] = t]
    BY <1>1 DEF Leave
  <1>3. /\ t.at = "leaving" /\ t.reserved = ticket[p].reserved /\ t.load = ticket[p].load
        /\ t.oversized = ticket[p].oversized /\ t.transferred = ticket[p].transferred
    BY <1>1 DEF Ticket
  <1> HIDE DEF t
  <1>4. ticket'[p] = t /\ \A q \in Producers \ {p} : ticket'[q] = ticket[q]
    BY <1>1, <1>2
  <1>5. Counted(p)' <=> Counted(p)
    BY <1>3, <1>4 DEF Counted, Filing
  <1>6. SizeSound(p)'
    BY <1>3, <1>4 DEF AccountsInv, SizeSound
  <1> QED  BY <1>3, <1>4, <1>5, <1>6 DEF Alike

LEMMA LeaveAccounts ==
    ASSUME AuditInv, AuditInv', AccountsInv, FrameBounded',
           NEW p \in Producers, PersistDirect(p) \/ FailDirect(p) \/ Despair(p)
    PROVE  AccountsInv'
  <1>1. PICK answer \in Answers : Leave(p, answer)
    BY DEF PersistDirect, FailDirect, Despair, Answers
  <1>2. /\ ticket[p].at \in {"direct", "queued"}
        /\ UNCHANGED <<queue, batch, counters, oversizedOwner, expansionWaiters>>
    BY DEF PersistDirect, FailDirect, Despair
  <1>3. /\ Alike(p) /\ ticket'[p].at = "leaving"
        /\ \A q \in Producers \ {p} : ticket'[q] = ticket[q]
    BY <1>1, <1>2, LeaveAlike DEF Filing
  <1>4. LineSound'
    BY <1>2, <1>3, LineKept DEF AccountsInv
  <1> QED  BY <1>2, <1>3, <1>4, OneAlike

-----------------------------------------------------------------------------
(* The line, and the two steps that make a ticket larger.                  *)
LEMMA Joined ==
    ASSUME NEW S, NEW a \in Seq(S), NEW b \in Seq(S), NEW k \in 1 .. Len(a) + Len(b)
    PROVE  (a \o b)[k] = IF k <= Len(a) THEN a[k] ELSE b[k - Len(a)]
  OBVIOUS

LEMMA RemovedAt ==
    ASSUME NEW S, NEW s \in Seq(S), NEW i \in DOMAIN s
    PROVE  /\ RemoveAt(s, i) \in Seq(S) /\ DOMAIN RemoveAt(s, i) = 1 .. Len(s) - 1
           /\ \A k \in 1 .. Len(s) - 1 :
                RemoveAt(s, i)[k] = IF k < i THEN s[k] ELSE s[k + 1]
  <1> DEFINE a == SubSeq(s, 1, i - 1)
             b == SubSeq(s, i + 1, Len(s))
  <1>1. i \in 1 .. Len(s) /\ Len(s) \in Nat
    OBVIOUS
  <1>2. /\ a \in Seq(S) /\ Len(a) = i - 1
        /\ \A k \in 1 .. i - 1 : a[k] = s[k]
    BY <1>1, PartOf
  <1>3. /\ b \in Seq(S) /\ Len(b) = Len(s) - i
        /\ \A k \in 1 .. Len(s) - i : b[k] = s[i + k]
    BY <1>1, PartOf
  <1>4. RemoveAt(s, i) = a \o b
    BY DEF RemoveAt
  <1> HIDE DEF a, b
  <1>5. a \o b \in Seq(S) /\ Len(a \o b) = Len(s) - 1 /\ DOMAIN (a \o b) = 1 .. Len(s) - 1
    BY <1>1, <1>2, <1>3
  <1>6. ASSUME NEW k \in 1 .. Len(s) - 1
        PROVE  (a \o b)[k] = IF k < i THEN s[k] ELSE s[k + 1]
    <2>1. CASE k < i
      <3>1. (a \o b)[k] = a[k]
        BY <1>1, <1>2, <1>3, <2>1
      <3> QED  BY <1>1, <1>2, <2>1, <3>1
    <2>2. CASE ~(k < i)
      <3>1. (a \o b)[k] = b[k - (i - 1)]
        <4>1. k \in 1 .. Len(a) + Len(b) /\ ~(k <= Len(a)) /\ Len(a) = i - 1
          BY <1>1, <1>2, <1>3, <2>2
        <4> QED  BY <1>2, <1>3, <4>1, Joined
      <3>2. k - (i - 1) \in 1 .. Len(s) - i /\ i + (k - (i - 1)) = k + 1
        BY <1>1, <2>2
      <3> QED  BY <1>3, <2>2, <3>1, <3>2
    <2> QED  BY <2>1, <2>2
  <1> QED  BY <1>4, <1>5, <1>6

LEMMA RemovedFirst ==
    ASSUME NEW S, NEW s \in Seq(S), NEW i \in DOMAIN s,
           \A j, k \in DOMAIN s : s[j] = s[k] => j = k
    PROVE  RemoveFirst(s, s[i]) = RemoveAt(s, i)
  <1>1. {j \in 1 .. Len(s) : s[j] = s[i]} = {i}
    OBVIOUS
  <1>2. i \in Nat /\ Min({i}) = i
    BY DEF Min
  <1>3. SelectInSeq(s, LAMBDA v : v = s[i]) = i
    BY <1>1, <1>2 DEF SelectInSeq
  <1> QED  BY <1>3 DEF RemoveFirst

(* The line without one who stood in it.                                   *)
LEMMA LineWithout ==
    ASSUME LineSound, NEW p \in Producers, ticket[p].at = "waiting",
           ticket'[p].at # "waiting",
           \A q \in Producers \ {p} : ticket'[q] = ticket[q],
           NEW i \in DOMAIN expansionWaiters, expansionWaiters[i] = p,
           expansionWaiters' = RemoveAt(expansionWaiters, i)
    PROVE  LineSound'
  <1> DEFINE s == expansionWaiters
             s2 == RemoveAt(expansionWaiters, i)
  <1>1. /\ s \in Seq(Producers) /\ Len(s) \in Nat /\ DOMAIN s = 1 .. Len(s)
        /\ \A j, k \in DOMAIN s : s[j] = s[k] => j = k
        /\ \A q \in Producers : ticket[q].at = "waiting" <=> \E j \in DOMAIN s : s[j] = q
    BY DEF LineSound
  <1>2. /\ s2 \in Seq(Producers) /\ DOMAIN s2 = 1 .. Len(s) - 1
        /\ \A k \in 1 .. Len(s) - 1 : s2[k] = IF k < i THEN s[k] ELSE s[k + 1]
    BY <1>1, RemovedAt
  <1>3. i \in 1 .. Len(s) /\ s[i] = p
    OBVIOUS
  <1> HIDE DEF s, s2
  <1>4. \A j, k \in DOMAIN s2 : s2[j] = s2[k] => j = k
    <2>1. \A k \in DOMAIN s2 : k \in DOMAIN s /\ k + 1 \in DOMAIN s
      BY <1>1, <1>2
    <2>2. SUFFICES ASSUME NEW j \in DOMAIN s2, NEW k \in DOMAIN s2, s2[j] = s2[k]
                   PROVE  j = k
      OBVIOUS
    <2>3. (IF j < i THEN j ELSE j + 1) = (IF k < i THEN k ELSE k + 1)
      BY <1>1, <1>2, <2>1, <2>2
    <2> QED  BY <1>1, <1>2, <1>3, <2>3
  <1>5. ASSUME NEW q \in Producers
        PROVE  ticket'[q].at = "waiting" <=> \E j \in DOMAIN s2 : s2[j] = q
    <2>1. CASE q = p
      <3>1. ASSUME NEW j \in DOMAIN s2, s2[j] = p
            PROVE  FALSE
        <4>1. (IF j < i THEN j ELSE j + 1) \in DOMAIN s
          BY <1>1, <1>2
        <4>2. (IF j < i THEN j ELSE j + 1) = i
          BY <1>1, <1>2, <1>3, <3>1, <4>1
        <4> QED  BY <1>1, <1>2, <1>3, <4>2
      <3> QED  BY <2>1, <3>1
    <2>2. CASE q # p
      <3>1. ticket'[q].at = "waiting" <=> \E j \in DOMAIN s : s[j] = q
        BY <1>1, <2>2
      <3>2. ASSUME NEW j \in DOMAIN s, s[j] = q
            PROVE  \E k \in DOMAIN s2 : s2[k] = q
        <4>1. j # i
          BY <1>3, <2>2, <3>2
        <4>2. CASE j < i
          <5>1. j \in DOMAIN s2 /\ s2[j] = q
            BY <1>1, <1>2, <1>3, <3>2, <4>2
          <5> QED  BY <5>1
        <4>3. CASE j > i
          <5>1. j - 1 \in DOMAIN s2 /\ s2[j - 1] = q
            BY <1>1, <1>2, <1>3, <3>2, <4>3
          <5> QED  BY <5>1
        <4> QED  BY <1>1, <1>3, <4>1, <4>2, <4>3
      <3>3. ASSUME NEW k \in DOMAIN s2, s2[k] = q
            PROVE  \E j \in DOMAIN s : s[j] = q
        <4>1. k \in DOMAIN s /\ k + 1 \in DOMAIN s
          BY <1>1, <1>2
        <4> QED  BY <1>2, <3>3, <4>1
      <3> QED  BY <3>1, <3>2, <3>3
    <2> QED  BY <2>1, <2>2
  <1> QED  BY <1>2, <1>4, <1>5 DEF LineSound, s, s2

LEMMA GiveUpAccounts ==
    ASSUME AuditInv, AuditInv', AccountsInv, FrameBounded',
           NEW p \in Producers, GiveUp(p)
    PROVE  AccountsInv'
  <1>1. /\ ticket[p].at \in {"recording", "waiting"} /\ Leave(p, "refused")
        /\ expansionWaiters' = RemoveFirst(expansionWaiters, p)
        /\ UNCHANGED <<queue, batch, counters, oversizedOwner>> /\ LineSound
    BY DEF GiveUp, AccountsInv
  <1>2. /\ Alike(p) /\ ticket'[p].at = "leaving"
        /\ \A q \in Producers \ {p} : ticket'[q] = ticket[q]
    BY <1>1, LeaveAlike DEF Filing
  <1>3. LineSound'
    <2>1. CASE ticket[p].at = "waiting"
      <3>1. PICK i \in DOMAIN expansionWaiters : expansionWaiters[i] = p
        BY <1>1, <2>1 DEF LineSound
      <3>2. expansionWaiters' = RemoveAt(expansionWaiters, i)
        BY <1>1, <3>1, RemovedFirst DEF LineSound
      <3> QED  BY <1>1, <1>2, <2>1, <3>1, <3>2, LineWithout
    <2>2. CASE ticket[p].at # "waiting"
      <3>1. expansionWaiters' = expansionWaiters
        BY <1>1, <2>2 DEF LineSound, RemoveFirst
      <3> QED  BY <1>1, <1>2, <2>2, <3>1, LineKept
    <2> QED  BY <2>1, <2>2
  <1> QED  BY <1>1, <1>2, <1>3, OneAlike

LEMMA TailIsRest ==
    ASSUME NEW S, NEW s \in Seq(S), s # <<>>
    PROVE  Tail(s) = RemoveAt(s, 1)
  <1>1. 1 \in DOMAIN s /\ Len(s) \in Nat
    OBVIOUS
  <1>2. /\ RemoveAt(s, 1) \in Seq(S) /\ DOMAIN RemoveAt(s, 1) = 1 .. Len(s) - 1
        /\ \A k \in 1 .. Len(s) - 1 :
             RemoveAt(s, 1)[k] = IF k < 1 THEN s[k] ELSE s[k + 1]
    BY <1>1, RemovedAt
  <1>3. /\ Tail(s) \in Seq(S) /\ DOMAIN Tail(s) = 1 .. Len(s) - 1
        /\ \A k \in 1 .. Len(s) - 1 : Tail(s)[k] = s[k + 1]
    OBVIOUS
  <1> QED  BY <1>2, <1>3

LEMMA GrownAt ==
    ASSUME AuditInv, NEW p \in Producers, NEW extra, Grow(p, extra)
    PROVE  /\ ticket'[p].at = "granted"
           /\ \A q \in Producers \ {p} : ticket'[q] = ticket[q]
  <1> DEFINE big == ticket[p].oversized \/ Oversized(p)
             t == [ticket[p] EXCEPT !.at = "granted", !.reserved = ticket[p].wanted,
                                    !.oversized = big]
  <1>1. ticket \in [Producers -> Ticket] /\ ticket[p] \in Ticket
    BY DEF AuditInv, Shape
  <1>2. ticket' = [ticket EXCEPT ![p] = t]
    BY <1>1 DEF Grow
  <1>3. t.at = "granted"
    BY <1>1 DEF Ticket
  <1> HIDE DEF t
  <1> QED  BY <1>1, <1>2, <1>3

(* The counters that tickets change.                                       *)
LEMMA CountersChange ==
    ASSUME CountersSound, NEW items \in Int, NEW bytes \in Int, NEW producers \in Int,
           counters' = [counters EXCEPT !.admittedItems = items, !.reservedBytes = bytes,
                                        !.activeProducers = producers]
    PROVE  /\ counters'.admittedItems = items
           /\ counters'.reservedBytes = bytes
           /\ counters'.activeProducers = producers
           /\ counters'.queueBytes = counters.queueBytes
           /\ counters'.committingItems = counters.committingItems
           /\ counters'.committingBytes = counters.committingBytes
           /\ counters' \in [admittedItems : Int, reservedBytes : Int, activeProducers : Int,
                             queueBytes : Int, committingItems : Int, committingBytes : Int]
  <1> DEFINE c == [counters EXCEPT !.admittedItems = items]
             d == [c EXCEPT !.reservedBytes = bytes]
             e == [d EXCEPT !.activeProducers = producers]
             Kind == [admittedItems : Int, reservedBytes : Int, activeProducers : Int,
                      queueBytes : Int, committingItems : Int, committingBytes : Int]
  <1>1. counters \in Kind
    BY DEF CountersSound
  <1>2. /\ c \in Kind /\ c.admittedItems = items
        /\ c.queueBytes = counters.queueBytes /\ c.committingItems = counters.committingItems
        /\ c.committingBytes = counters.committingBytes
    BY <1>1
  <1>3. counters' = e
    BY <1>1
  <1> HIDE DEF c
  <1>4. /\ d \in Kind /\ d.admittedItems = items /\ d.reservedBytes = bytes
        /\ d.queueBytes = counters.queueBytes /\ d.committingItems = counters.committingItems
        /\ d.committingBytes = counters.committingBytes
    BY <1>2
  <1> HIDE DEF d
  <1>5. /\ e \in Kind /\ e.admittedItems = items /\ e.reservedBytes = bytes
        /\ e.activeProducers = producers
        /\ e.queueBytes = counters.queueBytes /\ e.committingItems = counters.committingItems
        /\ e.committingBytes = counters.committingBytes
    BY <1>4
  <1> HIDE DEF e
  <1> QED  BY <1>3, <1>5

LEMMA InFlightMoves ==
    ASSUME AuditInv, CountersSound, NEW items \in Int, NEW bytes \in Int,
           UNCHANGED <<queue, batch>>,
           counters'.admittedItems = items, counters'.reservedBytes = bytes,
           counters'.queueBytes = counters.queueBytes,
           counters'.committingItems = counters.committingItems,
           counters'.committingBytes = counters.committingBytes
    PROVE  /\ InFlightItems' = InFlightItems - counters.admittedItems + items
           /\ InFlightBytes' = InFlightBytes - counters.reservedBytes + bytes
           /\ InFlightItems \in Nat /\ InFlightBytes \in Nat
  <1>1. /\ counters.admittedItems \in Nat /\ counters.reservedBytes \in Nat
        /\ counters.queueBytes \in Nat /\ counters.committingBytes \in Nat
        /\ counters.committingItems \in Nat /\ Len(queue) \in Nat
        /\ InFlightItems \in Nat /\ InFlightBytes \in Nat
    BY CountingTypes
  <1>2. InFlightItems' = items + Len(queue) + counters.committingItems
    BY DEF InFlightItems
  <1>3. InFlightBytes' = bytes + counters.queueBytes + counters.committingBytes
    BY DEF InFlightBytes
  <1>4. InFlightItems = counters.admittedItems + Len(queue) + counters.committingItems
    BY DEF InFlightItems
  <1>5. InFlightBytes = counters.reservedBytes + counters.queueBytes + counters.committingBytes
    BY DEF InFlightBytes
  <1>6. InFlightItems' = InFlightItems - counters.admittedItems + items
    BY <1>1, <1>2, <1>4
  <1>7. InFlightBytes' = InFlightBytes - counters.reservedBytes + bytes
    BY <1>1, <1>3, <1>5
  <1> QED  BY <1>1, <1>6, <1>7

-----------------------------------------------------------------------------
(* Taking room and giving it back.                                         *)

LEMMA AdmitAccounts ==
    ASSUME AuditInv, AuditInv', AccountsInv, FrameBounded',
           NEW p \in Producers, Admit(p)
    PROVE  AccountsInv'
  <1> DEFINE asked == ticket[p].load.asked
             big == asked > MaxTotalBytes
             t == [ticket[p] EXCEPT !.at = "admitted", !.reserved = asked,
                     !.oversized = big]
  <1>1. /\ ticket \in [Producers -> Ticket] /\ ticket[p] \in Ticket /\ asked \in Nat
        /\ ticket[p].at = "asking" /\ ~ticket[p].transferred
    BY DEF AuditInv, Shape, Ticket, Payload, TicketSound, Admit
  <1>2. ticket' = [ticket EXCEPT ![p] = t]
    BY <1>1 DEF Admit
  <1>3. /\ t.at = "admitted" /\ t.reserved = asked /\ t.load = ticket[p].load
        /\ t.oversized = big /\ t.transferred = ticket[p].transferred
    BY <1>1 DEF Ticket
  <1> HIDE DEF t
  <1>4. ticket'[p] = t /\ \A q \in Producers \ {p} : ticket'[q] = ticket[q]
    BY <1>1, <1>2
  <1>5. /\ ~Counted(p) /\ Counted(p)' /\ Share(p) = 0 /\ Share(p)' = asked
    BY <1>1, <1>3, <1>4 DEF Counted, Share
  <1>6. /\ counters' = [counters EXCEPT !.admittedItems = @ + 1,
                                        !.reservedBytes = @ + asked,
                                        !.activeProducers = @ + 1]
        /\ CountersSound /\ HasCapacity(asked)
        /\ UNCHANGED <<queue, batch, expansionWaiters>>
    BY DEF Admit, AccountsInv
  <1> HIDE DEF asked
  <1>7. /\ counters'.admittedItems = counters.admittedItems + 1
        /\ counters'.reservedBytes = counters.reservedBytes + asked
        /\ counters'.activeProducers = counters.activeProducers + 1
        /\ counters'.queueBytes = counters.queueBytes
        /\ counters'.committingItems = counters.committingItems
        /\ counters'.committingBytes = counters.committingBytes
        /\ counters' \in [admittedItems : Int, reservedBytes : Int, activeProducers : Int,
                      queueBytes : Int, committingItems : Int, committingBytes : Int]
    <2>1. /\ counters.admittedItems + 1 \in Int /\ counters.activeProducers + 1 \in Int
          /\ counters.reservedBytes + asked \in Int
      <3>1. /\ counters.admittedItems \in Nat /\ counters.activeProducers \in Nat
            /\ counters.reservedBytes \in Nat
        BY <1>6, CountingTypes
      <3> QED  BY <1>1, <3>1
    <2> QED  BY <1>6, <2>1, CountersChange
  <1>8. InFlightItems' <= MaxItems
    <2>1. InFlightItems < MaxItems /\ MaxItems \in Nat
      BY <1>6, LedgerAssumption DEF HasCapacity
    <2>2. InFlightItems' = InFlightItems + 1 /\ InFlightItems \in Nat
      <3>1. counters.admittedItems \in Nat /\ counters.reservedBytes + asked \in Int
        BY <1>1, <1>6, CountingTypes
      <3>2. InFlightItems' = InFlightItems - counters.admittedItems + (counters.admittedItems + 1)
            /\ InFlightItems \in Nat
        BY <1>6, <1>7, <3>1, InFlightMoves
      <3> QED  BY <3>1, <3>2
    <2> QED  BY <2>1, <2>2
  <1>9. CountersMove(p)
    BY <1>1, <1>5, <1>6, <1>7, <1>8 DEF CountersMove, CountersSound
  <1>10. OwnerMoves(p)
    <2>1. oversizedOwner = Nobody /\ Nobody # p
      BY <1>6, LedgerAssumption DEF HasCapacity
    <2>2. CASE big
      BY <1>3, <1>4, <1>5, <2>1, <2>2 DEF OwnerMoves, Admit, asked
    <2>3. CASE ~big
      <3>1. InFlightBytes + asked <= MaxTotalBytes
        BY <1>6, <2>3 DEF HasCapacity
      <3>2. InFlightBytes' = InFlightBytes + asked
        <4>1. /\ counters.admittedItems + 1 \in Int /\ counters.reservedBytes \in Nat
              /\ counters.reservedBytes + asked \in Int
          BY <1>1, <1>6, CountingTypes
        <4>2. InFlightBytes' =
                InFlightBytes - counters.reservedBytes + (counters.reservedBytes + asked)
              /\ InFlightBytes \in Nat
          BY <1>6, <1>7, <4>1, InFlightMoves
        <4> QED  BY <1>1, <4>1, <4>2
      <3> QED  BY <2>1, <2>3, <3>1, <3>2 DEF OwnerMoves, Admit, asked
    <2> QED  BY <2>2, <2>3
  <1>11. SizeSound(p)'
    BY <1>3, <1>4 DEF AccountsInv, SizeSound
  <1>12. LineSound'
    BY <1>1, <1>3, <1>4, <1>6, LineKept DEF AccountsInv
  <1> QED  BY <1>3, <1>4, <1>6, <1>9, <1>10, <1>11, <1>12, OneAccount

(* A ticket is grown to what the record needs.                             *)
LEMMA GrowAccounts ==
    ASSUME AuditInv, AuditInv', AccountsInv, FrameBounded', LineSound',
           NEW p \in Producers, NEW extra \in Nat, Grow(p, extra),
           ticket[p].at \in {"recording", "waiting"},
           RoomFor(p, extra), ticket[p].wanted = ticket[p].reserved + extra,
           UNCHANGED <<queue, batch>>
    PROVE  AccountsInv'
  <1> DEFINE big == ticket[p].oversized \/ Oversized(p)
             t == [ticket[p] EXCEPT !.at = "granted", !.reserved = ticket[p].wanted,
                                    !.oversized = big]
  <1>1. /\ ticket \in [Producers -> Ticket] /\ ticket[p] \in Ticket
        /\ ticket[p].reserved \in Nat /\ ticket[p].wanted \in Nat
        /\ Counted(p) /\ ~ticket[p].transferred
    BY FilingIsRecording DEF Filing, Ticket
  <1>2. ticket' = [ticket EXCEPT ![p] = t]
    BY <1>1 DEF Grow
  <1>3. /\ t.at = "granted" /\ t.reserved = ticket[p].wanted /\ t.load = ticket[p].load
        /\ t.oversized = big /\ t.transferred = ticket[p].transferred
    BY <1>1 DEF Ticket
  <1> HIDE DEF t
  <1>4. ticket'[p] = t /\ \A q \in Producers \ {p} : ticket'[q] = ticket[q]
    BY <1>1, <1>2
  <1>5. Counted(p)' /\ Share(p) = ticket[p].reserved /\ Share(p)' = ticket[p].wanted
    BY <1>1, <1>3, <1>4 DEF Counted, Share
  <1>6. counters' = [counters EXCEPT !.reservedBytes = @ + extra] /\ CountersSound
    BY DEF Grow, AccountsInv
  <1>7. /\ counters'.admittedItems = counters.admittedItems
        /\ counters'.reservedBytes = counters.reservedBytes + extra
        /\ counters'.activeProducers = counters.activeProducers
        /\ counters'.queueBytes = counters.queueBytes
        /\ counters'.committingItems = counters.committingItems
        /\ counters'.committingBytes = counters.committingBytes
        /\ counters' \in [admittedItems : Int, reservedBytes : Int, activeProducers : Int,
                      queueBytes : Int, committingItems : Int, committingBytes : Int]
    BY <1>6 DEF CountersSound
  <1>8. CountersMove(p)
    <2>1. counters.admittedItems \in Nat /\ counters.reservedBytes \in Nat
      BY <1>6, CountingTypes
    <2> QED  BY <1>1, <1>5, <1>6, <1>7, <2>1 DEF CountersMove, CountersSound
  <1>9. OwnerMoves(p)
    <2>1. CASE Oversized(p)
      BY <1>3, <1>4, <1>5, <2>1 DEF OwnerMoves, Grow, RoomFor
    <2>2. CASE ~Oversized(p)
      <3>1. oversizedOwner = Nobody /\ oversizedOwner' = Nobody /\ Nobody # p
            /\ InFlightBytes + extra <= MaxTotalBytes
        BY <2>2, LedgerAssumption DEF Grow, RoomFor
      <3>2. InFlightBytes' = InFlightBytes + extra
        <4>1. /\ counters.admittedItems \in Int /\ counters.reservedBytes \in Nat
              /\ counters.reservedBytes + extra \in Int
          BY <1>6, CountingTypes
        <4>2. InFlightBytes' =
                InFlightBytes - counters.reservedBytes + (counters.reservedBytes + extra)
              /\ InFlightBytes \in Nat
          BY <1>6, <1>7, <4>1, InFlightMoves
        <4> QED  BY <4>1, <4>2
      <3> QED  BY <3>1, <3>2 DEF OwnerMoves
    <2> QED  BY <2>1, <2>2
  <1>10. SizeSound(p)'
    <2>1. /\ ticket[p].wanted >= ticket[p].load.needed
          /\ ticket[p].load.actual <= ticket[p].load.needed
      BY DEF AccountsInv, SizeSound
    <2> QED  BY <1>3, <1>4, <2>1 DEF SizeSound
  <1> QED  BY <1>3, <1>4, <1>8, <1>9, <1>10, OneAccount

LEMMA ExpandAccounts ==
    ASSUME AuditInv, AuditInv', AccountsInv, FrameBounded',
           NEW p \in Producers, ExpandNow(p)
    PROVE  AccountsInv'
  <1>1. /\ ticket[p].at = "recording" /\ Grow(p, ticket[p].expansion)
        /\ RoomFor(p, ticket[p].expansion)
        /\ UNCHANGED <<queue, batch, expansionWaiters>>
    BY DEF ExpandNow
  <1>2. /\ ticket \in [Producers -> Ticket] /\ ticket[p] \in Ticket
        /\ ticket[p].expansion \in Nat
        /\ ticket[p].wanted = ticket[p].reserved + ticket[p].expansion
    BY <1>1 DEF AuditInv, Shape, Ticket, AccountsInv, SizeSound
  <1>3. LineSound'
    <2>1. \A q \in Producers : ticket'[q].at = "waiting" <=> ticket[q].at = "waiting"
      BY <1>1, <1>2, GrownAt DEF Filing
    <2> QED  BY <1>1, <2>1, LineKept DEF AccountsInv
  <1> QED  BY <1>1, <1>2, <1>3, GrowAccounts

LEMMA AcquireAccounts ==
    ASSUME AuditInv, AuditInv', AccountsInv, FrameBounded',
           NEW p \in Producers, AcquireInTurn(p)
    PROVE  AccountsInv'
  <1>1. /\ ticket[p].at = "waiting" /\ Grow(p, ticket[p].wanted)
        /\ RoomFor(p, ticket[p].wanted) /\ Head(expansionWaiters) = p
        /\ expansionWaiters' = Tail(expansionWaiters) /\ LineSound
        /\ UNCHANGED <<queue, batch>>
    BY DEF AcquireInTurn, AccountsInv
  <1>2. /\ ticket \in [Producers -> Ticket] /\ ticket[p] \in Ticket
        /\ ticket[p].wanted \in Nat
        /\ ticket[p].wanted = ticket[p].reserved + ticket[p].wanted
    BY <1>1 DEF AuditInv, Shape, Ticket, AccountsInv, SizeSound
  <1>3. LineSound'
    <2>1. /\ ticket'[p].at = "granted"
          /\ \A q \in Producers \ {p} : ticket'[q] = ticket[q]
      BY <1>1, <1>2, GrownAt DEF Filing
    <2>2. expansionWaiters \in Seq(Producers) /\ expansionWaiters # <<>>
      BY <1>1 DEF LineSound
    <2>3. 1 \in DOMAIN expansionWaiters /\ expansionWaiters[1] = p
      BY <1>1, <2>2
    <2>4. Tail(expansionWaiters) = RemoveAt(expansionWaiters, 1)
      BY <2>2, TailIsRest
    <2> QED  BY <1>1, <2>1, <2>3, <2>4, LineWithout
  <1> QED  BY <1>1, <1>2, <1>3, GrowAccounts

-----------------------------------------------------------------------------
(* A ticket that waits, goes direct, is spent or given back.               *)
(* No counter is clamped: what a ticket gives back was counted.            *)
LEMMA CountedIsIn ==
    ASSUME AuditInv, AccountsInv, NEW p \in Producers, Counted(p)
    PROVE  /\ counters.admittedItems \in Nat /\ counters.admittedItems >= 1
           /\ counters.activeProducers = counters.admittedItems
           /\ counters.reservedBytes \in Nat /\ ticket[p].reserved \in Nat
           /\ counters.reservedBytes >= ticket[p].reserved
  <1>1. /\ IsFiniteSet(Holders) /\ p \in Holders /\ CountersSound
        /\ Cardinality(Holders) = counters.activeProducers
        /\ counters.activeProducers = counters.admittedItems
        /\ counters.reservedBytes = ReservedSum
    BY LedgerAssumption, FS_Subset
       DEF Holders, AccountsInv, CountersSound, AuditInv, ShutdownSound
  <1>2. Cardinality(Holders) \in Nat /\ Cardinality(Holders) # 0
    BY <1>1, FS_CardinalityType, FS_EmptySet
  <1>3. /\ Share(p) \in Nat /\ ReservedSum \in Nat
        /\ ReservedSum = Share(p) + Total(Weights, Holders \ {p})
        /\ Total(Weights, Holders \ {p}) \in Nat
    BY ReservedOf DEF AuditInv
  <1>4. Share(p) = ticket[p].reserved
    BY DEF Share
  <1> QED  BY <1>1, <1>2, <1>3, <1>4

(* Only the room that a ticket holds changes.                              *)
LEMMA OnlyRoom ==
    ASSUME AuditInv, AccountsInv, NEW p \in Producers, NEW bytes \in Int,
           counters' = [counters EXCEPT !.reservedBytes = bytes],
           bytes = counters.reservedBytes - Share(p) + Share(p)'
    PROVE  CountersMove(p)
  <1>1. CountersSound /\ counters.admittedItems \in Nat /\ counters.activeProducers \in Nat
    BY CountingTypes DEF AccountsInv
  <1>2. /\ counters'.admittedItems = counters.admittedItems
        /\ counters'.reservedBytes = bytes
        /\ counters'.activeProducers = counters.activeProducers
        /\ counters'.queueBytes = counters.queueBytes
        /\ counters'.committingItems = counters.committingItems
        /\ counters'.committingBytes = counters.committingBytes
        /\ counters' \in [admittedItems : Int, reservedBytes : Int, activeProducers : Int,
                          queueBytes : Int, committingItems : Int, committingBytes : Int]
    BY <1>1 DEF CountersSound
  <1> QED  BY <1>1, <1>2 DEF CountersMove, CountersSound

LEMMA LineUpAccounts ==
    ASSUME AuditInv, AuditInv', AccountsInv, FrameBounded',
           NEW p \in Producers, LineUp(p)
    PROVE  AccountsInv'
  <1> DEFINE t == [ticket[p] EXCEPT !.at = "waiting", !.reserved = 0]
  <1>1. /\ ticket \in [Producers -> Ticket] /\ ticket[p] \in Ticket
        /\ ticket[p].at = "recording" /\ Counted(p)
    BY FilingIsRecording DEF Filing, LineUp
  <1>2. ticket' = [ticket EXCEPT ![p] = t]
    BY <1>1 DEF LineUp
  <1>3. /\ t.at = "waiting" /\ t.reserved = 0 /\ t.load = ticket[p].load
        /\ t.oversized = ticket[p].oversized /\ t.transferred = ticket[p].transferred
        /\ t.wanted = ticket[p].wanted
    BY <1>1 DEF Ticket
  <1> HIDE DEF t
  <1>4. ticket'[p] = t /\ \A q \in Producers \ {p} : ticket'[q] = ticket[q]
    BY <1>1, <1>2
  <1>5. Counted(p)' /\ Share(p) = ticket[p].reserved /\ Share(p)' = 0
    BY <1>1, <1>3, <1>4 DEF Counted, Share
  <1>6. /\ counters.reservedBytes \in Nat /\ ticket[p].reserved \in Nat
        /\ counters.reservedBytes >= ticket[p].reserved
    BY <1>1, CountedIsIn
  <1>7. CountersMove(p)
    <2> DEFINE bytes == AtLeastZero(counters.reservedBytes - ticket[p].reserved)
    <2>1. counters' = [counters EXCEPT !.reservedBytes = bytes]
      BY DEF LineUp
    <2>2. bytes \in Int /\ bytes = counters.reservedBytes - Share(p) + Share(p)'
      BY <1>5, <1>6 DEF AtLeastZero
    <2> HIDE DEF bytes
    <2> QED  BY <2>1, <2>2, OnlyRoom
  <1>8. OwnerMoves(p)
    <2>1. oversizedOwner' = oversizedOwner
      BY DEF LineUp
    <2> QED
      BY <1>1, <1>3, <1>4, <1>5, <1>6, <2>1 DEF OwnerMoves, AccountsInv, OwnerSound
  <1>9. SizeSound(p)'
    BY <1>1, <1>3, <1>4 DEF AccountsInv, SizeSound
  <1>10. LineSound'
    <2> DEFINE s == expansionWaiters
               s2 == expansionWaiters'
    <2>1. /\ s \in Seq(Producers) /\ Len(s) \in Nat /\ DOMAIN s = 1 .. Len(s)
          /\ \A i, j \in DOMAIN s : s[i] = s[j] => i = j
          /\ \A q \in Producers : ticket[q].at = "waiting" <=> \E i \in DOMAIN s : s[i] = q
          /\ s2 = Append(s, p)
      BY DEF AccountsInv, LineSound, LineUp
    <2> HIDE DEF s
    <2>2. /\ s2 \in Seq(Producers) /\ DOMAIN s2 = 1 .. Len(s) + 1
          /\ \A i \in 1 .. Len(s) : s2[i] = s[i]
          /\ s2[Len(s) + 1] = p
      BY <2>1
    <2>3. \A i \in DOMAIN s : s[i] # p
      BY <1>1, <2>1
    <2> HIDE DEF s2
    <2>4. \A i, j \in DOMAIN s2 : s2[i] = s2[j] => i = j
      BY <2>1, <2>2, <2>3
    <2>5. \A q \in Producers : ticket'[q].at = "waiting" <=> \E i \in DOMAIN s2 : s2[i] = q
      <3>1. Len(s) + 1 \in DOMAIN s2
        BY <2>1, <2>2
      <3>2. ticket'[p].at = "waiting" <=> \E i \in DOMAIN s2 : s2[i] = p
        BY <1>3, <1>4, <2>2, <3>1
      <3>3. ASSUME NEW q \in Producers \ {p}
            PROVE  ticket'[q].at = "waiting" <=> \E i \in DOMAIN s2 : s2[i] = q
        <4>1. ticket'[q].at = "waiting" <=> \E i \in DOMAIN s : s[i] = q
          BY <1>4, <2>1
        <4>2. \A i \in DOMAIN s2 : s2[i] = q => i \in DOMAIN s /\ s[i] = q
          BY <2>1, <2>2
        <4>3. \A i \in DOMAIN s : s[i] = q => i \in DOMAIN s2 /\ s2[i] = q
          BY <2>1, <2>2
        <4> QED  BY <4>1, <4>2, <4>3
      <3> QED  BY <3>2, <3>3
    <2> QED  BY <2>2, <2>4, <2>5 DEF LineSound, s2
  <1>11. UNCHANGED <<queue, batch>>
    BY DEF LineUp
  <1> QED  BY <1>3, <1>4, <1>7, <1>8, <1>9, <1>10, <1>11, OneAccount

LEMMA GoDirectAccounts ==
    ASSUME AuditInv, AuditInv', AccountsInv, FrameBounded',
           NEW p \in Producers, GoDirect(p)
    PROVE  AccountsInv'
  <1> DEFINE size == RowSize(p)
             t == [ticket[p] EXCEPT !.at = "direct", !.reserved = size]
  <1>1. /\ ticket \in [Producers -> Ticket] /\ ticket[p] \in Ticket
        /\ ticket[p].at = "granted" /\ Counted(p)
    BY FilingIsRecording DEF Filing, GoDirect
  <1>2. ticket' = [ticket EXCEPT ![p] = t]
    BY <1>1 DEF GoDirect
  <1>3. size \in Nat /\ size <= ticket[p].reserved /\ ticket[p].reserved \in Nat
    <2>1. /\ ticket[p].load.actual \in Nat /\ ticket[p].load.needed \in Nat
          /\ ticket[p].reserved \in Nat
      BY <1>1 DEF Ticket, Payload
    <2> QED  BY <1>1, <2>1 DEF RowSize, AccountsInv, SizeSound
  <1> HIDE DEF size
  <1>4. /\ t.at = "direct" /\ t.reserved = size /\ t.load = ticket[p].load
        /\ t.oversized = ticket[p].oversized /\ t.transferred = ticket[p].transferred
    BY <1>1 DEF Ticket
  <1> HIDE DEF t
  <1>5. ticket'[p] = t /\ \A q \in Producers \ {p} : ticket'[q] = ticket[q]
    BY <1>1, <1>2
  <1>6. Counted(p)' /\ Share(p) = ticket[p].reserved /\ Share(p)' = size
    BY <1>1, <1>4, <1>5 DEF Counted, Share
  <1>7. /\ counters.reservedBytes \in Nat
        /\ counters.reservedBytes >= ticket[p].reserved
    BY <1>1, CountedIsIn
  <1>8. CountersMove(p)
    <2>1. counters' = [counters EXCEPT !.reservedBytes = Resized(p)]
      BY DEF GoDirect
    <2>2. Resized(p) \in Int /\ Resized(p) = counters.reservedBytes - Share(p) + Share(p)'
      BY <1>3, <1>6, <1>7 DEF Resized, AtLeastZero, size
    <2> QED  BY <2>1, <2>2, OnlyRoom
  <1>9. OwnerMoves(p)
    <2>1. oversizedOwner' = oversizedOwner
      BY DEF GoDirect
    <2> QED
      BY <1>1, <1>3, <1>4, <1>5, <1>6, <2>1 DEF OwnerMoves, AccountsInv, OwnerSound
  <1>10. SizeSound(p)'
    BY <1>4, <1>5 DEF AccountsInv, SizeSound
  <1>11. LineSound'
    BY <1>1, <1>4, <1>5, LineKept DEF GoDirect, AccountsInv
  <1>12. UNCHANGED <<queue, batch>>
    BY DEF GoDirect
  <1> QED  BY <1>4, <1>5, <1>8, <1>9, <1>10, <1>11, <1>12, OneAccount

(* A counted ticket is spent: it gives back everything it holds.           *)
LEMMA SpendAccounts ==
    ASSUME AuditInv, AuditInv', AccountsInv, FrameBounded',
           NEW p \in Producers, NEW answer, Counted(p), ticket[p].at # "waiting",
           ticket' = [ticket EXCEPT ![p] = [NoTicket EXCEPT !.answer = answer]],
           counters' = [counters EXCEPT
                          !.admittedItems = AtLeastZero(@ - 1),
                          !.reservedBytes = AtLeastZero(@ - ticket[p].reserved),
                          !.activeProducers = AtLeastZero(@ - 1)],
           oversizedOwner' = IF oversizedOwner = p THEN Nobody ELSE oversizedOwner,
           UNCHANGED <<queue, batch, expansionWaiters>>
    PROVE  AccountsInv'
  <1> DEFINE t == [NoTicket EXCEPT !.answer = answer]
             items == AtLeastZero(counters.admittedItems - 1)
             bytes == AtLeastZero(counters.reservedBytes - ticket[p].reserved)
             producers == AtLeastZero(counters.activeProducers - 1)
  <1>1. ticket \in [Producers -> Ticket] /\ CountersSound
    BY DEF AuditInv, Shape, AccountsInv
  <1>2. t.at = "none" /\ t.load.actual <= t.load.needed
    BY NoTicketIsSmall
  <1>3. ticket' = [ticket EXCEPT ![p] = t]
    OBVIOUS
  <1> HIDE DEF t
  <1>4. ticket'[p] = t /\ \A q \in Producers \ {p} : ticket'[q] = ticket[q]
    BY <1>1, <1>3
  <1>5. ~Counted(p)' /\ Share(p) = ticket[p].reserved /\ Share(p)' = 0
    BY <1>2, <1>4 DEF Counted, Share
  <1>6. /\ counters.admittedItems \in Nat /\ counters.admittedItems >= 1
        /\ counters.activeProducers = counters.admittedItems
        /\ counters.reservedBytes \in Nat /\ ticket[p].reserved \in Nat
        /\ counters.reservedBytes >= ticket[p].reserved
    BY CountedIsIn
  <1>7. /\ items \in Int /\ items = producers /\ items <= counters.admittedItems
        /\ bytes \in Int /\ bytes = counters.reservedBytes - Share(p) + Share(p)'
        /\ producers \in Int
    BY <1>5, <1>6 DEF AtLeastZero
  <1>8. counters' = [counters EXCEPT !.admittedItems = items, !.reservedBytes = bytes,
                                     !.activeProducers = producers]
    OBVIOUS
  <1> HIDE DEF items, bytes, producers
  <1>9. CountersMove(p)
    <2>1. /\ counters'.admittedItems = items
          /\ counters'.reservedBytes = bytes
          /\ counters'.activeProducers = producers
          /\ counters'.queueBytes = counters.queueBytes
          /\ counters'.committingItems = counters.committingItems
          /\ counters'.committingBytes = counters.committingBytes
          /\ counters' \in [admittedItems : Int, reservedBytes : Int, activeProducers : Int,
                            queueBytes : Int, committingItems : Int, committingBytes : Int]
      <3>1. items \in Int /\ bytes \in Int /\ producers \in Int
        BY <1>7
      <3> QED  BY <1>1, <1>8, <3>1, CountersChange
    <2> QED  BY <1>7, <2>1 DEF CountersMove
  <1>10. OwnerMoves(p)
    BY <1>5, <1>6 DEF OwnerMoves
  <1>11. SizeSound(p)'
    BY <1>2, <1>4 DEF SizeSound
  <1>12. LineSound'
    BY <1>2, <1>4, LineKept DEF AccountsInv
  <1> QED  BY <1>4, <1>5, <1>9, <1>10, <1>11, <1>12, OneAccount

LEMMA GiveBackAccounts ==
    ASSUME AuditInv, AuditInv', AccountsInv, FrameBounded',
           NEW p \in Producers, GiveBack(p), ticket[p].at \in {"admitted", "leaving"},
           UNCHANGED <<queue, batch>>
    PROVE  AccountsInv'
  <1>1. CASE ~ticket[p].transferred
    <2>1. Counted(p) /\ (oversizedOwner = p => ticket[p].oversized)
      BY <1>1 DEF Counted, AccountsInv, OwnerSound
    <2>2. /\ counters' = [counters EXCEPT
                          !.admittedItems = AtLeastZero(@ - 1),
                          !.reservedBytes = AtLeastZero(@ - ticket[p].reserved),
                          !.activeProducers = AtLeastZero(@ - 1)]
          /\ oversizedOwner' = IF oversizedOwner = p THEN Nobody ELSE oversizedOwner
          /\ ticket' = [ticket EXCEPT ![p] = [NoTicket EXCEPT !.answer = ticket[p].answer]]
          /\ UNCHANGED expansionWaiters
      BY <1>1, <2>1 DEF GiveBack
    <2> QED  BY <2>1, <2>2, SpendAccounts
  <1>2. CASE ticket[p].transferred
    <2> DEFINE t == [NoTicket EXCEPT !.answer = ticket[p].answer]
    <2>1. t.at = "none" /\ t.load.actual <= t.load.needed
      BY NoTicketIsSmall
    <2>2. ticket' = [ticket EXCEPT ![p] = t] /\ ticket \in [Producers -> Ticket]
          /\ UNCHANGED <<counters, oversizedOwner, expansionWaiters>>
      BY <1>2 DEF GiveBack, AuditInv, Shape
    <2> HIDE DEF t
    <2>3. ticket'[p] = t /\ \A q \in Producers \ {p} : ticket'[q] = ticket[q]
      BY <2>2
    <2>4. Alike(p)
      <3>1. ~Counted(p) /\ ~Counted(p)'
        BY <1>2, <2>1, <2>3 DEF Counted
      <3>2. SizeSound(p)'
        BY <2>1, <2>3 DEF SizeSound
      <3> QED  BY <3>1, <3>2 DEF Alike
    <2>5. LineSound'
      BY <2>1, <2>2, <2>3, LineKept DEF AccountsInv
    <2> QED  BY <2>2, <2>3, <2>4, <2>5, OneAlike
  <1> QED  BY <1>1, <1>2

LEMMA InTransactionAccounts ==
    ASSUME AuditInv, AuditInv', AccountsInv, FrameBounded',
           NEW p \in Producers, NEW answer, RecordInTransaction(p, answer)
    PROVE  AccountsInv'
  <1>1. ticket[p].at = "admitted" /\ ~ticket[p].transferred
    BY DEF AuditInv, TicketSound, RecordInTransaction
  <1>2. Counted(p)
    BY <1>1 DEF Counted
  <1> QED  BY <1>1, <1>2, SpendAccounts DEF RecordInTransaction

-----------------------------------------------------------------------------
(* The rows.                                                               *)

(* A row passes from its ticket to the queue.                              *)
LEMMA EnqueueCounts ==
    ASSUME CountersSound, NEW items \in Int, NEW bytes \in Int, NEW producers \in Int,
           NEW rows \in Int,
           counters' = [counters EXCEPT !.reservedBytes = bytes, !.admittedItems = items,
                                        !.activeProducers = producers, !.queueBytes = rows]
    PROVE  /\ counters'.admittedItems = items
           /\ counters'.reservedBytes = bytes
           /\ counters'.activeProducers = producers
           /\ counters'.queueBytes = rows
           /\ counters'.committingItems = counters.committingItems
           /\ counters'.committingBytes = counters.committingBytes
           /\ counters' \in [admittedItems : Int, reservedBytes : Int, activeProducers : Int,
                             queueBytes : Int, committingItems : Int, committingBytes : Int]
  <1> DEFINE c == [counters EXCEPT !.reservedBytes = bytes]
             d == [c EXCEPT !.admittedItems = items]
             e == [d EXCEPT !.activeProducers = producers]
             f == [e EXCEPT !.queueBytes = rows]
             Kind == [admittedItems : Int, reservedBytes : Int, activeProducers : Int,
                      queueBytes : Int, committingItems : Int, committingBytes : Int]
  <1>1. counters \in Kind
    BY DEF CountersSound
  <1>2. /\ c \in Kind /\ c.reservedBytes = bytes
        /\ c.committingItems = counters.committingItems
        /\ c.committingBytes = counters.committingBytes
    BY <1>1
  <1>3. counters' = f
    BY <1>1
  <1> HIDE DEF c
  <1>4. /\ d \in Kind /\ d.admittedItems = items /\ d.reservedBytes = bytes
        /\ d.committingItems = counters.committingItems
        /\ d.committingBytes = counters.committingBytes
    BY <1>2
  <1> HIDE DEF d
  <1>5. /\ e \in Kind /\ e.admittedItems = items /\ e.reservedBytes = bytes
        /\ e.activeProducers = producers
        /\ e.committingItems = counters.committingItems
        /\ e.committingBytes = counters.committingBytes
    BY <1>4
  <1> HIDE DEF e
  <1>6. /\ f \in Kind /\ f.admittedItems = items /\ f.reservedBytes = bytes
        /\ f.activeProducers = producers /\ f.queueBytes = rows
        /\ f.committingItems = counters.committingItems
        /\ f.committingBytes = counters.committingBytes
    BY <1>5
  <1> HIDE DEF f
  <1> QED  BY <1>3, <1>6

LEMMA BytesOfItsRow ==
    ASSUME NEW items \in Seq(Row), NEW i \in DOMAIN items,
           \A j, k \in DOMAIN items : items[j].by = items[k].by => j = k
    PROVE  BytesBy(items[i].by, items) = items[i].size
  BY BytesByOne

(* One more row by a thread that has none: the others have what they had.  *)
LEMMA RowAdded ==
    ASSUME AuditInv, AuditInv', NEW p \in Producers, NEW row \in Row, row.by = p,
           ~HasRow(p), queue' = Append(queue, row), batch' = batch
    PROVE  /\ BytesOf(queue') = BytesOf(queue) + row.size
           /\ BytesBy(p, queue') = row.size /\ BytesBy(p, batch) = 0
           /\ BytesBy(p, queue) = 0
           /\ \A q \in Producers \ {p} : BytesBy(q, queue') = BytesBy(q, queue)
           /\ \A q \in Producers : HasRow(q)' <=> HasRow(q) \/ q = p
           /\ \A i \in DOMAIN queue' : \/ i \in DOMAIN queue /\ queue'[i] = queue[i]
                                      \/ queue'[i] = row
           /\ Len(queue') = Len(queue) + 1
  <1> DEFINE last == Len(queue) + 1
  <1>1. /\ queue \in Seq(Row) /\ queue' \in Seq(Row) /\ batch \in Seq(Row)
        /\ Len(queue) \in Nat /\ Len(queue') = last
        /\ DOMAIN queue' = DOMAIN queue \cup {last} /\ last \notin DOMAIN queue
        /\ \A i \in DOMAIN queue : queue'[i] = queue[i]
        /\ queue'[last] = row
    BY DEF AuditInv, Shape
  <1> HIDE DEF last
  <1>2. /\ \A i, j \in DOMAIN queue : queue[i].by = queue[j].by => i = j
        /\ \A i, j \in DOMAIN queue' : queue'[i].by = queue'[j].by => i = j
    BY DEF AuditInv, RowsSound
  <1>3. BytesOf(queue') = BytesOf(queue) + row.size
    <2>1. Len(queue') = Len(queue) + 1
      BY <1>1 DEF last
    <2> QED  BY <1>1, <2>1, BytesOfOneMore
  <1>4. BytesBy(p, queue') = row.size
    <2>1. last \in DOMAIN queue' /\ queue'[last].by = p
      BY <1>1
    <2>2. BytesBy(queue'[last].by, queue') = queue'[last].size
      BY <1>1, <1>2, <2>1, BytesOfItsRow
    <2> QED  BY <1>1, <2>2
  <1>5. BytesBy(p, queue) = 0 /\ BytesBy(p, batch) = 0
    BY RowsHaveBytes
  <1>6. ASSUME NEW q \in Producers \ {p}
        PROVE  BytesBy(q, queue') = BytesBy(q, queue)
    <2>1. CASE \E i \in DOMAIN queue : queue[i].by = q
      <3>1. PICK i \in DOMAIN queue : queue[i].by = q
        BY <2>1
      <3>2. BytesBy(q, queue) = queue[i].size
        BY <1>1, <1>2, <3>1, BytesByOne
      <3>3. i \in DOMAIN queue' /\ queue'[i] = queue[i] /\ queue'[i].by = q
        BY <1>1, <3>1
      <3>4. BytesBy(queue'[i].by, queue') = queue'[i].size
        BY <1>1, <1>2, <3>3, BytesOfItsRow
      <3> QED  BY <3>2, <3>3, <3>4
    <2>2. CASE \A i \in DOMAIN queue : queue[i].by # q
      <3>1. \A i \in DOMAIN queue' : queue'[i].by # q
        BY <1>1, <2>2
      <3>2. BytesBy(q, queue') = 0
        BY <1>1, <1>2, <3>1, BytesByOne
      <3>3. BytesBy(q, queue) = 0
        BY <1>1, <1>2, <2>2, BytesByOne
      <3> QED  BY <3>2, <3>3
    <2> QED  BY <2>1, <2>2
  <1>7. \A q \in Producers : HasRow(q)' <=> HasRow(q) \/ q = p
    <2>1. row.what \in Outcomes
      BY DEF Row
    <2>2. \A q \in Producers, w \in Outcomes :
            Queued(q, w)' <=> Queued(q, w) \/ (q = p /\ w = row.what)
      BY <1>1 DEF Queued
    <2>3. \A q \in Producers, w \in Outcomes : Taken(q, w)' <=> Taken(q, w)
      BY DEF Taken
    <2> QED  BY <2>1, <2>2, <2>3 DEF HasRow, Outcomes
  <1>8. Len(queue') = Len(queue) + 1
    BY <1>1 DEF last
  <1> QED  BY <1>1, <1>3, <1>4, <1>5, <1>6, <1>7, <1>8

LEMMA EnqueueAccounts ==
    ASSUME AuditInv, AuditInv', AccountsInv, FrameBounded',
           NEW p \in Producers, Enqueue(p)
    PROVE  AccountsInv'
  <1> DEFINE size == RowSize(p)
             row == QueuedRow(p)
             t == [ticket[p] EXCEPT !.at = "queued", !.reserved = size, !.transferred = TRUE]
             items == AtLeastZero(counters.admittedItems - 1)
             bytes == AtLeastZero(Resized(p) - size)
             producers == AtLeastZero(counters.activeProducers - 1)
             rows == counters.queueBytes + size
  <1>1. /\ ticket \in [Producers -> Ticket] /\ ticket[p] \in Ticket
        /\ ticket[p].at = "granted" /\ Counted(p) /\ ticket[p].what \in Outcomes
        /\ CountersSound /\ OwnerSound /\ InFlightBounded
    BY FilingIsRecording DEF Filing, Enqueue, AccountsInv
  <1>2. /\ size \in Nat /\ size <= ticket[p].reserved /\ ticket[p].reserved \in Nat
        /\ ticket[p].load.actual <= ticket[p].load.needed
    <2>1. /\ ticket[p].load.actual \in Nat /\ ticket[p].load.needed \in Nat
          /\ ticket[p].reserved \in Nat
      BY <1>1 DEF Ticket, Payload
    <2> QED  BY <1>1, <2>1 DEF RowSize, AccountsInv, SizeSound
  <1>3. row \in Row /\ row.by = p /\ row.size = size /\ row.oversized = ticket[p].oversized
    <2>1. ticket[p].oversized \in BOOLEAN
      BY <1>1 DEF Ticket
    <2> QED  BY <1>1, <1>2, <2>1 DEF QueuedRow, Row
  <1>4. ticket' = [ticket EXCEPT ![p] = t]
    BY <1>1 DEF Enqueue
  <1>5. /\ t.at = "queued" /\ t.transferred /\ t.load = ticket[p].load
    BY <1>1 DEF Ticket
  <1>6. /\ counters' = [counters EXCEPT !.reservedBytes = bytes, !.admittedItems = items,
                                        !.activeProducers = producers, !.queueBytes = rows]
        /\ queue' = Append(queue, row) /\ UNCHANGED <<batch, oversizedOwner, expansionWaiters>>
    BY DEF Enqueue
  <1> HIDE DEF t, row
  <1>7. ticket'[p] = t /\ \A q \in Producers \ {p} : ticket'[q] = ticket[q]
    BY <1>1, <1>4
  <1>8. ~Counted(p)' /\ Share(p) = ticket[p].reserved /\ Share(p)' = 0
    BY <1>1, <1>5, <1>7 DEF Counted, Share
  <1>9. /\ counters.admittedItems \in Nat /\ counters.admittedItems >= 1
        /\ counters.activeProducers = counters.admittedItems
        /\ counters.reservedBytes \in Nat /\ counters.reservedBytes >= ticket[p].reserved
        /\ counters.queueBytes \in Nat /\ counters.committingItems \in Nat
        /\ counters.committingBytes \in Nat
    BY <1>1, CountedIsIn, CountingTypes
  <1>10. /\ items = counters.admittedItems - 1 /\ items \in Nat
         /\ producers = items /\ rows \in Nat
    BY <1>2, <1>9 DEF AtLeastZero
  <1>11. bytes = counters.reservedBytes - ticket[p].reserved /\ bytes \in Nat
    BY <1>2, <1>9 DEF AtLeastZero, Resized, size
  <1> HIDE DEF size, items, bytes, producers
  <1>12. /\ counters'.admittedItems = items
         /\ counters'.reservedBytes = bytes
         /\ counters'.activeProducers = producers
         /\ counters'.queueBytes = rows
         /\ counters'.committingItems = counters.committingItems
         /\ counters'.committingBytes = counters.committingBytes
         /\ counters' \in [admittedItems : Int, reservedBytes : Int, activeProducers : Int,
                           queueBytes : Int, committingItems : Int, committingBytes : Int]
    <2>1. items \in Int /\ bytes \in Int /\ producers \in Int /\ rows \in Int
      BY <1>10, <1>11
    <2> QED  BY <1>1, <1>6, <2>1, EnqueueCounts
  <1>13. ~HasRow(p)
    BY <1>1 DEF OwnerSound
  <1>14. /\ BytesOf(queue') = BytesOf(queue) + size
         /\ BytesBy(p, queue') = size /\ BytesBy(p, batch) = 0 /\ BytesBy(p, queue) = 0
         /\ \A q \in Producers \ {p} : BytesBy(q, queue') = BytesBy(q, queue)
         /\ \A q \in Producers : HasRow(q)' <=> HasRow(q) \/ q = p
         /\ \A i \in DOMAIN queue' : \/ i \in DOMAIN queue /\ queue'[i] = queue[i]
                                    \/ queue'[i] = row
         /\ Len(queue') = Len(queue) + 1
    BY <1>3, <1>6, <1>13, RowAdded
  <1>15. CountersSound'
    <2>1. ReservedSum' = ReservedSum - Share(p) + Share(p)' /\ ReservedSum \in Nat
      BY <1>7, ReservedMoves DEF AuditInv
    <2>2. counters'.reservedBytes = ReservedSum'
      BY <1>1, <1>2, <1>8, <1>11, <1>12, <2>1 DEF CountersSound
    <2>3. counters'.queueBytes = BytesOf(queue')
      BY <1>1, <1>12, <1>14 DEF CountersSound
    <2>4. counters' \in [admittedItems : Nat, reservedBytes : Nat, activeProducers : Nat,
                         queueBytes : Nat, committingItems : Nat, committingBytes : Nat]
      BY <1>9, <1>10, <1>11, <1>12
    <2> QED  BY <1>1, <1>6, <1>10, <1>12, <2>2, <2>3, <2>4 DEF CountersSound
  <1>16. OwnerSound'
    <2>1. \A q \in Producers \ {p} : Counted(q)' <=> Counted(q)
      BY <1>7 DEF Counted
    <2>2. \A q \in Producers :
            /\ HasRow(q)' => ~Counted(q)'
            /\ oversizedOwner' = q => Counted(q)' \/ HasRow(q)'
            /\ oversizedOwner' = q /\ Counted(q)' => ticket'[q].oversized
      BY <1>1, <1>6, <1>7, <1>8, <1>14, <2>1 DEF OwnerSound
    <2>3. \A i \in DOMAIN queue' : queue'[i].by = oversizedOwner' => queue'[i].oversized
      BY <1>1, <1>3, <1>6, <1>14 DEF OwnerSound
    <2>4. \A i \in DOMAIN batch' : batch'[i].by = oversizedOwner' => batch'[i].oversized
      BY <1>1, <1>6 DEF OwnerSound
    <2> QED  BY <1>1, <1>6, <2>2, <2>3, <2>4 DEF OwnerSound
  <1>17. InFlightBounded'
    <2>1. InFlightItems' = InFlightItems
      <3>1. InFlightItems' = items + Len(queue') + counters.committingItems
        BY <1>12 DEF InFlightItems
      <3>2. Len(queue) \in Nat
        BY <1>1, CountingTypes
      <3>3. InFlightItems = counters.admittedItems + Len(queue) + counters.committingItems
        BY DEF InFlightItems
      <3>4. Len(queue') = Len(queue) + 1 /\ items = counters.admittedItems - 1
        BY <1>10, <1>14
      <3>5. counters.admittedItems \in Nat /\ counters.committingItems \in Nat
        BY <1>9
      <3> QED  BY <3>1, <3>2, <3>3, <3>4, <3>5
    <2>2. InFlightBytes' = InFlightBytes - ticket[p].reserved + size /\ InFlightBytes \in Nat
      <3>1. InFlightBytes' = bytes + rows + counters.committingBytes
        BY <1>12 DEF InFlightBytes
      <3>2. InFlightBytes = counters.reservedBytes + counters.queueBytes
                            + counters.committingBytes
        BY DEF InFlightBytes
      <3> QED  BY <1>2, <1>9, <1>11, <3>1, <3>2
    <2>3. \/ OwnedBytes' = OwnedBytes /\ OwnedBytes \in Nat
          \/ OwnedBytes' = size /\ OwnedBytes = ticket[p].reserved
      <3>1. oversizedOwner' = oversizedOwner /\ oversizedOwner \in Producers \cup {Nobody}
        BY <1>1, <1>6 DEF OwnerSound
      <3>2. CASE oversizedOwner = Nobody
        BY <3>1, <3>2, OwnedByOne, OwnedByOneNext
      <3>3. CASE oversizedOwner = p
        <4>1. OwnedBytes = Share(p) + BytesBy(p, queue) + BytesBy(p, batch)
          BY <3>3, OwnedByOne
        <4>2. OwnedBytes' = Share(p)' + BytesBy(p, queue') + BytesBy(p, batch')
          BY <3>1, <3>3, OwnedByOneNext
        <4> QED  BY <1>2, <1>6, <1>8, <1>14, <4>1, <4>2
      <3>4. CASE oversizedOwner \in Producers \ {p}
        <4>1. PICK q \in Producers \ {p} : oversizedOwner = q
          BY <3>4
        <4>2. Share(q)' = Share(q)
          BY <1>7 DEF Share, Counted
        <4>3. Share(q) \in Nat /\ BytesBy(q, queue) \in Nat /\ BytesBy(q, batch) \in Nat
          BY <4>1, ReservedOf, RowsHaveBytes DEF AuditInv
        <4>4. OwnedBytes = Share(q) + BytesBy(q, queue) + BytesBy(q, batch)
          BY <4>1, OwnedByOne
        <4>5. OwnedBytes' = Share(q)' + BytesBy(q, queue') + BytesBy(q, batch')
          BY <3>1, <4>1, OwnedByOneNext
        <4>6. BytesBy(q, queue') = BytesBy(q, queue) /\ batch' = batch
          BY <1>6, <1>14, <4>1
        <4>7. OwnedBytes' = OwnedBytes /\ OwnedBytes \in Nat
          BY <4>2, <4>3, <4>4, <4>5, <4>6
        <4> QED  BY <4>7
      <3> QED  BY <3>1, <3>2, <3>3, <3>4
    <2>4. MaxTotalBytes \in Nat
      BY LedgerAssumption
    <2> QED  BY <1>1, <1>2, <2>1, <2>2, <2>3, <2>4 DEF InFlightBounded
  <1>18. LineSound'
    BY <1>1, <1>5, <1>6, <1>7, LineKept DEF AccountsInv
  <1>19. \A q \in Producers : SizeSound(q)'
    BY <1>2, <1>5, <1>7 DEF AccountsInv, SizeSound
  <1> QED  BY <1>15, <1>16, <1>17, <1>18, <1>19 DEF AccountsInv

-----------------------------------------------------------------------------
(* The commit worker takes rows from the queue and is done with a batch.   *)
LEMMA RowsHaveBytesNext ==
    ASSUME NEW p
    PROVE  (AuditInv => (HasRow(p) <=> \/ \E i \in DOMAIN queue : queue[i].by = p
                                       \/ \E i \in DOMAIN batch : batch[i].by = p))'
  <1>1. AuditInv => (HasRow(p) <=> \/ \E i \in DOMAIN queue : queue[i].by = p
                                   \/ \E i \in DOMAIN batch : batch[i].by = p)
    BY RowsHaveBytes
  <1> QED  BY <1>1, PTL

LEMMA ReservedStays ==
    ASSUME Shape, Shape', UNCHANGED ticket
    PROVE  ReservedSum' = ReservedSum
  <1>1. ReservedSum = Total(Weights, Holders) /\ ReservedSum' = Total(Weights', Holders')
    BY ReservedIsTotal, ReservedIsTotalNext
  <1>2. Weights' = Weights /\ Holders' = Holders
    BY DEF Weights, Holders, Counted
  <1> QED  BY <1>1, <1>2

(* What the worker takes leaves the queue.                                 *)
LEMMA WorkerCounts ==
    ASSUME CountersSound, NEW rows \in Int, NEW items \in Int, NEW bytes \in Int,
           counters' = [counters EXCEPT !.queueBytes = rows, !.committingItems = items,
                                        !.committingBytes = bytes]
    PROVE  /\ counters'.admittedItems = counters.admittedItems
           /\ counters'.reservedBytes = counters.reservedBytes
           /\ counters'.activeProducers = counters.activeProducers
           /\ counters'.queueBytes = rows
           /\ counters'.committingItems = items
           /\ counters'.committingBytes = bytes
           /\ counters' \in [admittedItems : Int, reservedBytes : Int, activeProducers : Int,
                             queueBytes : Int, committingItems : Int, committingBytes : Int]
  <1> DEFINE c == [counters EXCEPT !.queueBytes = rows]
             d == [c EXCEPT !.committingItems = items]
             e == [d EXCEPT !.committingBytes = bytes]
             Kind == [admittedItems : Int, reservedBytes : Int, activeProducers : Int,
                      queueBytes : Int, committingItems : Int, committingBytes : Int]
  <1>1. counters \in Kind
    BY DEF CountersSound
  <1>2. /\ c \in Kind /\ c.queueBytes = rows
        /\ c.admittedItems = counters.admittedItems
        /\ c.reservedBytes = counters.reservedBytes
        /\ c.activeProducers = counters.activeProducers
    BY <1>1
  <1>3. counters' = e
    BY <1>1
  <1> HIDE DEF c
  <1>4. /\ d \in Kind /\ d.queueBytes = rows /\ d.committingItems = items
        /\ d.admittedItems = counters.admittedItems
        /\ d.reservedBytes = counters.reservedBytes
        /\ d.activeProducers = counters.activeProducers
    BY <1>2
  <1> HIDE DEF d
  <1>5. /\ e \in Kind /\ e.queueBytes = rows /\ e.committingItems = items
        /\ e.committingBytes = bytes
        /\ e.admittedItems = counters.admittedItems
        /\ e.reservedBytes = counters.reservedBytes
        /\ e.activeProducers = counters.activeProducers
    BY <1>4
  <1> HIDE DEF e
  <1> QED  BY <1>3, <1>5

(* Every row of the queue is afterwards on one side, with its bytes.       *)
LEMMA BatchTaken ==
    ASSUME AuditInv, AuditInv', batch = <<>>, NEW n \in 0 .. Len(queue),
           batch' = SubSeq(queue, 1, n), queue' = SubSeq(queue, n + 1, Len(queue))
    PROVE  /\ BytesOf(queue) = BytesOf(batch') + BytesOf(queue')
           /\ Len(queue) = Len(batch') + Len(queue') /\ Len(batch') = n
           /\ Len(queue) \in Nat /\ Len(queue') \in Nat
           /\ BytesOf(queue') \in Nat /\ BytesOf(batch') \in Nat
           /\ \A q \in Producers : HasRow(q)' <=> HasRow(q)
           /\ \A q \in Producers :
                BytesBy(q, queue') + BytesBy(q, batch') = BytesBy(q, queue)
           /\ \A i \in DOMAIN queue' : \E j \in DOMAIN queue : queue'[i] = queue[j]
           /\ \A i \in DOMAIN batch' : \E j \in DOMAIN queue : batch'[i] = queue[j]
  <1>1. /\ queue \in Seq(Row) /\ queue' \in Seq(Row) /\ batch' \in Seq(Row)
        /\ Len(queue) \in Nat /\ DOMAIN queue = 1 .. Len(queue)
        /\ \A i, j \in DOMAIN queue : queue[i].by = queue[j].by => i = j
        /\ \A i, j \in DOMAIN queue' : queue'[i].by = queue'[j].by => i = j
        /\ \A i, j \in DOMAIN batch' : batch'[i].by = batch'[j].by => i = j
        /\ \A i \in DOMAIN queue' : \A j \in DOMAIN batch' : queue'[i].by # batch'[j].by
    BY DEF AuditInv, Shape, RowsSound
  <1>2. /\ DOMAIN batch' = 1 .. n
        /\ \A i \in 1 .. n : batch'[i] = queue[i]
        /\ DOMAIN queue' = 1 .. Len(queue) - n
        /\ \A i \in 1 .. Len(queue) - n : queue'[i] = queue[i + n]
    BY <1>1, Split
  <1>3. /\ Len(queue) = Len(batch') + Len(queue') /\ Len(batch') = n
        /\ Len(queue') \in Nat
    <2>1. Len(batch') = n - 1 + 1
      BY <1>1, PartOf
    <2>2. Len(queue) \in Nat /\ n \in Nat /\ n <= Len(queue)
      BY <1>1
    <2>3. Len(batch') = n
      BY <2>1, <2>2
    <2> DEFINE a == n + 1
    <2>4. a \in Nat \ {0} /\ a <= Len(queue) + 1
      BY <2>2
    <2> HIDE DEF a
    <2>5. Len(SubSeq(queue, a, Len(queue))) = Len(queue) - a + 1
      BY <1>1, <2>2, <2>4, PartOf
    <2>6. Len(queue') = Len(queue) - n
      BY <2>2, <2>5 DEF a
    <2> DEFINE k == Len(batch')
               l == Len(queue')
               m == Len(queue)
    <2>7. m \in Nat /\ n \in Nat /\ n <= m /\ k = n /\ l = m - n
      BY <2>2, <2>3, <2>6
    <2> HIDE DEF k, l, m
    <2>8. m = k + l /\ k = n /\ l \in Nat
      BY <2>7
    <2> QED  BY <2>8 DEF k, l, m
  <1>4. BytesOf(queue) = BytesOf(batch') + BytesOf(queue')
    BY <1>1, BytesOfSplit
  <1>5. BytesOf(queue') \in Nat /\ BytesOf(batch') \in Nat
    BY <1>1, BytesAreBytes
  <1>6. \A i \in DOMAIN queue' : i + n \in DOMAIN queue /\ queue'[i] = queue[i + n]
    BY <1>1, <1>2
  <1>7. \A i \in DOMAIN batch' : i \in DOMAIN queue /\ batch'[i] = queue[i]
    BY <1>1, <1>2
  <1>8. \A i \in DOMAIN queue :
          \/ i \in DOMAIN batch' /\ batch'[i] = queue[i]
          \/ i - n \in DOMAIN queue' /\ queue'[i - n] = queue[i]
    <2> SUFFICES ASSUME NEW i \in 1 .. Len(queue)
                 PROVE  \/ i \in DOMAIN batch' /\ batch'[i] = queue[i]
                        \/ i - n \in DOMAIN queue' /\ queue'[i - n] = queue[i]
      BY <1>1
    <2>1. CASE i <= n
      BY <1>2, <2>1
    <2>2. CASE i > n
      <3>1. i - n \in 1 .. Len(queue) - n /\ (i - n) + n = i
        BY <1>1, <2>2
      <3> QED  BY <1>2, <3>1
    <2> QED  BY <1>1, <2>1, <2>2
  <1>9. ASSUME NEW q \in Producers
        PROVE  /\ HasRow(q)' <=> HasRow(q)
               /\ BytesBy(q, queue') + BytesBy(q, batch') = BytesBy(q, queue)
    <2>1. HasRow(q) <=> \E i \in DOMAIN queue : queue[i].by = q
      BY RowsHaveBytes
    <2>2. HasRow(q)' <=> \/ \E i \in DOMAIN queue' : queue'[i].by = q
                         \/ \E i \in DOMAIN batch' : batch'[i].by = q
      <3>1. (AuditInv => (HasRow(q) <=> \/ \E i \in DOMAIN queue : queue[i].by = q
                                        \/ \E i \in DOMAIN batch : batch[i].by = q))'
        BY RowsHaveBytesNext
      <3> QED  BY <3>1
    <2>3. HasRow(q)' <=> HasRow(q)
      <3>1. ASSUME NEW i \in DOMAIN queue, queue[i].by = q
            PROVE  HasRow(q)'
        BY <1>8, <2>2, <3>1
      <3>2. ASSUME NEW i \in DOMAIN queue', queue'[i].by = q
            PROVE  HasRow(q)
        BY <1>6, <2>1, <3>2
      <3>3. ASSUME NEW i \in DOMAIN batch', batch'[i].by = q
            PROVE  HasRow(q)
        BY <1>7, <2>1, <3>3
      <3> QED  BY <2>1, <2>2, <3>1, <3>2, <3>3
    <2>4. CASE \E i \in DOMAIN batch' : batch'[i].by = q
      <3>1. PICK i \in DOMAIN batch' : batch'[i].by = q
        BY <2>4
      <3>2. i \in DOMAIN queue /\ batch'[i] = queue[i] /\ queue[i].size \in Nat
        BY <1>1, <1>7, <3>1, SizesAreBytes
      <3>3. BytesBy(batch'[i].by, batch') = batch'[i].size
        BY <1>1, <3>1, BytesOfItsRow
      <3>4. BytesBy(queue[i].by, queue) = queue[i].size
        BY <1>1, <3>2, BytesOfItsRow
      <3>5. BytesBy(q, queue') = 0
        BY <1>1, <3>1, BytesByOne
      <3> QED  BY <2>3, <3>1, <3>2, <3>3, <3>4, <3>5
    <2>5. CASE \E i \in DOMAIN queue' : queue'[i].by = q
      <3>1. PICK i \in DOMAIN queue' : queue'[i].by = q
        BY <2>5
      <3>2. i + n \in DOMAIN queue /\ queue'[i] = queue[i + n] /\ queue[i + n].size \in Nat
        BY <1>1, <1>6, <3>1, SizesAreBytes
      <3>3. BytesBy(queue'[i].by, queue') = queue'[i].size
        BY <1>1, <3>1, BytesOfItsRow
      <3>4. BytesBy(queue[i + n].by, queue) = queue[i + n].size
        BY <1>1, <3>2, BytesOfItsRow
      <3>5. BytesBy(q, batch') = 0
        BY <1>1, <3>1, BytesByOne
      <3> QED  BY <2>3, <3>1, <3>2, <3>3, <3>4, <3>5
    <2>6. CASE ~HasRow(q)
      <3>1. BytesBy(q, queue) = 0
        BY <2>6, RowsHaveBytes
      <3>2. BytesBy(q, queue') = 0
        BY <1>1, <2>2, <2>3, <2>6, BytesByOne
      <3>3. BytesBy(q, batch') = 0
        BY <1>1, <2>2, <2>3, <2>6, BytesByOne
      <3> QED  BY <2>3, <3>1, <3>2, <3>3
    <2> QED  BY <2>2, <2>3, <2>4, <2>5, <2>6
  <1> QED  BY <1>1, <1>3, <1>4, <1>5, <1>6, <1>7, <1>9

LEMMA TakeBatchAccounts ==
    ASSUME AuditInv, AuditInv', AccountsInv, FrameBounded', TakeBatch
    PROVE  AccountsInv'
  <1> DEFINE n == Min({Len(queue), MaxBatch})
             rows == AtLeastZero(counters.queueBytes - BytesOf(batch'))
             bytes == BytesOf(batch')
  <1>1. /\ CountersSound /\ OwnerSound /\ InFlightBounded
        /\ batch = <<>> /\ Len(queue) \in Nat
    BY DEF TakeBatch, AuditInv, RowsSound, Shape, AccountsInv
  <1>2. n \in 0 .. Len(queue)
    BY <1>1, SmallerOfTwo, LedgerAssumption
  <1>3. /\ batch' = SubSeq(queue, 1, n) /\ queue' = SubSeq(queue, n + 1, Len(queue))
        /\ counters' = [counters EXCEPT !.queueBytes = rows, !.committingItems = n,
                                        !.committingBytes = bytes]
        /\ UNCHANGED <<ticket, oversizedOwner, expansionWaiters>>
    BY DEF TakeBatch
  <1> HIDE DEF n, rows
  <1>4. /\ BytesOf(queue) = BytesOf(batch') + BytesOf(queue')
        /\ Len(queue) = Len(batch') + Len(queue') /\ Len(batch') = n
        /\ Len(queue) \in Nat /\ Len(queue') \in Nat
        /\ BytesOf(queue') \in Nat /\ BytesOf(batch') \in Nat
        /\ \A q \in Producers : HasRow(q)' <=> HasRow(q)
        /\ \A q \in Producers :
             BytesBy(q, queue') + BytesBy(q, batch') = BytesBy(q, queue)
        /\ \A i \in DOMAIN queue' : \E j \in DOMAIN queue : queue'[i] = queue[j]
        /\ \A i \in DOMAIN batch' : \E j \in DOMAIN queue : batch'[i] = queue[j]
    BY <1>1, <1>2, <1>3, BatchTaken
  <1>5. /\ counters.queueBytes = BytesOf(queue) /\ counters.committingItems = 0
        /\ counters.committingBytes = 0
    BY <1>1, BytesOfEmpty DEF CountersSound
  <1>6. rows = BytesOf(queue') /\ bytes \in Nat /\ n \in Nat
    BY <1>2, <1>4, <1>5 DEF AtLeastZero, rows
  <1>7. /\ counters'.admittedItems = counters.admittedItems
        /\ counters'.reservedBytes = counters.reservedBytes
        /\ counters'.activeProducers = counters.activeProducers
        /\ counters'.queueBytes = rows
        /\ counters'.committingItems = n
        /\ counters'.committingBytes = bytes
        /\ counters' \in [admittedItems : Int, reservedBytes : Int, activeProducers : Int,
                          queueBytes : Int, committingItems : Int, committingBytes : Int]
    <2>1. rows \in Int /\ bytes \in Int /\ n \in Int
      BY <1>4, <1>6
    <2> HIDE DEF bytes
    <2> QED  BY <1>1, <1>3, <2>1, WorkerCounts
  <1>8. \A q \in Producers :
          /\ (Counted(q)' <=> Counted(q)) /\ Share(q)' = Share(q) /\ (SizeSound(q)' <=> SizeSound(q))
    BY <1>3 DEF Counted, Share, SizeSound
  <1>9. CountersSound'
    <2>1. ReservedSum' = ReservedSum
      BY <1>3, ReservedStays DEF AuditInv
    <2>2. counters' \in [admittedItems : Nat, reservedBytes : Nat, activeProducers : Nat,
                         queueBytes : Nat, committingItems : Nat, committingBytes : Nat]
      BY <1>1, <1>4, <1>6, <1>7, CountingTypes
    <2> QED  BY <1>1, <1>4, <1>6, <1>7, <2>1, <2>2 DEF CountersSound
  <1>10. OwnerSound'
    <2>1. \A q \in Producers :
            /\ HasRow(q)' => ~Counted(q)'
            /\ oversizedOwner' = q => Counted(q)' \/ HasRow(q)'
            /\ oversizedOwner' = q /\ Counted(q)' => ticket'[q].oversized
      BY <1>1, <1>3, <1>4, <1>8 DEF OwnerSound
    <2>2. \A i \in DOMAIN queue' : queue'[i].by = oversizedOwner' => queue'[i].oversized
      <3>1. \A i \in DOMAIN queue' : \E j \in DOMAIN queue : queue'[i] = queue[j]
        BY <1>4
      <3>2. \A j \in DOMAIN queue : queue[j].by = oversizedOwner => queue[j].oversized
        BY <1>1 DEF OwnerSound
      <3> QED  BY <1>3, <3>1, <3>2
    <2>3. \A i \in DOMAIN batch' : batch'[i].by = oversizedOwner' => batch'[i].oversized
      <3>1. \A i \in DOMAIN batch' : \E j \in DOMAIN queue : batch'[i] = queue[j]
        BY <1>4
      <3>2. \A j \in DOMAIN queue : queue[j].by = oversizedOwner => queue[j].oversized
        BY <1>1 DEF OwnerSound
      <3> QED  BY <1>3, <3>1, <3>2
    <2> QED  BY <1>1, <1>3, <2>1, <2>2, <2>3 DEF OwnerSound
  <1>11. InFlightBounded'
    <2>1. InFlightItems' = InFlightItems
      <3>1. InFlightItems' = counters.admittedItems + Len(queue') + n
        BY <1>7 DEF InFlightItems
      <3>2. InFlightItems = counters.admittedItems + Len(queue) + 0
        BY <1>5 DEF InFlightItems
      <3>3. Len(queue) = n + Len(queue') /\ Len(queue) \in Nat /\ Len(queue') \in Nat
            /\ n \in Nat /\ counters.admittedItems \in Nat
        BY <1>1, <1>4, <1>6, CountingTypes
      <3> QED  BY <3>1, <3>2, <3>3
    <2>2. InFlightBytes' = InFlightBytes
      <3>1. InFlightBytes' = counters.reservedBytes + BytesOf(queue') + BytesOf(batch')
        BY <1>6, <1>7 DEF InFlightBytes
      <3>2. InFlightBytes = counters.reservedBytes + BytesOf(queue) + 0
        BY <1>5 DEF InFlightBytes
      <3>3. BytesOf(queue) = BytesOf(batch') + BytesOf(queue')
            /\ BytesOf(queue') \in Nat /\ BytesOf(batch') \in Nat
            /\ counters.reservedBytes \in Nat
        BY <1>1, <1>4, CountingTypes
      <3> QED  BY <3>1, <3>2, <3>3
    <2>3. OwnedBytes' = OwnedBytes
      <3>1. oversizedOwner' = oversizedOwner /\ oversizedOwner \in Producers \cup {Nobody}
        BY <1>1, <1>3 DEF OwnerSound
      <3>2. CASE oversizedOwner = Nobody
        BY <3>1, <3>2, OwnedByOne, OwnedByOneNext
      <3>3. CASE oversizedOwner \in Producers
        <4>1. PICK q \in Producers : oversizedOwner = q
          BY <3>3
        <4>2. OwnedBytes = Share(q) + BytesBy(q, queue) + BytesBy(q, batch)
          BY <4>1, OwnedByOne
        <4>3. OwnedBytes' = Share(q)' + BytesBy(q, queue') + BytesBy(q, batch')
          BY <3>1, <4>1, OwnedByOneNext
        <4>4. /\ Share(q) \in Nat /\ BytesBy(q, queue) \in Nat
              /\ BytesBy(q, queue') \in Nat /\ BytesBy(q, batch') \in Nat
          <5>1. Share(q) \in Nat /\ BytesBy(q, queue) \in Nat
            BY ReservedOf, RowsHaveBytes DEF AuditInv
          <5>2. /\ queue' \in Seq(Row) /\ batch' \in Seq(Row)
                /\ \A i, j \in DOMAIN queue' : queue'[i].by = queue'[j].by => i = j
                /\ \A i, j \in DOMAIN batch' : batch'[i].by = batch'[j].by => i = j
            BY DEF AuditInv, Shape, RowsSound
          <5> QED  BY <5>1, <5>2, BytesByOne
        <4>5. BytesBy(q, batch) = 0
          <5>1. \A i \in DOMAIN batch : batch[i].by # q
            BY <1>1
          <5> QED  BY <1>1, <5>1, BytesByOne DEF AuditInv, Shape, RowsSound
        <4>6. /\ BytesBy(q, queue') + BytesBy(q, batch') = BytesBy(q, queue)
              /\ Share(q)' = Share(q)
          BY <1>4, <1>8
        <4> QED  BY <4>2, <4>3, <4>4, <4>5, <4>6
      <3> QED  BY <3>1, <3>2, <3>3
    <2> QED  BY <1>1, <2>1, <2>2, <2>3 DEF InFlightBounded
  <1>12. LineSound'
    BY <1>3, LineKept DEF AccountsInv
  <1> QED  BY <1>8, <1>9, <1>10, <1>11, <1>12 DEF AccountsInv

(* The futures of a batch are resolved.                                    *)
LEMMA ResolveAccounts ==
    ASSUME AuditInv, AuditInv', AccountsInv, FrameBounded',
           NEW answer \in Answers, Resolve(answer),
           UNCHANGED <<queue, batch, counters, oversizedOwner, expansionWaiters>>
    PROVE  AccountsInv'
  <1> DEFINE t(q) == [ticket[q] EXCEPT !.at = "leaving", !.answer = answer]
  <1>1. ticket \in [Producers -> Ticket]
    BY DEF AuditInv, Shape
  <1>2. ASSUME NEW q \in Producers
        PROVE  /\ t(q).at = "leaving" /\ t(q).load = ticket[q].load
               /\ t(q).transferred = ticket[q].transferred
    <2>1. ticket[q] \in Ticket
      BY <1>1
    <2> QED  BY <2>1 DEF Ticket
  <1>3. ticket' = [q \in Producers |->
                     IF ticket[q].at = "queued" /\ \E i \in DOMAIN batch : batch[i].by = q
                     THEN t(q) ELSE ticket[q]]
    BY DEF Resolve
  <1> HIDE DEF t
  <1>4. ASSUME NEW q \in Producers
        PROVE  Alike(q) /\ (ticket'[q].at = "waiting" <=> ticket[q].at = "waiting")
    <2>1. ticket'[q].load = ticket[q].load
      BY <1>1, <1>2, <1>3
    <2>2. /\ ticket[q].at # "queued" => ticket'[q] = ticket[q]
          /\ ticket'[q].transferred <=> ticket[q].transferred
          /\ ticket'[q] = ticket[q] \/ ticket'[q].at = "leaving"
      BY Resolving
    <2>3. CASE ticket'[q] = ticket[q]
      BY <2>3 DEF Alike, Counted, SizeSound, AccountsInv
    <2>4. CASE ticket[q].at = "queued" /\ ticket'[q].at = "leaving"
      <3>1. ~Counted(q) /\ ~Counted(q)'
        BY <2>2, <2>4 DEF Counted, AuditInv, TicketSound
      <3>2. SizeSound(q)'
        BY <2>1, <2>4 DEF SizeSound, AccountsInv
      <3> QED  BY <2>4, <3>1, <3>2 DEF Alike
    <2> QED  BY <2>2, <2>3, <2>4
  <1>5. LineSound'
    BY <1>4, LineKept DEF AccountsInv
  <1> QED  BY <1>4, <1>5, SameAccounts

LEMMA SettleBatchAccounts ==
    ASSUME AuditInv, AuditInv', AccountsInv, FrameBounded', SettleBatch
    PROVE  AccountsInv'
  <1> DEFINE items == AtLeastZero(counters.committingItems - Len(batch))
             bytes == AtLeastZero(counters.committingBytes - BytesOf(batch))
             Mine == \E i \in DOMAIN batch : batch[i].by = oversizedOwner
  <1>1. /\ CountersSound /\ OwnerSound /\ InFlightBounded
        /\ queue \in Seq(Row) /\ batch \in Seq(Row) /\ Len(batch) \in Nat
        /\ BytesOf(batch) \in Nat /\ BytesOf(queue) \in Nat
    BY BytesAreBytes DEF AuditInv, Shape, AccountsInv
  <1>2. /\ counters' = [counters EXCEPT !.committingItems = items,
                                        !.committingBytes = bytes]
        /\ batch' = <<>> /\ UNCHANGED <<ticket, queue, expansionWaiters>>
        /\ oversizedOwner' = IF Mine THEN Nobody ELSE oversizedOwner
    BY <1>1 DEF SettleBatch, OwnerSound
  <1>3. items = 0 /\ bytes = 0
    BY <1>1 DEF CountersSound, AtLeastZero
  <1> HIDE DEF items, bytes
  <1>4. /\ counters'.admittedItems = counters.admittedItems
        /\ counters'.reservedBytes = counters.reservedBytes
        /\ counters'.activeProducers = counters.activeProducers
        /\ counters'.queueBytes = counters.queueBytes
        /\ counters'.committingItems = 0
        /\ counters'.committingBytes = 0
        /\ counters' \in [admittedItems : Nat, reservedBytes : Nat, activeProducers : Nat,
                          queueBytes : Nat, committingItems : Nat, committingBytes : Nat]
    BY <1>1, <1>2, <1>3 DEF CountersSound
  <1>5. \A q \in Producers :
          /\ (Counted(q)' <=> Counted(q)) /\ Share(q)' = Share(q)
          /\ (SizeSound(q)' <=> SizeSound(q))
    BY <1>2 DEF Counted, Share, SizeSound
  <1>6. CountersSound'
    <2>1. ReservedSum' = ReservedSum
      BY <1>2, ReservedStays DEF AuditInv
    <2>2. BytesOf(batch') = 0 /\ Len(batch') = 0
      BY <1>2, BytesOfEmpty
    <2> QED  BY <1>1, <1>2, <1>4, <2>1, <2>2 DEF CountersSound
  <1>7. \A i \in DOMAIN queue : queue[i].by # Nobody
    BY RowsAreRows, LedgerAssumption
  <1>8. \A q \in Producers :
          /\ HasRow(q)' => HasRow(q)
          /\ HasRow(q) => HasRow(q)' \/ \E i \in DOMAIN batch : batch[i].by = q
    BY <1>2 DEF HasRow, Queued, Taken
  <1>9. OwnerSound'
    <2>1. CASE Mine
      <3>1. oversizedOwner' = Nobody
        BY <1>2, <2>1
      <3>2. \A q \in Producers : HasRow(q)' => ~Counted(q)'
        BY <1>1, <1>5, <1>8 DEF OwnerSound
      <3> QED  BY <1>2, <1>7, <3>1, <3>2, LedgerAssumption DEF OwnerSound
    <2>2. CASE ~Mine
      <3>1. oversizedOwner' = oversizedOwner
        BY <1>2, <2>2
      <3>2. \A q \in Producers :
              /\ HasRow(q)' => ~Counted(q)'
              /\ oversizedOwner' = q => Counted(q)' \/ HasRow(q)'
              /\ oversizedOwner' = q /\ Counted(q)' => ticket'[q].oversized
        BY <1>1, <1>2, <1>5, <1>8, <2>2, <3>1 DEF OwnerSound
      <3> QED  BY <1>1, <1>2, <3>1, <3>2 DEF OwnerSound
    <2> QED  BY <2>1, <2>2
  <1>10. InFlightBounded'
    <2>1. InFlightItems' <= InFlightItems /\ InFlightItems \in Nat
      <3>1. InFlightItems' = counters.admittedItems + Len(queue) + 0
        BY <1>2, <1>4 DEF InFlightItems
      <3>2. InFlightItems = counters.admittedItems + Len(queue) + counters.committingItems
        BY DEF InFlightItems
      <3> QED  BY <1>1, <3>1, <3>2, CountingTypes
    <2>2. InFlightItems' \in Nat
      <3>1. InFlightItems' = counters.admittedItems + Len(queue) + 0
        BY <1>2, <1>4 DEF InFlightItems
      <3> QED  BY <1>1, <3>1, CountingTypes
    <2>3. InFlightBytes' = InFlightBytes - BytesOf(batch) /\ InFlightBytes \in Nat
      <3>1. InFlightBytes' = counters.reservedBytes + counters.queueBytes + 0
        BY <1>4 DEF InFlightBytes
      <3>2. InFlightBytes = counters.reservedBytes + counters.queueBytes + BytesOf(batch)
        BY <1>1 DEF InFlightBytes, CountersSound
      <3>3. counters.reservedBytes \in Nat /\ counters.queueBytes \in Nat
        BY <1>1, CountingTypes
      <3>4. BytesOf(batch) \in Nat
        BY <1>1
      <3> QED  BY <3>1, <3>2, <3>3, <3>4
    <2>4. \/ OwnedBytes' = OwnedBytes /\ OwnedBytes \in Nat
          \/ OwnedBytes' = 0 /\ OwnedBytes \in Nat /\ OwnedBytes <= BytesOf(batch)
      <3>1. oversizedOwner \in Producers \cup {Nobody}
        BY <1>1 DEF OwnerSound
      <3>2. CASE oversizedOwner = Nobody
        <4>1. oversizedOwner' = Nobody
          BY <1>2, <3>2
        <4> QED  BY <3>2, <4>1, OwnedByOne, OwnedByOneNext
      <3>3. CASE oversizedOwner \in Producers
        <4>1. PICK q \in Producers : oversizedOwner = q
          BY <3>3
        <4>2. OwnedBytes = Share(q) + BytesBy(q, queue) + BytesBy(q, batch)
          BY <4>1, OwnedByOne
        <4>3. /\ Share(q) \in Nat /\ BytesBy(q, queue) \in Nat /\ BytesBy(q, batch) \in Nat
              /\ BytesBy(q, batch) <= BytesOf(batch)
          BY ReservedOf, RowsHaveBytes DEF AuditInv
        <4>4. CASE Mine
          <5>1. PICK i \in DOMAIN batch : batch[i].by = q
            BY <4>1, <4>4
          <5>2. \A j \in DOMAIN queue : queue[j].by # q
            BY <5>1 DEF AuditInv, RowsSound
          <5>3. BytesBy(q, queue) = 0
            BY <1>1, <5>2, BytesByOne DEF AuditInv, RowsSound
          <5>4. ~Counted(q)
            <6>1. HasRow(q)
              BY <5>1, RowsHaveBytes
            <6> QED  BY <1>1, <6>1 DEF OwnerSound
          <5>5. Share(q) = 0
            BY <5>4 DEF Share
          <5>6. oversizedOwner' = Nobody
            BY <1>2, <4>4
          <5> QED  BY <1>1, <4>2, <4>3, <5>3, <5>5, <5>6, OwnedByOneNext
        <4>5. CASE ~Mine
          <5>1. oversizedOwner' = q
            BY <1>2, <4>1, <4>5
          <5>2. BytesBy(q, batch) = 0
            BY <1>1, <4>1, <4>5, BytesByOne DEF AuditInv, RowsSound
          <5>3. BytesBy(q, batch') = 0
            <6>1. batch' \in Seq(Row) /\ DOMAIN batch' = {}
              BY <1>2
            <6> QED  BY <6>1, BytesByOne
          <5>4. OwnedBytes' = Share(q)' + BytesBy(q, queue') + BytesBy(q, batch')
            BY <5>1, OwnedByOneNext
          <5>5. Share(q)' = Share(q) /\ BytesBy(q, queue') = BytesBy(q, queue)
            BY <1>2, <1>5
          <5> QED  BY <4>2, <4>3, <5>2, <5>3, <5>4, <5>5
        <4> QED  BY <4>4, <4>5
      <3> QED  BY <3>1, <3>2, <3>3
    <2>5. MaxTotalBytes \in Nat /\ MaxItems \in Nat
      BY LedgerAssumption
    <2> QED  BY <1>1, <2>1, <2>2, <2>3, <2>4, <2>5 DEF InFlightBounded
  <1>11. LineSound'
    BY <1>2, LineKept DEF AccountsInv
  <1> QED  BY <1>5, <1>6, <1>9, <1>10, <1>11 DEF AccountsInv

-----------------------------------------------------------------------------
(* Every step keeps the accounts.                                          *)

LEMMA FrameOfOne ==
    ASSUME AuditInv, FrameBounded, NEW p \in Producers, NEW c,
           call' = [call EXCEPT ![p] = c], c.depth \in 0 .. 2,
           writer' \in {writer, p, Nobody}, closing' = closing
    PROVE  FrameBounded'
  <1>1. call \in [Producers -> CallRecord]
    BY DEF AuditInv, Shape
  <1>2. \A q \in Producers : call'[q] = IF q = p THEN c ELSE call[q]
    BY <1>1
  <1>3. \A q \in Producers : call'[q].depth \in 0 .. 2
    BY <1>2 DEF FrameBounded
  <1> QED  BY <1>3 DEF FrameBounded

LEMMA FrameStays ==
    ASSUME FrameBounded, UNCHANGED auditedVars, closing' = closing
    PROVE  FrameBounded'
  BY DEF FrameBounded, auditedVars

LEMMA GoingFrame ==
    ASSUME AuditInv, FrameBounded, NEW p \in Producers, NEW place, Goes(p, place),
           writer' \in {writer, p, Nobody}, closing' = closing
    PROVE  FrameBounded'
  <1> DEFINE c == [call[p] EXCEPT !.at = place]
  <1>1. call \in [Producers -> CallRecord] /\ call[p].depth \in 0 .. 2
    BY DEF AuditInv, Shape, FrameBounded
  <1>2. call' = [call EXCEPT ![p] = c]
    BY <1>1 DEF Goes
  <1>3. c.depth \in 0 .. 2
    BY <1>1 DEF CallRecord
  <1> HIDE DEF c
  <1> QED  BY <1>2, <1>3, FrameOfOne

LEMMA EndingFrame ==
    ASSUME AuditInv, FrameBounded, NEW p \in Producers, NEW result, Ends(p, result),
           writer' \in {writer, p, Nobody}, closing' = closing
    PROVE  FrameBounded'
  <1> DEFINE c == [Call(call[p].kind, "done") EXCEPT !.result = result]
  <1>1. call' = [call EXCEPT ![p] = c]
    BY DEF Ends
  <1>2. c.depth \in 0 .. 2
    BY DEF Call
  <1> HIDE DEF c
  <1> QED  BY <1>1, <1>2, FrameOfOne

LEMMA OverFrame ==
    ASSUME AuditInv, FrameBounded, NEW p \in Producers, NEW place, NEW committed,
           Over(p, place, committed), closing' = closing
    PROVE  FrameBounded'
  <1> DEFINE c == [call[p] EXCEPT !.at = place, !.committed = committed,
                            !.staged = FALSE, !.depth = 0,
                            !.doomed = FALSE, !.spoiled = FALSE]
  <1>1. call \in [Producers -> CallRecord] /\ call[p] \in CallRecord
    BY DEF AuditInv, Shape
  <1>2. call' = [call EXCEPT ![p] = c]
    BY <1>1 DEF Over
  <1>3. c.depth \in 0 .. 2
    BY <1>1 DEF CallRecord
  <1> HIDE DEF c
  <1>4. writer' = Nobody
    BY DEF Over
  <1> QED  BY <1>2, <1>3, <1>4, FrameOfOne

(* The blocks of the transaction, at most two deep.                        *)
LEMMA BlockFrame ==
    ASSUME AuditInv, FrameBounded, NEW p \in Producers,
           Begin(p) \/ Nest(p) \/ LeaveNested(p) \/ RaiseNested(p)
    PROVE  FrameBounded'
  <1>1. call \in [Producers -> CallRecord] /\ call[p] \in CallRecord
        /\ call[p].depth \in 0 .. 2
    BY DEF AuditInv, Shape, FrameBounded
  <1>2. closing' = closing /\ writer' \in {writer, p, Nobody}
    BY DEF Begin, Nest, LeaveNested, RaiseNested, ledgerVars
  <1>3. CASE Begin(p)
    <2> DEFINE c == [call[p] EXCEPT !.at = "transaction", !.depth = 1,
                                    !.transactions = @ + 1]
    <2>1. call' = [call EXCEPT ![p] = c]
      BY <1>1, <1>3 DEF Begin
    <2>2. c.depth \in 0 .. 2
      BY <1>1 DEF CallRecord
    <2> HIDE DEF c
    <2> QED  BY <1>2, <2>1, <2>2, FrameOfOne
  <1>4. CASE Nest(p)
    <2> DEFINE c == [call[p] EXCEPT !.depth = @ + 1]
    <2>1. call' = [call EXCEPT ![p] = c] /\ call[p].depth = 1
      BY <1>1, <1>4 DEF Nest
    <2>2. c.depth \in 0 .. 2
      BY <1>1, <2>1 DEF CallRecord
    <2> HIDE DEF c
    <2> QED  BY <1>2, <2>1, <2>2, FrameOfOne
  <1>5. CASE LeaveNested(p)
    <2> DEFINE c == [call[p] EXCEPT !.depth = @ - 1]
    <2>1. call' = [call EXCEPT ![p] = c] /\ call[p].depth > 1
      BY <1>1, <1>5 DEF LeaveNested
    <2>2. c.depth \in 0 .. 2
      BY <1>1, <2>1 DEF CallRecord
    <2> HIDE DEF c
    <2> QED  BY <1>2, <2>1, <2>2, FrameOfOne
  <1>6. CASE RaiseNested(p)
    <2> DEFINE c == [call[p] EXCEPT !.depth = @ - 1, !.doomed = TRUE, !.spoiled = TRUE]
    <2>1. call' = [call EXCEPT ![p] = c] /\ call[p].depth > 1
      BY <1>1, <1>6 DEF RaiseNested
    <2>2. c.depth \in 0 .. 2
      BY <1>1, <2>1 DEF CallRecord
    <2> HIDE DEF c
    <2> QED  BY <1>2, <2>1, <2>2, FrameOfOne
  <1> QED  BY <1>3, <1>4, <1>5, <1>6

LEMMA StartAccounts ==
    ASSUME AuditInv, AuditInv', AccountsInv, NEW p \in Producers,
           \/ Start(p) \/ Admitted(p) \/ NotAdmitted(p) \/ Restart(p) \/ AskAgain(p)
    PROVE  AccountsInv'
  <1>1. FrameBounded
    BY DEF AccountsInv
  <1>2. CASE Start(p)
    <2>1. PICK kind \in Kinds : call' = [call EXCEPT ![p] = Call(kind, "admission")]
      BY <1>2 DEF Start
    <2>2. PICK load \in Payloads : Ask(p, load)
      BY <1>2 DEF Start
    <2>3. FrameBounded'
      <3> DEFINE c == Call(kind, "admission")
      <3>1. c.depth \in 0 .. 2
        BY DEF Call
      <3> HIDE DEF c
      <3>2. closing' = closing /\ writer' = writer /\ call' = [call EXCEPT ![p] = c]
        BY <1>2, <2>1, <2>2 DEF Start, Ask, c
      <3> QED  BY <1>1, <3>1, <3>2, FrameOfOne
    <2> QED  BY <2>2, <2>3, AskAccounts
  <1>3. CASE Admitted(p)
    <2>1. FrameBounded'
      BY <1>1, <1>3, GoingFrame DEF Admitted, Admit
    <2> QED  BY <1>3, <2>1, AdmitAccounts DEF Admitted
  <1>4. CASE NotAdmitted(p)
    <2>1. FrameBounded'
      BY <1>1, <1>4, EndingFrame DEF NotAdmitted, RefuseAdmission
    <2> QED  BY <1>4, <2>1, RefuseAccounts DEF NotAdmitted
  <1>5. CASE Restart(p)
    <2>1. FrameBounded'
      BY <1>1, <1>5, GoingFrame DEF Restart, ReleaseUnused
    <2>2. GiveBack(p) /\ ticket[p].at \in {"admitted", "leaving"} /\ UNCHANGED <<queue, batch>>
      BY <1>5 DEF Restart, ReleaseUnused
    <2> QED  BY <2>1, <2>2, GiveBackAccounts
  <1>6. CASE AskAgain(p)
    <2>1. PICK load \in Payloads : Ask(p, load)
      BY <1>6 DEF AskAgain
    <2>2. FrameBounded'
      <3> DEFINE c == [call[p] EXCEPT !.at = "admission", !.retries = @ + 1]
      <3>1. call \in [Producers -> CallRecord] /\ call[p] \in CallRecord
            /\ call[p].depth \in 0 .. 2
        BY <1>1 DEF AuditInv, Shape, FrameBounded
      <3>2. c.depth \in 0 .. 2
        BY <3>1 DEF CallRecord
      <3>3. closing' = closing /\ writer' = writer /\ call' = [call EXCEPT ![p] = c]
        BY <1>6, <2>1, <3>1 DEF AskAgain, Ask
      <3> HIDE DEF c
      <3> QED  BY <1>1, <3>2, <3>3, FrameOfOne
    <2> QED  BY <2>1, <2>2, AskAccounts
  <1> QED  BY <1>2, <1>3, <1>4, <1>5, <1>6

(* The steps of transactions that leave the ledger's queue alone.          *)
LEMMA TransactionAccounts ==
    ASSUME AuditInv, AuditInv', AccountsInv, NEW p \in Producers,
           \/ Begin(p) \/ Nest(p) \/ LeaveNested(p) \/ RaiseNested(p)
           \/ RaiseInTransaction(p) \/ RefuseDoomed(p) \/ SkipHook(p)
           \/ Commit(p) \/ FailCommit(p) \/ RaiseInOperation(p) \/ Answer(p)
    PROVE  AccountsInv'
  <1>1. FrameBounded
    BY DEF AccountsInv
  <1>2. /\ UNCHANGED <<ticket, queue, batch, counters, oversizedOwner, expansionWaiters>>
        /\ closing' = closing
    BY DEF Begin, Nest, LeaveNested, RaiseNested, RaiseInTransaction, RefuseDoomed,
           SkipHook, Commit, FailCommit, RaiseInOperation, Answer, ledgerVars
  <1>3. FrameBounded'
    <2>1. CASE Begin(p) \/ Nest(p) \/ LeaveNested(p) \/ RaiseNested(p)
      BY <1>1, <2>1, BlockFrame
    <2>2. CASE RaiseInTransaction(p) \/ RefuseDoomed(p) \/ FailCommit(p)
      BY <1>1, <1>2, <2>2, OverFrame DEF RaiseInTransaction, RefuseDoomed, FailCommit, Aborted
    <2>3. CASE Commit(p)
      BY <1>1, <1>2, <2>3, OverFrame DEF Commit
    <2>4. CASE SkipHook(p) \/ RaiseInOperation(p)
      BY <1>1, <1>2, <2>4, GoingFrame DEF SkipHook, RaiseInOperation
    <2>5. CASE Answer(p)
      BY <1>1, <1>2, <2>5, EndingFrame DEF Answer
    <2> QED  BY <2>1, <2>2, <2>3, <2>4, <2>5
  <1> QED  BY <1>2, <1>3, StillAlike

LEMMA HookAccounts ==
    ASSUME AuditInv, AuditInv', AccountsInv, NEW p \in Producers,
           RunHook(p) \/ FailHook(p)
    PROVE  AccountsInv'
  <1>1. FrameBounded
    BY DEF AccountsInv
  <1>2. PICK answer \in Answers : RecordInTransaction(p, answer)
    BY DEF RunHook, FailHook, Answers
  <1>3. closing' = closing
    BY <1>2 DEF RecordInTransaction
  <1>4. FrameBounded'
    <2>1. CASE RunHook(p)
      <3> DEFINE c == [call[p] EXCEPT !.at = "committing", !.inserted = TRUE,
                                      !.staged = TRUE]
      <3>1. call \in [Producers -> CallRecord] /\ call[p] \in CallRecord
            /\ call[p].depth \in 0 .. 2
        BY <1>1 DEF AuditInv, Shape, FrameBounded
      <3>2. c.depth \in 0 .. 2
        BY <3>1 DEF CallRecord
      <3>3. writer' = writer /\ call' = [call EXCEPT ![p] = c]
        BY <2>1, <3>1 DEF RunHook
      <3> HIDE DEF c
      <3> QED  BY <1>1, <1>3, <3>2, <3>3, FrameOfOne
    <2>2. CASE FailHook(p)
      BY <1>1, <1>3, <2>2, OverFrame DEF FailHook, Aborted
    <2> QED  BY <2>1, <2>2
  <1> QED  BY <1>2, <1>4, InTransactionAccounts

LEMMA RecordingAccounts ==
    ASSUME AuditInv, AuditInv', AccountsInv, NEW p \in Producers,
           \/ RecordFailure(p) \/ AskForFailure(p)
           \/ AdmittedForFailure(p) \/ RecordResult(p) \/ ReturnUnrecorded(p)
    PROVE  AccountsInv'
  <1>1. FrameBounded
    BY DEF AccountsInv
  <1>2. CASE RecordFailure(p) \/ AdmittedForFailure(p) \/ RecordResult(p)
    <2>1. PICK what \in Outcomes : BeginRecord(p, what)
      BY <1>2 DEF RecordFailure, AdmittedForFailure, RecordResult, Outcomes
    <2>2. closing' = closing
      BY <2>1 DEF BeginRecord
    <2>3. FrameBounded'
      BY <1>1, <1>2, <2>2, GoingFrame DEF RecordFailure, AdmittedForFailure, RecordResult
    <2> QED  BY <2>1, <2>3, BeginRecordAccounts
  <1>3. CASE AskForFailure(p)
    <2>1. PICK load \in Payloads : Ask(p, load)
      BY <1>3 DEF AskForFailure
    <2>2. FrameBounded'
      BY <1>1, <1>3, <2>1, GoingFrame DEF AskForFailure, Ask
    <2> QED  BY <2>1, <2>2, AskAccounts
  <1>4. CASE ReturnUnrecorded(p)
    <2>1. closing' = closing
      BY <1>4 DEF ReturnUnrecorded, ledgerVars, ReleaseUnused
    <2>2. FrameBounded'
      BY <1>1, <1>4, <2>1, EndingFrame DEF ReturnUnrecorded
    <2>3. CASE Spent(p)
      BY <1>4, <2>2, <2>3, StillAlike DEF ReturnUnrecorded, ledgerVars
    <2>4. CASE ~Spent(p)
      <3>1. GiveBack(p) /\ ticket[p].at \in {"admitted", "leaving"}
            /\ UNCHANGED <<queue, batch>>
        BY <1>4, <2>4 DEF ReturnUnrecorded, ReleaseUnused
      <3> QED  BY <2>2, <3>1, GiveBackAccounts
    <2> QED  BY <2>3, <2>4
  <1> QED  BY <1>2, <1>3, <1>4

LEMMA LedgerStepAccounts ==
    ASSUME AuditInv, AuditInv', AccountsInv, NEW p \in Producers,
           LedgerStepOf(p), UNCHANGED auditedVars
    PROVE  AccountsInv'
  <1>1. FrameBounded
    BY DEF AccountsInv
  <1>2. ASSUME closing' = closing
        PROVE  FrameBounded'
    BY <1>1, <1>2, FrameStays
  <1>3. CASE Admit(p)
    BY <1>2, <1>3, AdmitAccounts DEF Admit
  <1>4. CASE RefuseAdmission(p)
    BY <1>2, <1>4, RefuseAccounts DEF RefuseAdmission
  <1>5. CASE ProceedAsIs(p)
    BY <1>2, <1>5, ProceedAccounts DEF ProceedAsIs
  <1>6. CASE ExpandNow(p)
    BY <1>2, <1>6, ExpandAccounts DEF ExpandNow
  <1>7. CASE LineUp(p)
    BY <1>2, <1>7, LineUpAccounts DEF LineUp
  <1>8. CASE AcquireInTurn(p)
    BY <1>2, <1>8, AcquireAccounts DEF AcquireInTurn
  <1>9. CASE GiveUp(p)
    BY <1>2, <1>9, GiveUpAccounts DEF GiveUp
  <1>10. CASE Enqueue(p)
    BY <1>2, <1>10, EnqueueAccounts DEF Enqueue
  <1>11. CASE GoDirect(p)
    BY <1>2, <1>11, GoDirectAccounts DEF GoDirect
  <1>12. CASE Probe(p)
    BY <1>2, <1>12, StillAlike DEF Probe
  <1>13. CASE PersistDirect(p) \/ FailDirect(p) \/ Despair(p)
    BY <1>2, <1>13, LeaveAccounts DEF PersistDirect, FailDirect, Despair
  <1>14. CASE Release(p)
    BY <1>2, <1>14, GiveBackAccounts DEF Release
  <1> QED
    BY <1>3, <1>4, <1>5, <1>6, <1>7, <1>8, <1>9, <1>10, <1>11, <1>12, <1>13, <1>14
       DEF LedgerStepOf

LEMMA NextAccounts ==
    ASSUME AuditInv, AuditInv', AccountsInv, [Next]_vars
    PROVE  AccountsInv'
  <1>1. FrameBounded
    BY DEF AccountsInv
  <1>2. ASSUME NEW p \in Producers, Step(p)
        PROVE  AccountsInv'
    BY <1>2, StartAccounts, TransactionAccounts, HookAccounts, RecordingAccounts,
       LedgerStepAccounts DEF Step
  <1>3. CASE WorkerStep /\ UNCHANGED auditedVars
    <2>1. ASSUME closing' = closing
          PROVE  FrameBounded'
      BY <1>1, <1>3, <2>1, FrameStays
    <2>2. CASE TakeBatch
      BY <2>1, <2>2, TakeBatchAccounts DEF TakeBatch
    <2>3. CASE CommitBatch
      BY <2>1, <2>3, ResolveAccounts DEF CommitBatch, Answers
    <2>4. CASE \E error \in Failures : FailBatch(error)
      BY <2>1, <2>4, ResolveAccounts DEF FailBatch, Answers
    <2>5. CASE SettleBatch
      BY <2>1, <2>5, SettleBatchAccounts DEF SettleBatch
    <2>6. CASE StopWorker
      BY <2>1, <2>6, StillAlike DEF StopWorker
    <2> QED  BY <1>3, <2>2, <2>3, <2>4, <2>5, <2>6 DEF WorkerStep
  <1>4. CASE (BeginClose \/ EndClose) /\ UNCHANGED auditedVars
    <2>1. FrameBounded'
      BY <1>1, <1>4 DEF BeginClose, EndClose, FrameBounded, auditedVars
    <2> QED  BY <1>4, <2>1, StillAlike DEF BeginClose, EndClose
  <1>5. CASE UNCHANGED vars
    <2>1. FrameBounded'
      BY <1>1, <1>5 DEF vars, ledgerVars, auditedVars, FrameBounded
    <2> QED  BY <1>5, <2>1, StillAlike DEF vars, ledgerVars
  <1> QED  BY <1>2, <1>3, <1>4, <1>5 DEF Next

LEMMA InitAccounts ==
    ASSUME Init PROVE AccountsInv
  <1>1. /\ ticket = [p \in Producers |-> NoTicket]
        /\ call = [p \in Producers |-> Call("none", "idle")]
        /\ queue = <<>> /\ batch = <<>> /\ expansionWaiters = <<>>
        /\ counters = [admittedItems |-> 0, reservedBytes |-> 0, activeProducers |-> 0,
                       queueBytes |-> 0, committingItems |-> 0, committingBytes |-> 0]
        /\ oversizedOwner = Nobody /\ writer = Nobody /\ closing = "open"
    BY DEF Init, LedgerInit
  <1>2. \A p \in Producers : ticket[p] = NoTicket /\ ticket[p].at = "none"
                             /\ call[p].depth = 0
    BY <1>1 DEF NoTicket, Call
  <1>3. \A p \in Producers : SizeSound(p)
    BY <1>2 DEF SizeSound, NoTicket
  <1>4. CountersSound
    <2>1. Shape
      BY InitSound DEF AuditInv
    <2>2. Holders = {}
      BY <1>2 DEF Holders, Counted
    <2>3. ReservedSum = 0
      BY <2>1, <2>2, ReservedIsTotal, TotalEmpty
    <2>4. BytesOf(queue) = 0 /\ BytesOf(batch) = 0 /\ Len(batch) = 0
      BY <1>1, BytesOfEmpty
    <2> QED  BY <1>1, <2>3, <2>4 DEF CountersSound
  <1>5. OwnerSound
    BY <1>1, LedgerAssumption DEF OwnerSound, HasRow, Queued, Taken
  <1>6. LineSound
    BY <1>1, <1>2 DEF LineSound
  <1>7. InFlightBounded
    <2>1. OwnedBytes = 0
      BY <1>1 DEF OwnedBytes
    <2>2. InFlightBytes = 0 /\ InFlightItems = 0
      BY <1>1 DEF InFlightBytes, InFlightItems
    <2> QED  BY <2>1, <2>2, LedgerAssumption DEF InFlightBounded
  <1>8. FrameBounded
    BY <1>1, <1>2 DEF FrameBounded
  <1> QED  BY <1>3, <1>4, <1>5, <1>6, <1>7, <1>8 DEF AccountsInv

(* Reservations, rows, the owner of the queue and the line of those who    *)
(* wait stay in agreement through every interleaving of threads, worker    *)
(* and shutdown: the accounts of activity.py under _queue_lock.            *)
THEOREM AccountsInvariant == Spec => []AccountsInv
  <1>1. Init => AccountsInv
    BY InitAccounts
  <1>2. AuditInv /\ AuditInv' /\ AccountsInv /\ [Next]_vars => AccountsInv'
    BY NextAccounts
  <1> QED  BY <1>1, <1>2, AuditInvariant, PTL DEF Spec

-----------------------------------------------------------------------------
(* What the accounts say of the counters and of those who wait.            *)
LEMMA TotalOfNothing ==
    ASSUME NEW S, IsFiniteSet(S), NEW g, \A x \in S : g[x] = 0
    PROVE  Total(g, S) = 0
  <1> DEFINE Wrong == {n \in Nat : \E T \in SUBSET S : Cardinality(T) = n /\ Total(g, T) # 0}
  <1>1. \A T \in SUBSET S : IsFiniteSet(T) /\ Cardinality(T) \in Nat
    BY FS_Subset, FS_CardinalityType
  <1>2. Wrong = {}
    <2> SUFFICES ASSUME Wrong # {} PROVE FALSE
      OBVIOUS
    <2>1. PICK m \in Wrong : \A k \in Wrong : m <= k
      <3>1. Wrong \subseteq Nat
        OBVIOUS
      <3> HIDE DEF Wrong
      <3> QED  BY <3>1, LeastOf
    <2>2. PICK T \in SUBSET S : Cardinality(T) = m /\ Total(g, T) # 0
      BY <2>1
    <2>3. T # {}
      BY <2>2, TotalEmpty
    <2>4. PICK x \in T : TRUE
      BY <2>3
    <2>5. /\ IsFiniteSet(T) /\ Cardinality(T \ {x}) \in Nat
          /\ Cardinality(T \ {x}) = Cardinality(T) - 1 /\ Cardinality(T) \in Nat
      BY <1>1, <2>4, PickedOff
    <2>6. Total(g, T \ {x}) = 0
      <3>1. Cardinality(T \ {x}) \notin Wrong
        <4> HIDE DEF Wrong
        <4> QED  BY <2>1, <2>2, <2>5
      <3> QED  BY <2>5, <3>1
    <2>7. Total(g, T) = g[x] + Total(g, T \ {x})
      <3>1. \A y \in T : g[y] \in Nat
        OBVIOUS
      <3> QED  BY <2>4, <2>5, <3>1, TotalTakesOut
    <2> QED  BY <2>2, <2>4, <2>6, <2>7
  <1> QED  BY <1>1, <1>2

(* With the worker idle only tickets that wait are blocked, and they hold  *)
(* no room: the first in the line has all of it.                           *)
LEMMA NoneStall ==
    ASSUME AuditInv, AccountsInv, Stalled, oversizedOwner = Nobody
    PROVE  FALSE
  <1>1. /\ worker.at = "waiting" /\ queue = <<>> /\ worker.healthy /\ batch = <<>>
        /\ \A q \in Producers : ticket[q].at # "none" => Blocked(q)
        /\ CountersSound /\ LineSound
    BY DEF Stalled, AuditInv, RowsSound, AccountsInv
  <1>2. \A q \in Producers : Counted(q) => ticket[q].at = "waiting" /\ ticket[q].reserved = 0
    <2>1. \A q \in Producers : Counted(q) => ticket[q].at = "waiting"
      BY <1>1 DEF Counted, Blocked
    <2>2. \A q \in Producers : ticket[q].at = "waiting" => ticket[q].reserved = 0
      BY DEF AccountsInv, SizeSound
    <2> QED  BY <2>1, <2>2
  <1>3. ReservedSum = 0
    <2>1. IsFiniteSet(Holders)
      BY LedgerAssumption, FS_Subset DEF Holders
    <2>2. \A q \in Holders : Weights[q] = 0
      BY <1>2 DEF Holders, Weights
    <2> QED  BY <2>1, <2>2, TotalOfNothing, ReservedIsTotal DEF AuditInv
  <1>4. /\ counters.reservedBytes = 0 /\ counters.queueBytes = 0
        /\ counters.committingBytes = 0 /\ counters.committingItems = 0
    BY <1>1, <1>3, BytesOfEmpty DEF CountersSound
  <1>5. InFlightBytes = 0 /\ QueueIdle
    BY <1>1, <1>4 DEF InFlightBytes, QueueIdle
  <1>6. \A q \in Producers : ticket[q].at # "waiting"
    <2> SUFFICES ASSUME NEW q \in Producers, ticket[q].at = "waiting" PROVE FALSE
      OBVIOUS
    <2>1. expansionWaiters \in Seq(Producers) /\ \E i \in DOMAIN expansionWaiters : TRUE
      BY <1>1 DEF LineSound
    <2> DEFINE first == Head(expansionWaiters)
    <2>2. 1 \in DOMAIN expansionWaiters /\ first = expansionWaiters[1] /\ first \in Producers
      BY <2>1
    <2>3. ticket[first].at = "waiting"
      BY <1>1, <2>2 DEF LineSound
    <2>4. Blocked(first)
      BY <1>1, <2>2, <2>3
    <2>5. ~RoomFor(first, ticket[first].wanted)
      BY <1>1, <2>3, <2>4 DEF Blocked, MustWait, MayProceed
    <2>6. ticket[first].wanted \in Nat /\ MaxTotalBytes \in Nat
      BY <2>2, LedgerAssumption DEF AuditInv, Shape, Ticket
    <2> HIDE DEF first
    <2>7. RoomFor(first, ticket[first].wanted)
      <3>1. CASE Oversized(first)
        BY <1>5, <3>1 DEF RoomFor
      <3>2. CASE ~Oversized(first)
        <4>1. ticket[first].wanted <= MaxTotalBytes
          BY <2>6, <3>2 DEF Oversized
        <4>2. InFlightBytes + ticket[first].wanted <= MaxTotalBytes
          BY <1>5, <2>6, <4>1
        <4> QED  BY <1>5, <3>2, <4>2 DEF RoomFor
      <3> QED  BY <3>1, <3>2
    <2> QED  BY <2>5, <2>7
  <1>7. Holders = {}
    BY <1>2, <1>6 DEF Holders
  <1>8. counters.admittedItems = 0
    BY <1>1, <1>7, FS_EmptySet DEF CountersSound, AuditInv, ShutdownSound
  <1>9. InFlightItems = 0
    <2>1. Len(queue) = 0
      BY <1>1
    <2> QED  BY <1>4, <1>8, <2>1 DEF InFlightItems
  <1>10. PICK p \in Producers : Blocked(p)
    BY DEF Stalled
  <1>11. ticket[p].at = "asking" /\ ~HasCapacity(ticket[p].load.asked)
    BY <1>6, <1>10 DEF Blocked
  <1>12. ticket[p].load.asked \in Nat /\ MaxTotalBytes \in Nat /\ MaxItems \in Nat \ {0}
    BY LedgerAssumption DEF AuditInv, Shape, Ticket, Payload
  <1> QED  BY <1>5, <1>9, <1>11, <1>12 DEF HasCapacity

(* The counters of activity.py, adjusted in eight places and clamped at    *)
(* zero, always equal what is really reserved, queued and being committed; *)
(* they bound what is in memory; and with the worker idle nobody waits for *)
(* room that only waiting threads could give back, unless a record was     *)
(* admitted as oversized.                                                  *)
THEOREM AdmissionStaysExact == Spec => []AdmissionIsExact
  <1>1. AuditInv /\ AccountsInv => AdmissionIsExact
    <2> SUFFICES ASSUME AuditInv, AccountsInv PROVE AdmissionIsExact
      OBVIOUS
    <2>1. AccountsBalance
      <3>1. /\ counters.admittedItems = Cardinality(Holders)
            /\ counters.activeProducers = Cardinality(Holders)
            /\ counters.reservedBytes = ReservedSum
            /\ counters.queueBytes = BytesOf(queue)
            /\ counters.committingItems = Len(batch)
            /\ counters.committingBytes = BytesOf(batch)
        BY DEF AuditInv, ShutdownSound, AccountsInv, CountersSound
      <3>2. ASSUME oversizedOwner # Nobody
            PROVE  \/ oversizedOwner \in Holders
                   \/ \E i \in DOMAIN (queue \o batch) :
                         (queue \o batch)[i].by = oversizedOwner
        <4>1. PICK p \in Producers : oversizedOwner = p /\ (Counted(p) \/ HasRow(p))
          BY <3>2 DEF AccountsInv, OwnerSound
        <4>2. /\ queue \in Seq(Row) /\ batch \in Seq(Row)
              /\ Len(queue) \in Nat /\ Len(batch) \in Nat
              /\ DOMAIN queue = 1 .. Len(queue) /\ DOMAIN batch = 1 .. Len(batch)
              /\ DOMAIN (queue \o batch) = 1 .. Len(queue) + Len(batch)
          BY DEF AuditInv, Shape
        <4>3. CASE Counted(p)
          BY <4>1, <4>3 DEF Holders
        <4>4. CASE \E i \in DOMAIN queue : queue[i].by = p
          <5>1. PICK i \in 1 .. Len(queue) : queue[i].by = p
            BY <4>2, <4>4
          <5>2. i \in 1 .. Len(queue) + Len(batch) /\ i <= Len(queue)
            BY <4>2
          <5>3. (queue \o batch)[i] = queue[i]
            BY <4>2, <5>2, Joined
          <5> QED  BY <4>1, <4>2, <5>1, <5>2, <5>3
        <4>5. CASE \E i \in DOMAIN batch : batch[i].by = p
          <5>1. PICK i \in 1 .. Len(batch) : batch[i].by = p
            BY <4>2, <4>5
          <5> DEFINE k == Len(queue) + i
          <5>2. k \in 1 .. Len(queue) + Len(batch) /\ ~(k <= Len(queue)) /\ k - Len(queue) = i
            BY <4>2
          <5> HIDE DEF k
          <5>3. (queue \o batch)[k] = batch[k - Len(queue)]
            BY <4>2, <5>2, Joined
          <5> QED  BY <4>1, <4>2, <5>1, <5>2, <5>3
        <4> QED  BY <4>1, <4>3, <4>4, <4>5, RowsHaveBytes
      <3>3. ToSet(expansionWaiters) = {p \in Producers : ticket[p].at = "waiting"}
        <4>1. /\ \A i \in DOMAIN expansionWaiters : expansionWaiters[i] \in Producers
              /\ \A p \in Producers : ticket[p].at = "waiting"
                   <=> \E i \in DOMAIN expansionWaiters : expansionWaiters[i] = p
          BY ElementOfSequence DEF AccountsInv, LineSound
        <4> QED  BY <4>1 DEF ToSet
      <3> QED  BY <3>1, <3>2, <3>3 DEF AccountsBalance
    <2>2. InFlightBounded
      BY DEF AccountsInv
    <2>3. OnlyTheOversizedStall
      BY NoneStall DEF OnlyTheOversizedStall
    <2> QED  BY <2>1, <2>2, <2>3 DEF AdmissionIsExact
  <1> QED  BY <1>1, AuditInvariant, AccountsInvariant, PTL

(* Every variable of the ledger and of audited() has its type, and no      *)
(* counter under _queue_lock of activity.py is ever negative.              *)
THEOREM TypesHold == Spec => []TypeOK
  <1>1. AuditInv /\ AccountsInv => TypeOK
    <2> SUFFICES ASSUME AuditInv, AccountsInv PROVE TypeOK
      OBVIOUS
    <2>1. ASSUME NEW p \in Producers
          PROVE  /\ ticket[p].load \in Payload
                 /\ ticket[p].reserved \in Nat /\ ticket[p].expansion \in Nat
                 /\ ticket[p].answer \in {"none", "recorded", "refused", "uncertain"}
                 /\ call[p].kind \in Kinds \cup {"none"}
                 /\ call[p].depth \in 0 .. 2
                 /\ ledger[p] \in [Outcomes -> Nat]
                 /\ commits[p] \in Seq(BOOLEAN)
      <3>1. /\ ticket[p] \in Ticket /\ call[p] \in CallRecord
            /\ ledger[p] \in [Outcomes -> 0 .. 1] /\ commits[p] \in Seq({FALSE})
        BY DEF AuditInv, Shape
      <3>2. call[p].depth \in 0 .. 2
        BY DEF AccountsInv, FrameBounded
      <3>3. ledger[p] \in [Outcomes -> Nat]
        BY <3>1
      <3>4. commits[p] \in Seq(BOOLEAN)
        BY <3>1, SeqMonotonic
      <3> QED  BY <3>1, <3>2, <3>3, <3>4 DEF Ticket, CallRecord, Answers
    <2>2. \A name \in DOMAIN counters : counters[name] \in Nat
      BY DEF AccountsInv, CountersSound
    <2>3. /\ oversizedOwner \in Producers \cup {Nobody}
          /\ expansionWaiters \in Seq(Producers)
      BY DEF AccountsInv, OwnerSound, LineSound
    <2>4. /\ worker.at \in {"waiting", "committing", "settling", "stopped"}
          /\ worker.error \in Failures \cup {"none"}
      BY DEF AuditInv, Shape
    <2>5. /\ closing \in {"open", "draining", "closed", "timed out"}
          /\ writer \in Producers \cup {Nobody}
      BY DEF AccountsInv, FrameBounded
    <2> QED  BY <2>1, <2>2, <2>3, <2>4, <2>5 DEF TypeOK
  <1> QED  BY <1>1, AuditInvariant, AccountsInvariant, PTL
=============================================================================
