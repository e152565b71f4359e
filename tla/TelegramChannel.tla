-------------------------- MODULE TelegramChannel ---------------------------
(* TelegramDecisionChannel for one decision: the multipart delivery with its  *)
(* immutable delivery records, the polling of answers under a lease shared by *)
(* the host processes, and the settlement that takes the buttons away. The    *)
(* Bot API has no idempotency key: a send may arrive and its answer be lost.  *)
EXTENDS Integers, Sequences, FiniteSets

CONSTANTS Hosts,      \* host processes that run the channel
          Parts,      \* messages of the decision, recipients times parts
          MaxPresses, \* bound: updates the people in the chat cause
          MaxTrouble  \* bound: crashes, failed calls, lost projections

ASSUME TelegramAssumption == Parts \in Nat /\ {MaxPresses, MaxTrouble} \subseteq Nat

VARIABLES
    records,   \* records[p]: states recorded for part p, over all attempts
    finished,  \* states of the "complete" records
    projected, \* projected[p]: message_parts holds the part
    arrived,   \* arrived[p]: times the part has reached the chat
    delivery,  \* the deliver() under way: pc, part and what it read of the records
    updates,   \* what the Bot API holds: buttons pressed and replies, oldest first
    offset,    \* next_offset
    prompts,   \* a ForceReply prompt of the text choice is bound
    handled,   \* updates handleUpdate has returned from
    poll,      \* poll[h]: pc and position of h in its batch
    lease,     \* leases.owner, Nobody once it is released or has expired
    verdict,   \* the decision: Open, the update that answered it, or Elsewhere
    settled,   \* settlement records, in order
    trouble

telVars == <<records, finished, projected, arrived, delivery, updates, offset, prompts,
             handled, poll, lease, verdict, settled, trouble>>
deliveryVars == <<records, finished, projected, arrived, delivery>>
pollVars == <<updates, offset, prompts, handled, poll, lease>>

Nobody == "nobody"
Ghost == "ghost"
Open == 0
Elsewhere == -1
AllParts == 1..Parts
Updates == 1..(2 * MaxPresses)
MaxSettlements == 3

TelTypeOK ==
    /\ records \in [AllParts -> SUBSET {"intent", "confirmed", "failed", "unknown"}]
    /\ finished \subseteq {"confirmed", "failed", "unknown"}
    /\ projected \in [AllParts -> BOOLEAN]
    /\ \A p \in AllParts : arrived[p] \in 0..MaxTrouble + 1
    /\ delivery.pc \in {"idle", "part", "call", "confirmed", "failed", "unknown"}
    /\ Len(updates) \in 0..2 * MaxPresses /\ offset \in 1..2 * MaxPresses + 1
    /\ handled \subseteq Updates
    /\ verdict \in Updates \union {Open, Elsewhere} /\ lease \in Hosts \union {Nobody, Ghost}
    /\ Len(settled) <= MaxSettlements /\ trouble \in 0..MaxTrouble

NoDelivery == [pc |-> "idle", part |-> 1, prior |-> {}]
Loop == [pc |-> "loop", next |-> 0]

TelInit ==
    /\ records = [p \in AllParts |-> {}] /\ finished = {}
    /\ projected = [p \in AllParts |-> FALSE] /\ arrived = [p \in AllParts |-> 0]
    /\ delivery = NoDelivery
    /\ updates = <<>> /\ offset = 1 /\ prompts = FALSE /\ handled = {}
    /\ poll = [h \in Hosts |-> Loop] /\ lease = Nobody
    /\ verdict = Open /\ settled = <<>> /\ trouble = 0

Trouble == trouble < MaxTrouble /\ trouble' = trouble + 1

-----------------------------------------------------------------------------
(* deliver: by the session that owns the waiting run *)

\* Variant: an attempt that left no result is taken for one that sent nothing.
NeverUnsettled == FALSE

\* A part's intent counts as settled by a result of any attempt.
HasUnsettledIntent == \E p \in AllParts : records[p] = {"intent"}

IsUnknown == "unknown" \in finished \/ \E p \in AllParts : "unknown" \in records[p]

Deliver ==
    /\ delivery.pc = "idle" /\ verdict = Open
    /\ "confirmed" \notin finished /\ ~IsUnknown /\ ~HasUnsettledIntent
    /\ delivery' = [pc |-> "part", part |-> 1,
                    prior |-> {p \in AllParts : "confirmed" \in records[p]}]
    /\ UNCHANGED <<records, finished, projected, arrived, pollVars, verdict, settled, trouble>>

\* A part is adopted, sent after its intent is stored, or its evidence disagrees.
DeliverPart ==
    /\ delivery.pc = "part" /\ delivery.part \in AllParts
    /\ LET p == delivery.part IN
       \/ /\ p \in delivery.prior /\ projected[p]
          /\ delivery' = [delivery EXCEPT !.part = p + 1] /\ UNCHANGED records
       \/ /\ (p \in delivery.prior) # projected[p]
          /\ records' = [records EXCEPT ![p] = @ \union {"unknown"}]
          /\ delivery' = NoDelivery
       \/ /\ p \notin delivery.prior /\ ~projected[p]
          /\ records' = [records EXCEPT ![p] = @ \union {"intent"}]
          /\ delivery' = [delivery EXCEPT !.pc = "call"]
    /\ UNCHANGED <<finished, projected, arrived, pollVars, verdict, settled, trouble>>

\* sendMessage: answered; refused; or no answer, and the message may have arrived.
CallIsAnswered ==
    /\ delivery.pc = "call"
    /\ arrived' = [arrived EXCEPT ![delivery.part] = @ + 1]
    /\ projected' = [projected EXCEPT ![delivery.part] = TRUE]
    /\ delivery' = [delivery EXCEPT !.pc = "confirmed"]
    /\ UNCHANGED <<records, finished, pollVars, verdict, settled, trouble>>

CallFails ==
    /\ delivery.pc = "call" /\ Trouble
    /\ \/ delivery' = [delivery EXCEPT !.pc = "failed"] /\ UNCHANGED arrived
       \/ /\ delivery' = [delivery EXCEPT !.pc = "unknown"]
          /\ arrived' \in {arrived, [arrived EXCEPT ![delivery.part] = @ + 1]}
    /\ UNCHANGED <<records, finished, projected, pollVars, verdict, settled>>

\* The part's result is stored; a failed one ends the attempt.
RecordPart ==
    /\ delivery.pc \in {"confirmed", "failed", "unknown"}
    /\ records' = [records EXCEPT ![delivery.part] = @ \union {delivery.pc}]
    /\ IF delivery.pc = "confirmed"
       THEN /\ delivery' = [delivery EXCEPT !.pc = "part", !.part = @ + 1] /\ UNCHANGED finished
       ELSE /\ delivery' = NoDelivery /\ finished' = finished \union {delivery.pc}
    /\ UNCHANGED <<projected, arrived, pollVars, verdict, settled, trouble>>

CompleteDelivery ==
    /\ delivery.pc = "part" /\ delivery.part > Parts
    /\ finished' = finished \union {"confirmed"} /\ delivery' = NoDelivery
    /\ UNCHANGED <<records, projected, arrived, pollVars, verdict, settled, trouble>>

\* The process dies inside deliver; the projection, disposable, may be lost.
DeliveryDies ==
    /\ delivery.pc # "idle" /\ Trouble
    /\ delivery' = NoDelivery
    /\ arrived' \in IF delivery.pc = "call"
                    THEN {arrived, [arrived EXCEPT ![delivery.part] = @ + 1]} ELSE {arrived}
    /\ UNCHANGED <<records, finished, projected, pollVars, verdict, settled>>

LoseProjection ==
    /\ delivery.pc = "idle" /\ Trouble
    /\ \E p \in AllParts : projected[p]
    /\ projected' = [p \in AllParts |-> FALSE] /\ prompts' = FALSE
    /\ UNCHANGED <<records, finished, arrived, delivery, updates, offset, handled, poll, lease, verdict, settled>>

-----------------------------------------------------------------------------
(* poll and handleUpdate, in every host process *)

\* The people in the chat: the buttons go with the last part, and stay until a
\* settlement has taken them away.
Press(kind) ==
    /\ Cardinality({u \in DOMAIN updates : updates[u] # "reply"}) < MaxPresses
    /\ arrived[Parts] > 0 /\ ~\E k \in DOMAIN settled : settled[k] = "confirmed"
    /\ updates' = Append(updates, kind)
    /\ UNCHANGED <<deliveryVars, offset, prompts, handled, poll, lease, verdict, settled, trouble>>

Reply ==
    /\ prompts /\ Len(updates) < 2 * MaxPresses
    /\ ~\E u \in DOMAIN updates : updates[u] = "reply"
    /\ updates' = Append(updates, "reply")
    /\ UNCHANGED <<deliveryVars, offset, prompts, handled, poll, lease, verdict, settled, trouble>>

\* The lease, and the batch from the stored offset on
Fetch(h) ==
    /\ poll[h].pc = "loop" /\ lease \in {h, Nobody} /\ offset \in DOMAIN updates
    /\ lease' = h
    /\ poll' = [poll EXCEPT ![h] = [pc |-> "handle", next |-> offset]]
    /\ UNCHANGED <<deliveryVars, updates, offset, prompts, handled, verdict, settled, trouble>>

\* onAnswer throws when another answer or a cancellation has won.
Refused(u) ==
    /\ updates[u] = "button" \/ (updates[u] = "reply" /\ prompts)
    /\ verdict \notin {Open, u}

\* handleUpdate returns: an answer, a prompt for the text, or a foreign update.
HandleUpdate(h) ==
    LET u == poll[h].next IN
    /\ poll[h].pc = "handle" /\ u \in DOMAIN updates /\ ~Refused(u)
    /\ handled' = handled \union {u}
    /\ poll' = [poll EXCEPT ![h].pc = "store"]
    /\ IF updates[u] = "text"
       THEN prompts' = TRUE /\ UNCHANGED verdict
       ELSE /\ verdict' = (IF updates[u] = "reply" /\ ~prompts THEN verdict ELSE u)
            /\ prompts' = (prompts /\ updates[u] # "reply")
    /\ UNCHANGED <<deliveryVars, updates, offset, lease, settled, trouble>>

\* It throws: the batch is given up, and the offset stays.
HandleThrows(h) ==
    /\ poll[h].pc = "handle" /\ poll[h].next \in DOMAIN updates /\ Refused(poll[h].next)
    /\ poll' = [poll EXCEPT ![h] = Loop]
    /\ UNCHANGED <<deliveryVars, updates, offset, prompts, handled, lease, verdict, settled, trouble>>

\* Variant: the whole batch is acknowledged with its first update.
StoreBatch(h) ==
    /\ poll[h].pc = "store"
    /\ offset' = Len(updates) + 1
    /\ poll' = [poll EXCEPT ![h] = [pc |-> "handle", next |-> poll[h].next + 1]]
    /\ UNCHANGED <<deliveryVars, updates, prompts, handled, lease, verdict, settled, trouble>>

\* setOffset keeps the larger one.
StoreOffset(h) ==
    /\ poll[h].pc = "store"
    /\ offset' = IF poll[h].next >= offset THEN poll[h].next + 1 ELSE offset
    /\ poll' = [poll EXCEPT ![h] = [pc |-> "handle", next |-> poll[h].next + 1]]
    /\ UNCHANGED <<deliveryVars, updates, prompts, handled, lease, verdict, settled, trouble>>

\* The batch is done: renew, or release where the lease is another's.
EndBatch(h) ==
    /\ poll[h].pc = "handle" /\ poll[h].next \notin DOMAIN updates
    /\ poll' = [poll EXCEPT ![h] = Loop]
    /\ UNCHANGED <<deliveryVars, updates, offset, prompts, handled, lease, verdict, settled, trouble>>

\* Its successor has another owner id: the lease stays with the dead one.
HostDies(h) ==
    /\ poll[h].pc # "loop" /\ Trouble
    /\ poll' = [poll EXCEPT ![h] = Loop]
    /\ lease' = IF lease = h THEN Ghost ELSE lease
    /\ UNCHANGED <<deliveryVars, updates, offset, prompts, handled, verdict, settled>>

\* Variant: a lease is held until it is released.
LeaseStays == FALSE /\ UNCHANGED telVars

\* The lease runs out, of a dead host or under a slow one.
LeaseExpires ==
    /\ lease # Nobody /\ lease' = Nobody
    /\ UNCHANGED <<deliveryVars, updates, offset, prompts, handled, poll, verdict, settled, trouble>>

-----------------------------------------------------------------------------
(* settle: the keyboards of all projected messages are removed *)

DecidedElsewhere ==
    /\ verdict = Open /\ verdict' = Elsewhere
    /\ UNCHANGED <<deliveryVars, pollVars, settled, trouble>>

SettleChannel ==
    /\ verdict # Open /\ Len(settled) < MaxSettlements
    /\ ~\E k \in DOMAIN settled : settled[k] = "confirmed"
    /\ \/ settled' = Append(settled, "confirmed") /\ UNCHANGED trouble
       \/ Trouble /\ settled' = Append(settled, "failed")
    /\ UNCHANGED <<deliveryVars, pollVars, verdict>>

-----------------------------------------------------------------------------
DeliverGoesOn == Deliver \/ DeliverPart \/ CallIsAnswered \/ RecordPart \/ CompleteDelivery
PollGoesOn(h) == Fetch(h) \/ HandleUpdate(h) \/ HandleThrows(h) \/ StoreOffset(h) \/ EndBatch(h)

TelNext ==
    \/ DeliverGoesOn \/ CallFails \/ DeliveryDies \/ LoseProjection
    \/ \E kind \in {"button", "text"} : Press(kind)
    \/ Reply \/ LeaseExpires \/ DecidedElsewhere \/ SettleChannel
    \/ \E h \in Hosts : PollGoesOn(h) \/ HostDies(h)

TelSpec == TelInit /\ [][TelNext]_telVars

-----------------------------------------------------------------------------
(* Properties *)

\* A part that may have been sent is not sent again by itself: a second copy
\* follows a refusal that is on record for that part.
NoBlindResend == \A p \in AllParts : arrived[p] > 1 => "failed" \in records[p]

\* What the docs say without that reservation.
PartSentOnce == \A p \in AllParts : arrived[p] <= 1

\* The stored offset passes no update that was not handled: no answer is lost.
NoUpdateSkipped == \A u \in DOMAIN updates : u < offset => u \in handled

\* Every update is consumed unless one at or before it is refused.
UpdateConsumed ==
    []<>(\A u \in DOMAIN updates : offset > u \/ \E v \in 1..u : Refused(v))
=============================================================================
