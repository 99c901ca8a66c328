------------------------------ MODULE ChatPage ------------------------------
(***************************************************************************)
(* The list of messages on the conversation page (apps/web:                *)
(* conversations/[conversationId]/page.tsx).  Requests overlap: their      *)
(* answers show the history as it was when the server read it and arrive   *)
(* in any order, or not at all.  Deleting a message rewrites its text in   *)
(* place and is left out.                                                  *)
(***************************************************************************)
EXTENDS Integers, SequencesExt, FiniteSetsExt

CONSTANTS Requests,         \* slots of requests under way
          PageSize,         \* 50
          MaxMessages       \* bound: messages of the conversation

PageSizeAssumption == PageSize \in Nat \ {0} /\ MaxMessages \in Nat

VARIABLES stored,           \* number of messages; message n is the n-th created
          shown,            \* messages, in the order of the list
          processed,        \* processedMessageIds
          page,             \* pages asked for
          asked,            \* request under way in a slot
          overlap           \* requests may overlap

vars == <<stored, shown, processed, page, asked, overlap>>

Idle == [kind |-> "idle", got |-> <<>>]

Init ==
    /\ stored \in 0..MaxMessages
    /\ shown = <<>> /\ processed = {} /\ page = 1
    /\ asked = [r \in Requests |-> Idle]
    /\ overlap \in BOOLEAN

(* listMessages: newest first *)
Window(n, number) ==
    LET skipped == (number - 1) * PageSize IN
    [i \in 1..Max({0, Min({PageSize, n - skipped})}) |-> n - skipped - i + 1]

MayAsk(r) ==
    /\ asked[r] = Idle
    /\ overlap \/ \A q \in Requests : asked[q] = Idle

Ask(r, kind, number) ==
    /\ MayAsk(r)
    /\ asked' = [asked EXCEPT ![r] = [kind |-> kind, got |-> Window(stored, number)]]

(* fetchMessages(1, false): on opening, and for every message.created *)
AskLatest(r) == Ask(r, "latest", 1) /\ UNCHANGED <<stored, shown, processed, page, overlap>>

(* backfillMessages, after a jump of the frame numbers *)
AskBackfill(r) == Ask(r, "backfill", 1) /\ UNCHANGED <<stored, shown, processed, page, overlap>>

(* handleLoadMore: the button waits for its answer. *)
AskMore(r) ==
    /\ \A q \in Requests : asked[q].kind # "more"
    /\ page * PageSize < MaxMessages
    /\ page' = page + 1
    /\ Ask(r, "more", page + 1)
    /\ UNCHANGED <<stored, shown, processed, overlap>>

(* handleSend: the server stores the message and returns it. *)
Send(r) ==
    /\ MayAsk(r) /\ stored < MaxMessages
    /\ \A q \in Requests : asked[q].kind # "send"
    /\ stored' = stored + 1
    /\ asked' = [asked EXCEPT ![r] = [kind |-> "send", got |-> <<stored + 1>>]]
    /\ UNCHANGED <<shown, processed, page, overlap>>

OtherSends ==
    /\ stored < MaxMessages /\ stored' = stored + 1
    /\ UNCHANGED <<shown, processed, page, asked, overlap>>

(* Sorted; a message that is there twice stays so. *)
NewestFirst(list) ==
    [i \in DOMAIN list |->
        CHOOSE m \in ToSet(list) : /\ Cardinality({j \in DOMAIN list : list[j] > m}) < i
                                   /\ Cardinality({j \in DOMAIN list : list[j] >= m}) >= i]
With(messages) == NewestFirst(shown \o SetToSeq(messages))

Fresh(list) == ToSet(list) \ processed

(* What the answer does to the list: the latest page replaces it, an older *)
(* page goes in front of it, and the sent message and a backfill add what  *)
(* was not processed before.                                               *)
Arrive(kind, got) ==
    CASE kind = "latest" -> shown' = got /\ processed' = processed \cup ToSet(got)
      [] kind = "more" -> shown' = got \o shown /\ UNCHANGED processed
      [] kind = "send" -> /\ shown' = IF Fresh(got) = {} THEN shown ELSE With(Fresh(got))
                          /\ processed' = processed \cup ToSet(got)
      [] OTHER -> /\ shown' = IF Fresh(got) = {} THEN shown
                              ELSE With(Fresh(got) \ ToSet(shown))
                  /\ processed' = processed \cup ToSet(got)

Answered(r) ==
    /\ asked[r] # Idle
    /\ Arrive(asked[r].kind, asked[r].got)
    /\ asked' = [asked EXCEPT ![r] = Idle]
    /\ UNCHANGED <<stored, page, overlap>>

(* A network error: the list stays as it is. *)
Fails(r) ==
    /\ asked[r] # Idle
    /\ asked' = [asked EXCEPT ![r] = Idle]
    /\ UNCHANGED <<stored, shown, processed, page, overlap>>

Next ==
    \/ OtherSends
    \/ \E r \in Requests :
          \/ AskLatest(r) \/ AskBackfill(r) \/ AskMore(r) \/ Send(r)
          \/ Answered(r) \/ Fails(r)

Spec == Init /\ [][Next]_vars

(***************************************************************************)
(* Properties                                                              *)
(***************************************************************************)
(* The page is well typed. *)
TypeOK ==
    /\ stored \in 0..MaxMessages /\ page \in Nat /\ overlap \in BOOLEAN
    /\ shown \in Seq(1..MaxMessages) /\ processed \subseteq 1..MaxMessages
    /\ \A r \in Requests : asked[r].kind \in {"idle", "latest", "backfill", "more", "send"}

(* Until older pages are asked for, the list is newest first and repeats   *)
(* no message, in whatever order answers to overlapping requests arrive.   *)
ListInOrder ==
    page = 1 => \A i, j \in DOMAIN shown : i < j => shown[i] > shown[j]

(* With one request at a time, a message that counts as processed is on    *)
(* the list, unless a page of newer ones has taken its place: a backfill   *)
(* passes processed messages over, so one that is not shown would be lost. *)
(* It does not hold where requests overlap: a stale first page that        *)
(* arrives last takes a newer message from the list.                       *)
NothingHidden ==
    ~ overlap => \A m \in processed :
        m > stored - PageSize => m \in ToSet(shown)
=============================================================================
