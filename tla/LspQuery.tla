------------------------------ MODULE LspQuery ------------------------------
(***************************************************************************)
(* One run of lsp_query.py: a question to a language server.               *)
(*                                                                         *)
(* Three actors run at their own speed.  The server writes messages to its *)
(* stdout, whatever and whenever it likes.  The reader thread parses them  *)
(* and puts them into a bounded queue.  The client sends its requests,     *)
(* takes messages from the queue until it has an answer or a deadline      *)
(* passes, and closes the connection in any case.  A deadline may pass     *)
(* whenever its owner waits; time itself is not modelled.                  *)
(***************************************************************************)
EXTENDS Integers, Sequences, FiniteSets, SequencesExt, FiniteSetsExt

CONSTANTS
  Diags,      \* diagnostics
  Severe,     \* those of severity 1
  Talk,       \* what the server may say
  MaxSent,    \* bound: messages the server sends
  Pending,    \* MAX_PENDING_MESSAGES
  Long,       \* messages of two units of bytes; all others have one
  ByteMax,    \* MAX_RECEIVED_BYTES in these units
  Faults      \* which troubles the environment makes at the end

(***************************************************************************)
(* "helper": the server has started a process in a session of its own that *)
(* keeps its pipes; "denied": the kernel refuses to signal the server.     *)
(***************************************************************************)
FaultKinds == {"helper", "denied"}

Response(n, a) == [kind |-> "response", id |-> n, says |-> a]
Publish(own, ds) == [kind |-> "publish", own |-> own, items |-> ds]
BadPublish == [kind |-> "bad publish"]
Ask(known) == [kind |-> "ask", known |-> known]
Log == [kind |-> "log"]
Garbage == [kind |-> "garbage"]

(***************************************************************************)
(* A response says "error", or has a result: of initialize (with or        *)
(* without a diagnosticProvider), or of a query (with or without errors).  *)
(***************************************************************************)
Says == {"error", "plain", "provider", "clean", "severe"}

Message ==
  {Response(n, a) : n \in {1, 2}, a \in Says}
    \cup {Publish(own, ds) : own \in BOOLEAN, ds \in SUBSET Diags}
    \cup {BadPublish, Log, Garbage} \cup {Ask(known) : known \in BOOLEAN}

Failure(why) == [kind |-> "failure", why |-> why]

Failures == {Failure("error"), Failure("budget")}

ASSUME QueryAssumption ==
  /\ Severe \subseteq Diags
  /\ Talk \subseteq Message /\ Long \subseteq Message
  /\ MaxSent \in Nat
  /\ Pending \in Nat \ {0}
  /\ ByteMax \in Nat
  /\ Faults \subseteq FaultKinds

VARIABLES
  server,    \* is the server process up
  helper,    \* is there a helper that keeps the pipes
  out,       \* messages in the stdout pipe
  rpc,       \* where the reader thread is
  hand,      \* what it is about to put: nothing or one element
  received,  \* received_bytes
  kept,      \* notification_count
  queue,     \* messages
  pc,        \* where the client is
  action,    \* what is asked
  provider,  \* the server has announced a diagnosticProvider
  counter,   \* the id of the last request
  published, \* notifications
  writing,   \* a writer thread is still blocked in its write
  outcome,   \* how the question ended
  result,    \* the diagnostics that are printed
  closed,    \* the client has closed stdout
  denied,    \* a signal was refused
  code,      \* the exit code
  sent,      \* history: all the server has written
  heard      \* history: all the client has taken from the queue

world == << server, helper, sent >>
thread == << rpc, hand, received, kept >>
asking == << action, provider, counter, published, writing, outcome, result, heard >>
ending == << closed, denied, code >>
vars == << world, out, thread, queue, pc, asking, ending >>

NoCode == 9

(***************************************************************************)
(* Every variable has its type.                                            *)
(***************************************************************************)
TypeOK ==
  /\ server \in {"up", "down"} /\ helper \in BOOLEAN
  /\ out \in Seq(Message) /\ sent \in Seq(Message) /\ heard \in Seq(Message \cup Failures)
  /\ rpc \in {"reading", "putting", "failing", "ended"}
  /\ hand \in Seq(Message \cup Failures) /\ Len(hand) <= 1
  /\ received \in Nat /\ kept \in Nat
  /\ queue \in Seq(Message \cup Failures)
  /\ pc \in {"request", "await", "notify", "collect",
             "term", "wait", "kill", "stdin", "stdout", "join", "done"}
  /\ action \in {"diagnostics", "navigation"}
  /\ provider \in BOOLEAN /\ writing \in BOOLEAN
  /\ closed \in BOOLEAN /\ denied \in BOOLEAN
  /\ counter \in 0..2
  /\ published \in Seq(Message)
  /\ outcome \in {"none", "complete", "unverified", "error", "budget"}
  /\ result \in SUBSET Diags
  /\ code \in {0, 1, 2, NoCode}

Init ==
  /\ server = "up"
  /\ helper \in {FALSE} \cup (IF "helper" \in Faults THEN {TRUE} ELSE {})
  /\ out = << >> /\ sent = << >> /\ heard = << >>
  /\ rpc = "reading" /\ hand = << >>
  /\ received = 0 /\ kept = 0
  /\ queue = << >>
  /\ pc = "request"
  /\ action \in {"diagnostics", "navigation"}
  /\ provider = FALSE /\ writing = FALSE
  /\ closed = FALSE /\ denied = FALSE
  /\ counter = 0
  /\ published = << >>
  /\ outcome = "none" /\ result = {}
  /\ code = NoCode

-----------------------------------------------------------------------------
(***************************************************************************)
(* The server, and whoever else holds its pipes.                           *)
(***************************************************************************)
Held == server = "up" \/ helper

Emit ==
  /\ server = "up"
  /\ Len(sent) < MaxSent
  /\ \E m \in Talk : sent' = Append(sent, m) /\ out' = Append(out, m)
  /\ UNCHANGED << server, helper, thread, queue, pc, asking, ending >>

(***************************************************************************)
(* The server ends: by itself, on a signal, or because stdin is closed.    *)
(***************************************************************************)
ServerExit ==
  /\ server = "up"
  /\ server' = "down"
  /\ UNCHANGED << helper, sent, out, thread, queue, pc, asking, ending >>

-----------------------------------------------------------------------------
(***************************************************************************)
(* The reader thread.  Every byte counts against the budget, what is       *)
(* discarded included, and no more than one byte beyond it is ever read;   *)
(* of notifications only the retained ones are counted.                    *)
(***************************************************************************)
Size(m) == IF m \in Long THEN 2 ELSE 1

Put(m) == rpc' = "putting" /\ hand' = << m >>
Stop(why) == rpc' = "failing" /\ hand' = << Failure(why) >>

Accept(m) ==
  \/ m = Garbage /\ Stop("error") /\ UNCHANGED kept
  \/ m = Log /\ UNCHANGED << rpc, hand, kept >>
  \/ /\ m.kind \in {"publish", "bad publish"}
     /\ kept' = kept + 1
     /\ IF kept = Pending THEN Stop("budget") ELSE Put(m)
  \/ m.kind \in {"response", "ask"} /\ Put(m) /\ UNCHANGED kept

Read ==
  /\ rpc = "reading" /\ ~closed /\ out # << >>
  /\ out' = Tail(out)
  /\ LET total == received + Size(Head(out)) IN
       \/ /\ total > ByteMax
          /\ received' = ByteMax + 1
          /\ Stop("budget") /\ UNCHANGED kept
       \/ /\ total <= ByteMax
          /\ received' = total
          /\ Accept(Head(out))
  /\ UNCHANGED << world, queue, pc, asking, ending >>

(***************************************************************************)
(* Nobody can write to the pipe any more, or the client has closed it.     *)
(***************************************************************************)
ReadEnd ==
  /\ rpc = "reading"
  /\ closed \/ (out = << >> /\ ~Held)
  /\ Stop("error")
  /\ UNCHANGED << world, out, received, kept, queue, pc, asking, ending >>

PutMessage ==
  /\ rpc = "putting" /\ Len(queue) < Pending
  /\ queue' = queue \o hand
  /\ rpc' = "reading" /\ hand' = << >>
  /\ UNCHANGED << world, out, received, kept, pc, asking, ending >>

(***************************************************************************)
(* Nobody has taken a message from the full queue for REQUEST_TIMEOUT.     *)
(***************************************************************************)
PutTimesOut ==
  /\ rpc = "putting" /\ Len(queue) = Pending
  /\ Stop("error")
  /\ UNCHANGED << world, out, received, kept, queue, pc, asking, ending >>

PutFailureFirst ==  \* variant: the failure overtakes what was read
  /\ rpc = "failing" /\ Len(queue) < Pending
  /\ queue' = hand \o queue
  /\ rpc' = "ended" /\ hand' = << >>
  /\ UNCHANGED << world, out, received, kept, pc, asking, ending >>

PutFailure ==
  /\ rpc = "failing" /\ Len(queue) < Pending
  /\ queue' = queue \o hand
  /\ rpc' = "ended" /\ hand' = << >>
  /\ UNCHANGED << world, out, received, kept, pc, asking, ending >>

(***************************************************************************)
(* The failure does not fit in: the thread terminates the server, which    *)
(* may make it exit, and ends.                                             *)
(***************************************************************************)
FailureTimesOut ==
  /\ rpc = "failing" /\ Len(queue) = Pending
  /\ rpc' = "ended" /\ hand' = << >>
  /\ UNCHANGED << world, out, received, kept, queue, pc, asking, ending >>

Reader ==
  \/ Read \/ ReadEnd
  \/ PutMessage \/ PutTimesOut
  \/ PutFailure \/ FailureTimesOut

-----------------------------------------------------------------------------
(***************************************************************************)
(* The client.  An exception goes to the `finally` that closes.            *)
(***************************************************************************)
RaiseAway(why) ==  \* variant: no `finally`
  pc' = "done" /\ outcome' = why /\ UNCHANGED writing

Raise(why) == pc' = "term" /\ outcome' = why /\ UNCHANGED writing

(***************************************************************************)
(* send: a thread writes while the client waits for it at most             *)
(* REQUEST_TIMEOUT; it fails when nobody holds the other end of stdin.     *)
(***************************************************************************)
Send(next) ==
  \/ Held /\ pc' = next /\ UNCHANGED << outcome, writing >>
  \/ ~Held /\ Raise("error")
  \/ Held /\ pc' = "term" /\ outcome' = "error" /\ writing' = TRUE

Request ==
  /\ pc = "request"
  /\ counter' = counter + 1
  /\ Send("await")
  /\ UNCHANGED << world, out, thread, queue, ending, action, provider, published,
                  result, heard >>

(***************************************************************************)
(* receive takes the first message from the queue.                         *)
(***************************************************************************)
Receive(m) ==
  /\ pc \in {"await", "collect"} /\ queue # << >>
  /\ m = Head(queue)
  /\ queue' = Tail(queue)
  /\ heard' = Append(heard, m)

(***************************************************************************)
(* The reader's failures come through the queue, after what it had read.   *)
(***************************************************************************)
TakeFailure ==
  \E why \in {"error", "budget"} :
     /\ Receive(Failure(why))
     /\ Raise(why)
     /\ UNCHANGED << world, out, thread, ending, action, provider, counter, published,
                     result >>

(***************************************************************************)
(* A request of the server is answered; an unsupported one is the end.     *)
(***************************************************************************)
TakeAsk ==
  \E known \in BOOLEAN :
     /\ Receive(Ask(known))
     /\ IF known THEN Send(pc) ELSE Raise("error")
     /\ UNCHANGED << world, out, thread, ending, action, provider, counter, published,
                     result >>

TakePublish ==
  \E own \in BOOLEAN, ds \in SUBSET Diags :
     /\ Receive(Publish(own, ds))
     /\ IF Len(published) >= Pending
          THEN Raise("budget") /\ UNCHANGED published
          ELSE /\ published' = Append(published, Publish(own, ds))
               /\ UNCHANGED << pc, outcome, writing >>
     /\ UNCHANGED << world, out, thread, ending, action, provider, counter, result >>

TakeBadPublish ==
  /\ Receive(BadPublish)
  /\ Raise("error")
  /\ UNCHANGED << world, out, thread, ending, action, provider, counter, published, result >>

(***************************************************************************)
(* request waits for the response to its id.  Any other response is an     *)
(* error, and so is a result that does not have the form the method asks   *)
(* for.  The first request is initialize, the second the question itself.  *)
(***************************************************************************)
Accepted(n) == IF n = 1 THEN {"plain", "provider"} ELSE {"clean", "severe"}

Answered(n, a) ==
  IF n = 1
    THEN /\ pc' = "notify" /\ provider' = (a = "provider")
         /\ UNCHANGED << outcome, result, writing >>
    ELSE /\ pc' = "term" /\ outcome' = "complete"
         /\ \/ a = "severe" /\ Severe # {} /\ result' = Severe
            \/ a = "clean" /\ result' = {}
         /\ UNCHANGED << provider, writing >>

TakeAnyAnswer ==  \* variant: the id is not compared with the request's
  \E n \in {1, 2}, a \in Says :
     /\ pc = "await" /\ Receive(Response(n, a))
     /\ IF a \in Accepted(n)
          THEN Answered(n, a)
          ELSE Raise("error") /\ UNCHANGED << provider, result >>
     /\ UNCHANGED << world, out, thread, ending, action, counter, published >>

TakeAnswer ==
  \E n \in {1, 2}, a \in Says :
     /\ pc = "await" /\ Receive(Response(n, a))
     /\ IF n = counter /\ a \in Accepted(n)
          THEN Answered(n, a)
          ELSE Raise("error") /\ UNCHANGED << provider, result >>
     /\ UNCHANGED << world, out, thread, ending, action, counter, published >>

(***************************************************************************)
(* initialized and didOpen; then the question is a request, or, without a  *)
(* diagnosticProvider, the wait for published diagnostics.                 *)
(***************************************************************************)
Notify ==
  /\ pc = "notify"
  /\ Send(IF action = "diagnostics" /\ ~provider THEN "collect" ELSE "request")
  /\ UNCHANGED << world, out, thread, queue, ending, action, provider, counter,
                  published, result, heard >>

(***************************************************************************)
(* diagnostics without a provider: once something is published for the     *)
(* file, what is queued already is taken in, and then the last publication *)
(* is the answer, together with the errors of earlier ones.                *)
(***************************************************************************)
Own == {i \in DOMAIN published : published[i].own}

DropResponse ==
  /\ pc = "collect"
  /\ \E n \in {1, 2}, a \in Says : Receive(Response(n, a))
  /\ UNCHANGED << world, out, thread, pc, ending, action, provider, counter, published,
                  writing, outcome, result >>

EarlierErrors == (UNION {published[i].items : i \in Own \ {Max(Own)}}) \cap Severe

Conclude ==
  /\ pc = "collect" /\ Own # {} /\ queue = << >>
  /\ pc' = "term" /\ outcome' = "unverified"
  /\ result' = published[Max(Own)].items \cup EarlierErrors
  /\ UNCHANGED << world, out, thread, queue, ending, action, provider, counter,
                  published, writing, heard >>

(***************************************************************************)
(* The deadline of a request, or of the diagnostics, passes.               *)
(***************************************************************************)
NoDeadline ==  \* variant: get() without a timeout
  /\ FALSE
  /\ Raise("error")
  /\ UNCHANGED << world, out, thread, queue, ending, action, provider, counter,
                  published, result, heard >>

RetryDeadline ==  \* variant: a request that timed out is sent again
  /\ pc \in {"await", "collect"}
  /\ pc' = "request"
  /\ UNCHANGED << world, out, thread, queue, ending, action, provider, counter,
                  published, writing, outcome, result, heard >>

Deadline ==
  /\ pc \in {"await", "collect"}
  /\ Raise("error")
  /\ UNCHANGED << world, out, thread, queue, ending, action, provider, counter,
                  published, result, heard >>

Question ==
  \/ Request \/ Notify \/ Conclude \/ Deadline
  \/ TakeFailure \/ TakeAsk \/ TakePublish \/ TakeBadPublish
  \/ TakeAnswer \/ DropResponse

-----------------------------------------------------------------------------
(***************************************************************************)
(* close.  SIGTERM to the process group, unless it is refused while the    *)
(* server lives: then what follows is only the `finally` of close.         *)
(***************************************************************************)
Terminate ==
  /\ pc = "term"
  /\ \/ pc' = "wait" /\ UNCHANGED denied
     \/ /\ "denied" \in Faults /\ server = "up"
        /\ pc' = "kill" /\ denied' = TRUE
  /\ UNCHANGED << world, out, thread, queue, asking, closed, code >>

(***************************************************************************)
(* The server has ended within three seconds, or is killed.                *)
(***************************************************************************)
Wait ==
  /\ pc = "wait" /\ pc' = "kill"
  /\ server' = "down"
  /\ UNCHANGED << helper, sent, out, thread, queue, asking, ending >>

(***************************************************************************)
(* SIGKILL to what is left of the group, refused like the SIGTERM.         *)
(***************************************************************************)
KillGroup ==
  /\ pc = "kill" /\ pc' = "stdin"
  /\ server' = IF denied THEN server ELSE "down"
  /\ UNCHANGED << helper, sent, out, thread, queue, asking, ending >>

(***************************************************************************)
(* A pipe object has a lock.  close() waits for it while another thread is *)
(* inside a write, or inside a read that has nothing to read.              *)
(***************************************************************************)
CloseStdin ==
  /\ pc = "stdin" /\ pc' = "stdout"
  /\ ~(writing /\ Held)
  /\ UNCHANGED << world, out, thread, queue, asking, ending >>

CloseStdout ==
  /\ pc = "stdout" /\ pc' = "join"
  /\ ~(rpc = "reading" /\ out = << >> /\ Held)
  /\ closed' = TRUE
  /\ UNCHANGED << world, out, thread, queue, asking, denied, code >>

(***************************************************************************)
(* The reader thread is joined for a second at most.  A refused signal is  *)
(* an OSError; else the exit code tells what was found.                    *)
(***************************************************************************)
ExitCode ==
  CASE denied \/ outcome \in {"error", "budget"} -> 2
    [] ~denied /\ outcome = "complete" ->
         IF action = "diagnostics" /\ result \cap Severe # {} THEN 1 ELSE 0
    [] ~denied /\ outcome = "unverified" -> IF result \cap Severe # {} THEN 1 ELSE 2

Join ==
  /\ pc = "join" /\ pc' = "done"
  /\ code' = ExitCode
  /\ UNCHANGED << world, out, thread, queue, asking, closed, denied >>

Close ==
  \/ Terminate \/ Wait \/ KillGroup
  \/ CloseStdin \/ CloseStdout \/ Join

Next == Emit \/ ServerExit \/ Reader \/ Question \/ Close

Spec == Init /\ [][Next]_vars

(***************************************************************************)
(* The threads run and their timeouts pass.  Nothing is assumed of the     *)
(* server: neither that it speaks nor that it ends.                        *)
(***************************************************************************)
FairSpec == Spec /\ WF_vars(Reader) /\ WF_vars(Question \/ Close)

-----------------------------------------------------------------------------
(***************************************************************************)
(* Properties.                                                             *)
(***************************************************************************)
(***************************************************************************)
(* The elements of a sequence that are in a set, in their order: SelectSeq *)
(* as a recursive function, which a proof can unfold.                      *)
(***************************************************************************)
Selected(s, S) ==
  LET upTo[n \in 0..Len(s)] ==
        IF n = 0 THEN << >>
        ELSE IF s[n] \in S THEN Append(upTo[n - 1], s[n]) ELSE upTo[n - 1]
  IN upTo[Len(s)]

IsFailure(m) == m.kind = "failure"
Retained(s) == Selected(s, Message \ {Log})
Spoken(s) == Selected(s, Message)

(***************************************************************************)
(* What the client has taken, what is queued and what the reader holds is  *)
(* what the server has written, in order and without gaps, but for logs;   *)
(* a failure comes after all that was read before it.                      *)
(***************************************************************************)
StreamInOrder ==
  LET taken == heard \o queue \o hand IN
    /\ IsPrefix(Spoken(taken), Retained(sent))
    /\ \A i \in DOMAIN taken : IsFailure(taken[i]) => i = Len(taken)

(***************************************************************************)
(* A complete answer is the response to the question's own id, and the     *)
(* only other response the client has taken is that to initialize.         *)
(***************************************************************************)
AnswersMatch ==
  outcome = "complete" =>
    \E first, last \in DOMAIN heard :
      /\ {i \in DOMAIN heard : heard[i].kind = "response"} = {first, last}
      /\ first < last /\ last = Len(heard)
      /\ heard[first].id = 1 /\ heard[first].says \in Accepted(1)
      /\ heard[last].id = 2 /\ heard[last].says \in Accepted(2)

(***************************************************************************)
(* An error that was published for the file and taken before the answer is *)
(* reported, also if a later publication has cleared it.                   *)
(***************************************************************************)
ErrorsSurvive ==
  outcome = "unverified" =>
    \A i \in DOMAIN heard :
      heard[i].kind = "publish" /\ heard[i].own => heard[i].items \cap Severe \subseteq result

(***************************************************************************)
(* Whatever the server writes, the queue, the notifications and the bytes  *)
(* stay within their limits.                                               *)
(***************************************************************************)
WithinLimits ==
  /\ Len(queue) <= Pending
  /\ Len(published) <= Pending
  /\ received <= ByteMax + 1

(***************************************************************************)
(* A budget is reported as exceeded only if the server has written more    *)
(* than the byte budget (a unit for each message and one more for a long   *)
(* one), or more publications than may be pending: logs and progress do    *)
(* not use up the latter.                                                  *)
(***************************************************************************)
Count(s, S) == Cardinality({i \in DOMAIN s : s[i] \in S})
Publications == {m \in Message : m.kind \in {"publish", "bad publish"}}

BudgetIsEarned ==
  outcome = "budget" =>
    \/ Len(sent) + Count(sent, Long) > ByteMax
    \/ Count(sent, Publications) > Pending

(***************************************************************************)
(* What the query says is so: a complete answer is the server's answer to  *)
(* the question asked, no error is swallowed on the way to it, and a       *)
(* budget that is reported as exceeded has been exceeded.                  *)
(***************************************************************************)
OutcomeIsTrue == AnswersMatch /\ ErrorsSurvive /\ BudgetIsEarned

(***************************************************************************)
(* When the query has exited no server is left behind, unless the kernel   *)
(* refused to signal it.                                                   *)
(***************************************************************************)
ServerIsGone == pc = "done" /\ ~denied => server = "down"

(***************************************************************************)
(* The query ends, whatever the server does or fails to do, and so does    *)
(* its reader thread.                                                      *)
(***************************************************************************)
EveryQueryEnds == <>(pc = "done") /\ <>(rpc = "ended")

=============================================================================
