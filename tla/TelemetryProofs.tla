-------------------------- MODULE TelemetryProofs ---------------------------
(***************************************************************************)
(* The metrics endpoint for any number of requests, metrics and panics.    *)
(*                                                                         *)
(* A request's outcome is a matter of its own goroutine alone (Outcomes);  *)
(* each metric is at every moment the number of requests that have come as *)
(* far as it (Counts), which is what a scrape relies on (Views).           *)
(***************************************************************************)
EXTENDS Telemetry, FiniteSetTheorems, SequenceTheorems, TLAPS

(* What can have been written to a connection.                             *)
Empty == << >>
Sent(c) == <<c>>
Twice(c) == <<c, 500>>

SlowReader(r) == kind[r].client = "slow to read"

LEMMA SlowReaderKept == \A r: kind' = kind /\ SlowReader(r) => SlowReader(r)'
  BY DEF SlowReader

(* What is known of a request when its chain has returned, before its      *)
(* error, if any, is answered.                                             *)
Returned(r) ==
    \/ /\ err[r] \in {404, 405, 413} /\ status[r] = 200 /\ sent[r] = Empty /\ alive[r]
    \/ /\ err[r] = 0 /\ status[r] = 200
       /\ \/ alive[r] /\ sent[r] = Sent(200)
          \/ alive[r] /\ sent[r] = Sent(500)
          \/ ~alive[r] /\ sent[r] = Empty /\ SlowReader(r)
    \/ /\ err[r] = 0 /\ status[r] = 500 /\ "recover" \in log[r]
       /\ \/ alive[r] /\ sent[r] \in {Sent(500), Twice(200), Twice(500)}
          \/ ~alive[r] /\ sent[r] = Empty

Served(r) ==
    \/ /\ label[r] = 200 /\ "error" \in log[r]
       /\ sent[r] \in {Sent(404), Sent(405), Sent(413)}
    \/ /\ label[r] = 200
       /\ \/ alive[r] /\ sent[r] = Sent(200)
          \/ alive[r] /\ sent[r] = Sent(500)
          \/ ~alive[r] /\ sent[r] = Empty /\ SlowReader(r)
    \/ /\ label[r] = 500 /\ "recover" \in log[r]
       /\ \/ alive[r] /\ sent[r] \in {Sent(500), Twice(200), Twice(500)}
          \/ ~alive[r] /\ sent[r] = Empty

(* What is known of a request at each stage.                               *)
Outcome(r) ==
    /\ pc[r] \in {"idle", "sending", "gather"} =>
         err[r] = 0 /\ status[r] = 200 /\ sent[r] = Empty /\ alive[r]
    /\ pc[r] = "leave" => err[r] = 0 /\ status[r] = 200 /\ Returned(r)
    /\ pc[r] \in {"returned", "logger", "answer"} => Returned(r)
    /\ pc[r] \in {"logger", "answer"} => label[r] = status[r]
    /\ pc[r] = "answer" /\ err[r] # 0 => "error" \in log[r]
    /\ pc[r] = "over" => Served(r)
    /\ pc[r] = "closed" => kind[r].client = "slow to send" \/ "server" \in log[r]

Outcomes == \A r \in Requests: Outcome(r)

(* A step that does not concern a request.                                 *)
Same(q) ==
    /\ kind' = kind /\ pc'[q] = pc[q] /\ err'[q] = err[q] /\ status'[q] = status[q]
    /\ label'[q] = label[q] /\ sent'[q] = sent[q] /\ alive'[q] = alive[q]
    /\ log'[q] = log[q]

LEMMA OthersKeep == \A q \in Requests: Same(q) /\ Outcome(q) => Outcome(q)'
<1>. SUFFICES ASSUME NEW q \in Requests, Same(q), Outcome(q) PROVE Outcome(q)'
  OBVIOUS
<1>1. Returned(q) => Returned(q)'
  BY SlowReaderKept DEF Same, Returned
<1>2. Served(q) => Served(q)'
  BY SlowReaderKept DEF Same, Served
<1>. QED  BY <1>1, <1>2 DEF Same, Outcome

(* The level of a line in the log changes nothing of what has happened.    *)
LEMMA ReturnedKept ==
    \A r \in Requests:
        /\ Returned(r) /\ log[r] \subseteq log'[r] /\ kind' = kind
        /\ err'[r] = err[r] /\ status'[r] = status[r] /\ sent'[r] = sent[r]
        /\ alive'[r] = alive[r]
        => Returned(r)'
  BY SlowReaderKept DEF Returned

LEMMA Appended ==
    \A c \in Codes: Append(Empty, c) = Sent(c) /\ Append(Sent(c), 500) = Twice(c)
<1>. SUFFICES ASSUME NEW c \in Codes
              PROVE  Append(Empty, c) = Sent(c) /\ Append(Sent(c), 500) = Twice(c)
  OBVIOUS
<1>1. Append(<< >>, c) = <<c>>
  OBVIOUS
<1>2. Append(<<c>>, 500) = <<c, 500>>
  <2>. DEFINE t == Append(<<c>>, 500)
  <2>1. <<c>> \in Seq(Codes) /\ 500 \in Codes /\ <<c, 500>> \in Seq(Codes)
    BY DEF Codes
  <2>2. /\ t \in Seq(Codes) /\ Len(t) = 2 /\ t[1] = c /\ t[2] = 500
    BY <2>1, AppendProperties
  <2>. HIDE DEF t
  <2>3. \A i \in 1..2: t[i] = <<c, 500>>[i]
    BY <2>2
  <2>. DEFINE u == <<c, 500>>
  <2>4. u \in Seq(Codes) /\ Len(u) = 2 /\ Len(t) = Len(u)
        /\ \A i \in 1..Len(t): t[i] = u[i]
    BY <2>1, <2>2, <2>3
  <2>. HIDE DEF u
  <2>5. t = u
    BY <2>2, <2>4, SeqEqual
  <2>. QED  BY <2>5 DEF t, u
<1>. QED  BY <1>1, <1>2 DEF Empty, Sent, Twice

LEMMA AppendTyped ==
    ASSUME NEW r \in Requests, NEW c \in Codes, sent \in [Requests -> Seq(Codes)]
    PROVE  [sent EXCEPT ![r] = Append(@, c)] \in [Requests -> Seq(Codes)]
<1>1. Append(sent[r], c) \in Seq(Codes)
  OBVIOUS
<1>. QED  BY <1>1

LEMMA RefusalTyped ==
    ASSUME TypeOK, NEW r \in Requests PROVE Refusal(kind[r]) \in {0, 404, 405, 413}
<1>1. kind[r] \in Kinds
  BY DEF TypeOK
<1>2. kind[r].route \in {0, 404, 405}
  BY <1>1, RequestsAssumption
<1>. QED  BY <1>2 DEF Refusal

LEMMA TypeStep == TypeOK /\ [Next]_vars => TypeOK'
<1>. SUFFICES ASSUME TypeOK, [Next]_vars PROVE TypeOK'
  OBVIOUS
<1>. USE DEF TypeOK, Ends, Step, Logs
<1>1. ASSUME NEW r \in Requests, Send(r) PROVE TypeOK'
  BY <1>1 DEF Send
<1>2. ASSUME NEW r \in Requests, Receive(r) PROVE TypeOK'
  <2>1. Refusal(kind[r]) \in {0, 404, 405, 413}
    BY RefusalTyped
  <2>2. err' \in [Requests -> {0, 404, 405, 413}]
    BY <1>2, <2>1 DEF Receive
  <2>3. inflight' \in Int
    <3>1. inflight' = inflight + 1 \/ inflight' = inflight
      BY <1>2 DEF Receive
    <3>2. inflight \in Int
      OBVIOUS
    <3>. HIDE DEF TypeOK
    <3>. QED  BY <3>1, <3>2
  <2>4. pc' = [pc EXCEPT ![r] = "gather"] \/ pc' = [pc EXCEPT ![r] = "returned"]
    BY <1>2 DEF Receive
  <2>. QED  BY <1>2, <2>2, <2>3, <2>4 DEF Receive
<1>3. ASSUME NEW r \in Requests, ReadTimeout(r) PROVE TypeOK'
  BY <1>3 DEF ReadTimeout, TimesOut
<1>4. ASSUME NEW r \in Requests, NEW m \in Metrics, Collect(r, m) PROVE TypeOK'
  BY <1>4 DEF Collect
<1>5. ASSUME NEW r \in Requests, Respond(r) PROVE TypeOK'
  <2>1. sent' \in [Requests -> Seq(Codes)]
    <3>1. 200 \in Codes
      BY DEF Codes
    <3>2. sent' = [sent EXCEPT ![r] = Append(@, 200)]
      BY <1>5 DEF Respond
    <3>. QED  BY <3>1, <3>2, AppendTyped
  <2>. QED  BY <1>5, <2>1 DEF Respond
<1>6. ASSUME NEW r \in Requests, WriteTimeout(r) PROVE TypeOK'
  <2>1. log' \in [Requests -> SUBSET {"info", "error", "promhttp", "recover", "server"}]
    <3>1. CASE log' = log
      BY <3>1
    <3>2. CASE log' = [log EXCEPT ![r] = @ \cup {"promhttp"}]
      BY <3>2
    <3>. QED  BY <1>6, <3>1, <3>2 DEF WriteTimeout
  <2>2. /\ pc' = [pc EXCEPT ![r] = "leave"] /\ alive' = [alive EXCEPT ![r] = FALSE]
        /\ UNCHANGED <<kind, err, status, label, counted, metric, view, inflight, sent,
                       earlier, panics>>
    BY <1>6 DEF WriteTimeout
  <2>. QED  BY <2>1, <2>2
<1>7. ASSUME NEW r \in Requests, Leave(r) PROVE TypeOK'
  <2>1. inflight' \in Int
    BY <1>7 DEF Leave
  <2>. QED  BY <1>7, <2>1 DEF Leave
<1>8. ASSUME NEW r \in Requests, NEW m \in Metrics, Count(r, m) PROVE TypeOK'
  <2>1. m \in 0..LastMetric /\ status[r] \in Codes
    <3>1. m \in 1..LastMetric /\ LastMetric \in Nat
      BY RequestsAssumption DEF Metrics
    <3>2. m \in 0..LastMetric
      <4>. HIDE DEF TypeOK
      <4>. QED  BY <3>1
    <3>. QED  BY <3>2
  <2>2. counted' \in [Requests -> 0..LastMetric]
    BY <1>8, <2>1 DEF Count, Counting
  <2>3. label' \in [Requests -> Codes \cup {0}]
    BY <1>8, <2>1 DEF Count, Counting
  <2>4. metric' \in [Metrics -> [Codes -> Nat]]
    <3>1. [metric[m] EXCEPT ![status[r]] = metric[m][status[r]] + 1] \in [Codes -> Nat]
      BY <2>1
    <3>. QED  BY <1>8, <2>1, <3>1 DEF Count, Counting
  <2>5. pc' = pc \/ pc' = [pc EXCEPT ![r] = "logger"]
    BY <1>8 DEF Count, Counting
  <2>. QED  BY <1>8, <2>2, <2>3, <2>4, <2>5 DEF Count, Counting
<1>9. ASSUME NEW r \in Requests, LabelPanics(r) PROVE TypeOK'
  BY <1>9 DEF LabelPanics
<1>10. ASSUME NEW r \in Requests, Logger(r) PROVE TypeOK'
  BY <1>10 DEF Logger
<1>11. ASSUME NEW r \in Requests, Answer(r) PROVE TypeOK'
  <2>1. err[r] # 0 => err[r] \in Codes
    BY DEF Codes
  <2>2. status' \in [Requests -> Codes]
    BY <1>11, <2>1 DEF Answer, ErrorResponse
  <2>3. sent' \in [Requests -> Seq(Codes)]
    <3>1. \/ sent' = sent
          \/ err[r] # 0 /\ sent' = [sent EXCEPT ![r] = Append(@, err[r])]
      BY <1>11 DEF Answer, ErrorResponse
    <3>2. CASE sent' = sent
      BY <3>2
    <3>3. CASE err[r] # 0 /\ sent' = [sent EXCEPT ![r] = Append(@, err[r])]
      <4>1. err[r] \in Codes /\ sent \in [Requests -> Seq(Codes)]
        BY <2>1, <3>3
      <4>. HIDE DEF TypeOK
      <4>. QED  BY <3>3, <4>1, AppendTyped
    <3>. QED  BY <3>1, <3>2, <3>3
  <2>. QED  BY <1>11, <2>2, <2>3 DEF Answer
<1>12. ASSUME NEW r \in Requests, GatherFails(r) PROVE TypeOK'
  <2>1. sent' \in [Requests -> Seq(Codes)]
    <3>1. 500 \in Codes
      BY DEF Codes
    <3>2. sent' = [sent EXCEPT ![r] = Append(@, 500)]
      BY <1>12 DEF GatherFails
    <3>. QED  BY <3>1, <3>2, AppendTyped
  <2>. QED  BY <1>12, <2>1 DEF GatherFails
<1>13. ASSUME NEW r \in Requests, Recover(r) PROVE TypeOK'
  <2>1. sent' \in [Requests -> Seq(Codes)] /\ status' \in [Requests -> Codes]
    BY <1>13, AppendTyped DEF Recover, ErrorResponse, Codes
  <2>2. inflight' \in Int /\ panics' \in 0..MaxPanics
    <3>1. inflight' = inflight - 1 /\ panics' = panics + 1 /\ panics < MaxPanics
      BY <1>13 DEF Recover, Panicking
    <3>2. inflight \in Int /\ panics \in 0..MaxPanics /\ MaxPanics \in Nat
      BY RequestsAssumption
    <3>. HIDE DEF TypeOK
    <3>. QED  BY <3>1, <3>2
  <2>. QED  BY <1>13, <2>1, <2>2 DEF Recover, Panicking
<1>14. CASE UNCHANGED vars
  BY <1>14 DEF vars
<1>. QED  BY <1>1, <1>2, <1>3, <1>4, <1>5, <1>6, <1>7, <1>8, <1>9, <1>10, <1>11, <1>12, <1>13, <1>14 DEF Next, Serve

LEMMA OutcomeStep == TypeOK /\ Outcomes /\ [Next]_vars => Outcomes'
<1>. SUFFICES ASSUME TypeOK, Outcomes, [Next]_vars PROVE Outcomes'
  OBVIOUS
<1>. USE DEF Outcomes, Step, Logs
<1>0. /\ DOMAIN pc = Requests /\ DOMAIN err = Requests /\ DOMAIN status = Requests
      /\ DOMAIN label = Requests /\ DOMAIN sent = Requests /\ DOMAIN alive = Requests
      /\ DOMAIN log = Requests
  BY DEF TypeOK
<1>1. ASSUME NEW r \in Requests, Send(r) PROVE Outcomes'
  <2>1. \A q \in Requests \ {r}: Same(q)
    BY <1>1, <1>0 DEF Send, Same
  <2>2. /\ pc[r] = "idle" /\ pc'[r] = "sending"
        /\ err'[r] = err[r] /\ status'[r] = status[r] /\ label'[r] = label[r]
        /\ sent'[r] = sent[r] /\ alive'[r] = alive[r] /\ log'[r] = log[r] /\ kind' = kind
    BY <1>1, <1>0 DEF Send
  <2>3. Outcome(r)
    OBVIOUS
  <2>5. Outcome(r)'
    BY <2>2, <2>3, ReturnedKept DEF Outcome
  <2>. QED  BY <2>1, <2>5, OthersKeep
<1>2. ASSUME NEW r \in Requests, Receive(r) PROVE Outcomes'
  <2>1. \A q \in Requests \ {r}: Same(q)
    BY <1>2, <1>0 DEF Receive, Refusal, Same
  <2>2. /\ pc[r] = "sending"
        /\ pc'[r] \in {"gather", "returned"}
        /\ pc'[r] = "gather" => err'[r] = 0
        /\ pc'[r] = "returned" => err'[r] \in {404, 405, 413}
        /\ status'[r] = status[r] /\ label'[r] = label[r] /\ sent'[r] = sent[r]
        /\ alive'[r] = alive[r] /\ log'[r] = log[r]
    <3>1. \/ Refusal(kind[r]) = 0 \/ Refusal(kind[r]) \in {404, 405, 413}
      BY RefusalTyped
    <3>. QED  BY <1>2, <1>0, <3>1 DEF Receive
  <2>3. Outcome(r)
    OBVIOUS
  <2>4. pc'[r] = "returned" => Returned(r)'
    <3>1. /\ err[r] = 0 /\ status[r] = 200 /\ sent[r] = Empty /\ alive[r]
      BY <2>2, <2>3 DEF Outcome
    <3>. QED  BY <2>2, <3>1 DEF Returned
  <2>5. Outcome(r)'
    <3>1. /\ err[r] = 0 /\ status[r] = 200 /\ sent[r] = Empty /\ alive[r]
      BY <2>2, <2>3 DEF Outcome
    <3>2. CASE pc'[r] = "gather"
      <4>1. err'[r] = 0 /\ status'[r] = 200 /\ sent'[r] = Empty /\ alive'[r]
        BY <2>2, <3>1, <3>2
      <4>. QED  BY <3>2, <4>1 DEF Outcome
    <3>3. CASE pc'[r] = "returned"
      BY <2>2, <2>4, <3>3 DEF Outcome
    <3>. QED  BY <2>2, <3>2, <3>3
  <2>. QED  BY <2>1, <2>5, OthersKeep
<1>3. ASSUME NEW r \in Requests, ReadTimeout(r) PROVE Outcomes'
  <2>1. \A q \in Requests \ {r}: Same(q)
    BY <1>3, <1>0 DEF ReadTimeout, TimesOut, Same
  <2>2. /\ pc'[r] = "closed" /\ kind'[r].client = "slow to send"
        /\ err'[r] = err[r] /\ status'[r] = status[r] /\ label'[r] = label[r]
        /\ sent'[r] = sent[r] /\ log'[r] = log[r]
    BY <1>3, <1>0 DEF ReadTimeout, TimesOut
  <2>3. Outcome(r)
    OBVIOUS
  <2>5. Outcome(r)'
    BY <2>2 DEF Outcome
  <2>. QED  BY <2>1, <2>5, OthersKeep
<1>4. ASSUME NEW r \in Requests, NEW m \in Metrics, Collect(r, m) PROVE Outcomes'
  <2>1. \A q \in Requests \ {r}: Same(q)
    BY <1>4, <1>0 DEF Collect, Same
  <2>2. /\ pc[r] = "gather" /\ pc'[r] = "gather"
        /\ err'[r] = err[r] /\ status'[r] = status[r] /\ label'[r] = label[r]
        /\ sent'[r] = sent[r] /\ alive'[r] = alive[r] /\ log'[r] = log[r] /\ kind' = kind
    BY <1>4, <1>0 DEF Collect
  <2>3. Outcome(r)
    OBVIOUS
  <2>5. Outcome(r)'
    BY <2>2, <2>3, ReturnedKept DEF Outcome
  <2>. QED  BY <2>1, <2>5, OthersKeep
<1>5. ASSUME NEW r \in Requests, Respond(r) PROVE Outcomes'
  <2>1. \A q \in Requests \ {r}: Same(q)
    BY <1>5, <1>0 DEF Respond, Same
  <2>2. /\ pc[r] = "gather" /\ pc'[r] = "leave"
        /\ sent'[r] = Append(sent[r], 200)
        /\ err'[r] = err[r] /\ status'[r] = status[r] /\ label'[r] = label[r]
        /\ alive'[r] = alive[r] /\ log'[r] = log[r]
    BY <1>5, <1>0 DEF Respond
  <2>3. Outcome(r)
    OBVIOUS
  <2>4. Returned(r)' /\ err'[r] = 0 /\ status'[r] = 200
    <3>1. err[r] = 0 /\ status[r] = 200 /\ sent[r] = Empty /\ alive[r]
      BY <2>2, <2>3 DEF Outcome
    <3>2. Append(Empty, 200) = Sent(200) /\ Append(Empty, 500) = Sent(500)
      BY Appended DEF Codes
    <3>. QED  BY <2>2, <3>1, <3>2 DEF Returned
  <2>5. Outcome(r)'
    BY <2>2, <2>4 DEF Outcome
  <2>. QED  BY <2>1, <2>5, OthersKeep
<1>6. ASSUME NEW r \in Requests, WriteTimeout(r) PROVE Outcomes'
  <2>1. \A q \in Requests \ {r}: Same(q)
    BY <1>6, <1>0 DEF WriteTimeout, TimesOut, Same
  <2>2. /\ pc[r] = "gather" /\ pc'[r] = "leave"
        /\ alive'[r] = FALSE /\ SlowReader(r)'
        /\ err'[r] = err[r] /\ status'[r] = status[r] /\ label'[r] = label[r]
        /\ sent'[r] = sent[r]
    BY <1>6, <1>0 DEF WriteTimeout, TimesOut, SlowReader
  <2>3. Outcome(r)
    OBVIOUS
  <2>4. Returned(r)' /\ err'[r] = 0 /\ status'[r] = 200
    <3>1. err[r] = 0 /\ status[r] = 200 /\ sent[r] = Empty /\ alive[r]
      BY <2>2, <2>3 DEF Outcome
    <3>2. Append(Empty, 200) = Sent(200) /\ Append(Empty, 500) = Sent(500)
      BY Appended DEF Codes
    <3>. QED  BY <2>2, <3>1, <3>2 DEF Returned
  <2>5. Outcome(r)'
    BY <2>2, <2>4 DEF Outcome
  <2>. QED  BY <2>1, <2>5, OthersKeep
<1>7. ASSUME NEW r \in Requests, Leave(r) PROVE Outcomes'
  <2>1. \A q \in Requests \ {r}: Same(q)
    BY <1>7, <1>0 DEF Leave, Same
  <2>2. /\ pc[r] = "leave" /\ pc'[r] = "returned"
        /\ err'[r] = err[r] /\ status'[r] = status[r] /\ label'[r] = label[r]
        /\ sent'[r] = sent[r] /\ alive'[r] = alive[r] /\ log'[r] = log[r] /\ kind' = kind
    BY <1>7, <1>0 DEF Leave
  <2>3. Outcome(r)
    OBVIOUS
  <2>5. Outcome(r)'
    BY <2>2, <2>3, ReturnedKept DEF Outcome
  <2>. QED  BY <2>1, <2>5, OthersKeep
<1>8. ASSUME NEW r \in Requests, NEW m \in Metrics, Count(r, m) PROVE Outcomes'
  <2>1. \A q \in Requests \ {r}: Same(q)
    BY <1>8, <1>0 DEF Count, Counting, Same
  <2>2. /\ pc[r] = "returned" /\ pc'[r] \in {"returned", "logger"}
        /\ label'[r] = status[r]
        /\ err'[r] = err[r] /\ status'[r] = status[r] /\ sent'[r] = sent[r]
        /\ alive'[r] = alive[r] /\ log'[r] = log[r] /\ kind' = kind
    BY <1>8, <1>0 DEF Count, Counting
  <2>3. Outcome(r)
    OBVIOUS
  <2>5. Outcome(r)'
    BY <2>2, <2>3, ReturnedKept DEF Outcome
  <2>. QED  BY <2>1, <2>5, OthersKeep
<1>9. ASSUME NEW r \in Requests, LabelPanics(r) PROVE Outcomes'
  <2>1. \A q \in Requests \ {r}: Same(q)
    BY <1>9, <1>0 DEF LabelPanics, Same
  <2>2. /\ pc'[r] = "closed" /\ "server" \in log'[r]
        /\ err'[r] = err[r] /\ status'[r] = status[r] /\ label'[r] = label[r]
        /\ sent'[r] = sent[r]
    BY <1>9, <1>0 DEF LabelPanics
  <2>3. Outcome(r)
    OBVIOUS
  <2>5. Outcome(r)'
    BY <2>2 DEF Outcome
  <2>. QED  BY <2>1, <2>5, OthersKeep
<1>10. ASSUME NEW r \in Requests, Logger(r) PROVE Outcomes'
  <2>1. \A q \in Requests \ {r}: Same(q)
    BY <1>10, <1>0 DEF Logger, Same
  <2>2. /\ pc[r] = "logger" /\ pc'[r] = "answer"
        /\ log[r] \subseteq log'[r]
        /\ err[r] # 0 => "error" \in log'[r]
        /\ err'[r] = err[r] /\ status'[r] = status[r] /\ label'[r] = label[r]
        /\ sent'[r] = sent[r] /\ alive'[r] = alive[r] /\ kind' = kind
    BY <1>10, <1>0 DEF Logger
  <2>3. Outcome(r)
    OBVIOUS
  <2>5. Outcome(r)'
    BY <2>2, <2>3, ReturnedKept DEF Outcome
  <2>. QED  BY <2>1, <2>5, OthersKeep
<1>11. ASSUME NEW r \in Requests, Answer(r) PROVE Outcomes'
  <2>1. \A q \in Requests \ {r}: Same(q)
    BY <1>11, <1>0 DEF Answer, ErrorResponse, Same
  <2>2. /\ pc[r] = "answer" /\ pc'[r] = "over"
        /\ err[r] = 0 => sent'[r] = sent[r]
        /\ err[r] # 0 => sent'[r] = IF alive[r] THEN Append(sent[r], err[r]) ELSE sent[r]
        /\ err'[r] = err[r] /\ label'[r] = label[r] /\ alive'[r] = alive[r]
        /\ log'[r] = log[r] /\ kind' = kind
    BY <1>11, <1>0 DEF Answer, ErrorResponse
  <2>3. Outcome(r)
    OBVIOUS
  <2>4. Served(r)'
    <3>1. Returned(r) /\ label[r] = status[r] /\ (err[r] # 0 => "error" \in log[r])
      BY <2>2, <2>3 DEF Outcome
    <3>2. CASE err[r] = 0
      <4>1. kind' = kind /\ sent'[r] = sent[r] /\ label'[r] = status[r]
            /\ alive'[r] = alive[r] /\ log'[r] = log[r]
        BY <2>2, <3>1, <3>2
      <4>2. SlowReader(r) => SlowReader(r)'
        BY <4>1, SlowReaderKept
      <4>3. CASE status[r] = 200
        BY <4>1, <4>2, <4>3, <3>1, <3>2 DEF Returned, Served
      <4>4. CASE status[r] # 200
        BY <4>1, <4>4, <3>1 DEF Returned, Served
      <4>. QED  BY <4>3, <4>4
    <3>3. CASE err[r] # 0
      <4>1. /\ err[r] \in {404, 405, 413} /\ label[r] = 200 /\ sent[r] = Empty /\ alive[r]
        BY <3>1, <3>3 DEF Returned
      <4>2. \A c \in {404, 405, 413}: Append(Empty, c) = Sent(c)
        BY Appended DEF Codes
      <4>3. sent'[r] \in {Sent(404), Sent(405), Sent(413)}
        <5>1. sent'[r] = Append(Empty, err[r])
          BY <2>2, <3>3, <4>1
        <5>. QED  BY <4>1, <4>2, <5>1
      <4>. QED  BY <2>2, <3>1, <3>3, <4>1, <4>3 DEF Served
    <3>. QED  BY <3>2, <3>3
  <2>5. Outcome(r)'
    BY <2>2, <2>4 DEF Outcome
  <2>. QED  BY <2>1, <2>5, OthersKeep
<1>12. ASSUME NEW r \in Requests, GatherFails(r) PROVE Outcomes'
  <2>1. \A q \in Requests \ {r}: Same(q)
    BY <1>12, <1>0 DEF GatherFails, Same
  <2>2. /\ pc[r] = "gather" /\ pc'[r] = "leave"
        /\ sent'[r] = Append(sent[r], 500)
        /\ err'[r] = err[r] /\ status'[r] = status[r] /\ label'[r] = label[r]
        /\ alive'[r] = alive[r]
    BY <1>12, <1>0 DEF GatherFails
  <2>3. Outcome(r)
    OBVIOUS
  <2>4. Returned(r)' /\ err'[r] = 0 /\ status'[r] = 200
    <3>1. err[r] = 0 /\ status[r] = 200 /\ sent[r] = Empty /\ alive[r]
      BY <2>2, <2>3 DEF Outcome
    <3>2. Append(Empty, 200) = Sent(200) /\ Append(Empty, 500) = Sent(500)
      BY Appended DEF Codes
    <3>. QED  BY <2>2, <3>1, <3>2 DEF Returned
  <2>5. Outcome(r)'
    BY <2>2, <2>4 DEF Outcome
  <2>. QED  BY <2>1, <2>5, OthersKeep
<1>13. ASSUME NEW r \in Requests, Recover(r) PROVE Outcomes'
  <2>1. \A q \in Requests \ {r}: Same(q)
    BY <1>13, <1>0 DEF Recover, ErrorResponse, Panicking, Same
  <2>2. /\ pc[r] \in {"gather", "leave"} /\ pc'[r] = "returned"
        /\ status'[r] = 500 /\ "recover" \in log'[r]
        /\ sent'[r] = IF alive[r] THEN Append(sent[r], 500) ELSE sent[r]
        /\ err'[r] = err[r] /\ label'[r] = label[r] /\ alive'[r] = alive[r]
    BY <1>13, <1>0 DEF Recover, ErrorResponse, Panicking
  <2>3. Outcome(r)
    OBVIOUS
  <2>4. Returned(r)'
    <3>1. /\ err[r] = 0
          /\ \/ alive[r] /\ sent[r] \in {Empty, Sent(200), Sent(500)}
             \/ ~alive[r] /\ sent[r] = Empty
      <4>1. CASE pc[r] = "gather"
        BY <2>3, <4>1 DEF Outcome
      <4>2. CASE pc[r] = "leave"
        <5>1. err[r] = 0 /\ status[r] = 200 /\ Returned(r)
          BY <2>3, <4>2 DEF Outcome
        <5>. QED  BY <5>1 DEF Returned
      <4>. QED  BY <2>2, <4>1, <4>2
    <3>2. /\ Append(Empty, 500) = Sent(500)
          /\ Append(Sent(200), 500) = Twice(200) /\ Append(Sent(500), 500) = Twice(500)
      BY Appended DEF Codes
    <3>3. CASE alive[r]
      BY <2>2, <3>1, <3>2, <3>3 DEF Returned
    <3>4. CASE ~alive[r]
      BY <2>2, <3>1, <3>4 DEF Returned
    <3>. QED  BY <3>3, <3>4
  <2>5. Outcome(r)'
    BY <2>2, <2>4 DEF Outcome
  <2>. QED  BY <2>1, <2>5, OthersKeep
<1>14. CASE UNCHANGED vars
  BY <1>14, OthersKeep DEF vars, Same
<1>. QED  BY <1>1, <1>2, <1>3, <1>4, <1>5, <1>6, <1>7, <1>8, <1>9, <1>10, <1>11, <1>12, <1>13, <1>14 DEF Next, Serve

-----------------------------------------------------------------------------
LEMMA Numbers ==
    /\ LastMetric \in Nat \ {0} /\ MaxPanics \in Nat /\ IsFiniteSet(Requests)
    /\ \A m \in Metrics: m \in Nat \ {0} /\ m \in 0..LastMetric /\ 0 < m /\ m <= LastMetric
<1>1. LastMetric \in Nat \ {0} /\ MaxPanics \in Nat /\ IsFiniteSet(Requests)
  BY RequestsAssumption
<1>2. \A m \in Metrics: m \in Nat \ {0} /\ m \in 0..LastMetric /\ 0 < m /\ m <= LastMetric
  BY <1>1 DEF Metrics
<1>. QED  BY <1>1, <1>2

(* How far a request has been counted, and under which code.               *)
Progress ==
    \A r \in Requests:
        /\ pc[r] \in {"idle", "sending", "gather", "leave", "closed"} => counted[r] = 0
        /\ pc[r] = "returned" =>
             counted[r] < LastMetric /\ (counted[r] > 0 => label[r] = status[r])
        /\ pc[r] \in {"logger", "answer", "over"} => counted[r] = LastMetric
        /\ ~kind[r].label => counted[r] = 0

LEMMA ProgressStep == TypeOK /\ Progress /\ [Next]_vars => Progress'
<1>. SUFFICES ASSUME TypeOK, Progress, [Next]_vars PROVE Progress'
  OBVIOUS
<1>. USE DEF Progress, Step, Logs, Ends
<1>0. /\ pc \in [Requests -> {"idle", "sending", "gather", "leave", "returned",
                              "logger", "answer"} \cup Ends]
      /\ DOMAIN status = Requests /\ DOMAIN label = Requests
      /\ counted \in [Requests -> 0..LastMetric] /\ LastMetric \in Nat \ {0}
  BY Numbers DEF TypeOK
<1>1. ASSUME NEW r \in Requests, Send(r) PROVE Progress'
  BY <1>1, <1>0 DEF Send
<1>2. ASSUME NEW r \in Requests, Receive(r) PROVE Progress'
  <2>1. /\ pc[r] = "sending" /\ pc'[r] \in {"gather", "returned"}
        /\ \A q \in Requests \ {r}: pc'[q] = pc[q]
        /\ UNCHANGED <<kind, status, label, counted>>
    BY <1>2, <1>0 DEF Receive
  <2>2. counted[r] = 0 /\ 0 < LastMetric
    BY <1>0, <2>1
  <2>. QED  BY <1>0, <2>1, <2>2
<1>3. ASSUME NEW r \in Requests, ReadTimeout(r) PROVE Progress'
  BY <1>3, <1>0 DEF ReadTimeout, TimesOut
<1>4. ASSUME NEW r \in Requests, NEW m \in Metrics, Collect(r, m) PROVE Progress'
  BY <1>4, <1>0 DEF Collect
<1>5. ASSUME NEW r \in Requests, Respond(r) PROVE Progress'
  BY <1>5, <1>0 DEF Respond
<1>6. ASSUME NEW r \in Requests, WriteTimeout(r) PROVE Progress'
  BY <1>6, <1>0 DEF WriteTimeout, TimesOut
<1>7. ASSUME NEW r \in Requests, Leave(r) PROVE Progress'
  BY <1>7, <1>0 DEF Leave
<1>8. ASSUME NEW r \in Requests, NEW m \in Metrics, Count(r, m) PROVE Progress'
  <2>1. /\ pc[r] = "returned" /\ counted[r] = m - 1 /\ kind[r].label
        /\ counted'[r] = m /\ label'[r] = status[r]
        /\ pc'[r] = IF m = LastMetric THEN "logger" ELSE "returned"
        /\ \A q \in Requests \ {r}:
             counted'[q] = counted[q] /\ label'[q] = label[q] /\ pc'[q] = pc[q]
        /\ UNCHANGED <<kind, status>>
    BY <1>8, <1>0 DEF Count, Counting
  <2>2. m \in Nat \ {0} /\ m <= LastMetric
    BY Numbers
  <2>3. CASE m = LastMetric
    BY <1>0, <2>1, <2>2, <2>3
  <2>4. CASE m # LastMetric
    BY <1>0, <2>1, <2>2, <2>4
  <2>. QED  BY <2>3, <2>4
<1>9. ASSUME NEW r \in Requests, LabelPanics(r) PROVE Progress'
  BY <1>9, <1>0 DEF LabelPanics
<1>10. ASSUME NEW r \in Requests, Logger(r) PROVE Progress'
  BY <1>10, <1>0 DEF Logger
<1>11. ASSUME NEW r \in Requests, Answer(r) PROVE Progress'
  BY <1>11, <1>0 DEF Answer, ErrorResponse
<1>12. ASSUME NEW r \in Requests, GatherFails(r) PROVE Progress'
  BY <1>12, <1>0 DEF GatherFails
<1>13. ASSUME NEW r \in Requests, Recover(r) PROVE Progress'
  BY <1>13, <1>0 DEF Recover, ErrorResponse, Panicking
<1>14. CASE UNCHANGED vars
  BY <1>14, <1>0 DEF vars
<1>. QED  BY <1>1, <1>2, <1>3, <1>4, <1>5, <1>6, <1>7, <1>8, <1>9, <1>10, <1>11, <1>12, <1>13, <1>14 DEF Next, Serve

(* Who has come as far as a metric, under a code.                          *)
Among(m, c) == {r \in Requests: counted[r] >= m /\ label[r] = c}

Counts == \A m \in Metrics, c \in Codes: metric[m][c] = Cardinality(Among(m, c))

LEMMA CountsStep == TypeOK /\ Progress /\ Counts /\ [Next]_vars => Counts'
<1>. SUFFICES ASSUME TypeOK, Progress, Counts, [Next]_vars PROVE Counts'
  OBVIOUS
<1>1. CASE UNCHANGED <<counted, label, metric>>
  BY <1>1 DEF Counts, Among
<1>2. ASSUME NEW r \in Requests, NEW m \in Metrics, Count(r, m) PROVE Counts'
  <2>1. /\ pc[r] = "returned" /\ counted[r] = m - 1
        /\ counted' = [counted EXCEPT ![r] = m]
        /\ label' = [label EXCEPT ![r] = status[r]]
        /\ metric' = [metric EXCEPT ![m][status[r]] = metric[m][status[r]] + 1]
    BY <1>2 DEF Count, Counting
  <2>2. /\ m \in Nat \ {0} /\ Metrics \subseteq Nat \ {0} /\ status[r] \in Codes
        /\ counted \in [Requests -> 0..LastMetric]
        /\ label \in [Requests -> Codes \cup {0}]
        /\ metric \in [Metrics -> [Codes -> Nat]]
    BY Numbers DEF TypeOK
  <2>3. counted[r] > 0 => label[r] = status[r]
    BY <2>1 DEF Progress
  <2>4. \A q \in Requests \ {r}: counted'[q] = counted[q] /\ label'[q] = label[q]
    BY <2>1, <2>2
  <2>5. counted'[r] = m /\ label'[r] = status[r]
    BY <2>1, <2>2
  <2>6. ASSUME NEW n \in Metrics, NEW c \in Codes
        PROVE  metric'[n][c] = Cardinality(Among(n, c)')
    <3>1. metric[n][c] = Cardinality(Among(n, c)) /\ n \in Nat \ {0}
      BY <2>2 DEF Counts
    <3>2. CASE n = m /\ c = status[r]
      <4>1. Among(n, c)' = Among(n, c) \cup {r}
        <5>1. \A q \in Requests \ {r}: q \in Among(n, c)' <=> q \in Among(n, c)
          BY <2>4 DEF Among
        <5>2. r \in Among(n, c)'
          BY <2>2, <2>5, <3>2 DEF Among
        <5>. QED  BY <5>1, <5>2 DEF Among
      <4>2. r \notin Among(n, c)
        BY <2>1, <2>2, <3>2 DEF Among
      <4>3. IsFiniteSet(Among(n, c))
        BY Numbers, FS_Subset DEF Among
      <4>4. Cardinality(Among(n, c) \cup {r}) = Cardinality(Among(n, c)) + 1
        BY <4>2, <4>3, FS_AddElement
      <4>5. metric'[n][c] = metric[n][c] + 1
        BY <2>1, <2>2, <3>2
      <4>. QED  BY <3>1, <4>1, <4>4, <4>5
    <3>3. CASE ~(n = m /\ c = status[r])
      <4>1. metric'[n][c] = metric[n][c]
        <5>1. CASE n = m
          <6>1. metric'[m] = [metric[m] EXCEPT ![status[r]] = metric[m][status[r]] + 1]
            BY <2>1, <2>2
          <6>. QED  BY <2>2, <3>3, <5>1, <6>1
        <5>2. CASE n # m
          BY <2>1, <2>2, <5>2
        <5>. QED  BY <5>1, <5>2
      <4>2. r \in Among(n, c)' <=> r \in Among(n, c)
        <5>1. r \in Among(n, c)' <=> m >= n /\ status[r] = c
          BY <2>5 DEF Among
        <5>2. r \in Among(n, c) <=> m - 1 >= n /\ label[r] = c
          BY <2>1 DEF Among
        <5>3. n \in Nat \ {0} /\ m \in Nat \ {0}
          BY <2>2, <3>1
        <5>4. CASE n = m
          BY <3>3, <5>1, <5>2, <5>3, <5>4
        <5>5. CASE n < m
          <6>1. m - 1 >= n /\ m >= n /\ m - 1 > 0
            BY <5>3, <5>5
          <6>. QED  BY <2>1, <2>3, <5>1, <5>2, <6>1
        <5>6. CASE n > m
          <6>1. ~(m - 1 >= n) /\ ~(m >= n)
            BY <5>3, <5>6
          <6>. QED  BY <5>1, <5>2, <6>1
        <5>. QED  BY <5>3, <5>4, <5>5, <5>6
      <4>3. \A q \in Requests \ {r}: q \in Among(n, c)' <=> q \in Among(n, c)
        BY <2>4 DEF Among
      <4>4. Among(n, c)' = Among(n, c)
        BY <4>2, <4>3 DEF Among
      <4>. QED  BY <3>1, <4>1, <4>4
    <3>. QED  BY <3>2, <3>3
  <2>. QED  BY <2>6 DEF Counts, Metrics, Codes
<1>. QED  BY <1>1, <1>2 DEF Next, Serve, vars, Send, Receive, ReadTimeout, Collect, Respond,
           WriteTimeout, Leave, LabelPanics, Logger, Answer, GatherFails, Recover, Panicking

Gauge == inflight = Cardinality(InFlight)

LEMMA GaugeStep == TypeOK /\ Gauge /\ [Next]_vars => Gauge'
<1>. SUFFICES ASSUME TypeOK, Gauge, [Next]_vars PROVE Gauge'
  OBVIOUS
<1>0. /\ pc \in [Requests -> {"idle", "sending", "gather", "leave", "returned",
                              "logger", "answer"} \cup Ends]
      /\ inflight \in Int /\ IsFiniteSet(InFlight)
  BY Numbers, FS_Subset DEF TypeOK, InFlight
<1>1. ASSUME InFlight' = InFlight, inflight' = inflight PROVE Gauge'
  BY <1>1 DEF Gauge
<1>2. ASSUME NEW r \in Requests, pc[r] = "sending", pc' = [pc EXCEPT ![r] = "gather"],
             inflight' = inflight + 1
      PROVE  Gauge'
  <2>1. InFlight' = InFlight \cup {r} /\ r \notin InFlight
    BY <1>0, <1>2 DEF InFlight
  <2>2. Cardinality(InFlight \cup {r}) = Cardinality(InFlight) + 1
    BY <1>0, <2>1, FS_AddElement
  <2>. QED  BY <1>2, <2>1, <2>2 DEF Gauge
<1>3. ASSUME NEW r \in Requests, pc[r] \in {"gather", "leave"},
             pc' = [pc EXCEPT ![r] = "returned"], inflight' = inflight - 1
      PROVE  Gauge'
  <2>1. InFlight' = InFlight \ {r} /\ r \in InFlight
    BY <1>0, <1>3 DEF InFlight
  <2>2. Cardinality(InFlight \ {r}) = Cardinality(InFlight) - 1
    BY <1>0, <2>1, FS_RemoveElement
  <2>. QED  BY <1>3, <2>1, <2>2 DEF Gauge
<1>4. ASSUME NEW r \in Requests, Receive(r) PROVE Gauge'
  <2>1. CASE Refusal(kind[r]) = 0
    BY <1>2, <1>4, <2>1 DEF Receive, Step
  <2>2. CASE Refusal(kind[r]) # 0
    <3>1. pc[r] = "sending" /\ pc' = [pc EXCEPT ![r] = "returned"] /\ inflight' = inflight
      BY <1>4, <2>2 DEF Receive, Step
    <3>. QED  BY <1>0, <1>1, <3>1 DEF InFlight
  <2>. QED  BY <2>1, <2>2
<1>5. ASSUME NEW r \in Requests, Leave(r) \/ Recover(r) PROVE Gauge'
  BY <1>3, <1>5 DEF Leave, Step, Recover, Panicking
<1>6. ASSUME NEW r \in Requests,
             \/ pc[r] \in {"gather", "leave"} /\ pc' = [pc EXCEPT ![r] = "leave"]
             \/ /\ pc[r] \notin {"gather", "leave"}
                /\ \/ pc' = pc
                   \/ \E stage \in {"sending", "logger", "answer"} \cup Ends:
                        pc' = [pc EXCEPT ![r] = stage],
             inflight' = inflight
      PROVE  Gauge'
  <2>1. InFlight' = InFlight
    BY <1>0, <1>6 DEF InFlight, Ends
  <2>. QED  BY <1>1, <1>6, <2>1
<1>7. ASSUME NEW r \in Requests,
             \/ Send(r) \/ ReadTimeout(r) \/ Respond(r) \/ WriteTimeout(r) \/ LabelPanics(r)
             \/ Logger(r) \/ Answer(r) \/ GatherFails(r) \/ \E m \in Metrics: Count(r, m)
      PROVE  Gauge'
  BY <1>6, <1>7 DEF Send, ReadTimeout, Respond, WriteTimeout, LabelPanics, Logger, Answer,
     GatherFails, Count, Counting, Step, Ends
<1>8. CASE UNCHANGED <<pc, inflight>>
  BY <1>1, <1>8 DEF InFlight
<1>. QED  BY <1>4, <1>5, <1>7, <1>8 DEF Next, Serve, vars, Collect

(* Which of the earlier requests are counted under a code.                 *)
Before(r, c) == {a \in earlier[r]: label[a] = c}

ViewsOf(r) ==
    /\ \A a \in earlier[r]: pc[a] = "over"
    /\ DOMAIN view[r] \subseteq Metrics
    /\ pc[r] \in {"idle", "sending"} => DOMAIN view[r] = {}
    /\ \A m \in DOMAIN view[r], c \in Codes: view[r][m][c] >= Cardinality(Before(r, c))

Views == DOMAIN view = Requests /\ \A r \in Requests: ViewsOf(r)

LEMMA ViewsStep == TypeOK /\ Progress /\ Counts /\ Views /\ [Next]_vars => Views'
<1>. SUFFICES ASSUME TypeOK, Progress, Counts, Views, [Next]_vars PROVE Views'
  OBVIOUS
<1>0. /\ DOMAIN pc = Requests /\ earlier \in [Requests -> SUBSET Requests]
      /\ DOMAIN label = Requests /\ DOMAIN counted = Requests
  BY DEF TypeOK
<1>1. \A a \in Requests: pc[a] = "over" => pc'[a] = "over" /\ label'[a] = label[a]
  <2>1. ASSUME NEW r \in Requests, pc[r] # "over",
               \A q \in Requests \ {r}: pc'[q] = pc[q] /\ label'[q] = label[q]
        PROVE  \A a \in Requests: pc[a] = "over" => pc'[a] = "over" /\ label'[a] = label[a]
    BY <2>1
  <2>2. CASE UNCHANGED <<pc, label>>
    BY <2>2
  <2>3. ASSUME NEW r \in Requests, Send(r) \/ Receive(r) \/ ReadTimeout(r)
        PROVE  pc[r] # "over" /\ \A q \in Requests \ {r}: pc'[q] = pc[q] /\ label'[q] = label[q]
    BY <1>0, <2>3 DEF Send, Receive, ReadTimeout, Step
  <2>4. ASSUME NEW r \in Requests, Respond(r) \/ WriteTimeout(r) \/ Leave(r) \/ GatherFails(r)
        PROVE  pc[r] # "over" /\ \A q \in Requests \ {r}: pc'[q] = pc[q] /\ label'[q] = label[q]
    BY <1>0, <2>4 DEF Respond, WriteTimeout, Leave, GatherFails, Step
  <2>5. ASSUME NEW r \in Requests, LabelPanics(r) \/ Logger(r) \/ Answer(r) \/ Recover(r)
        PROVE  pc[r] # "over" /\ \A q \in Requests \ {r}: pc'[q] = pc[q] /\ label'[q] = label[q]
    BY <1>0, <2>5 DEF LabelPanics, Logger, Answer, Recover, Panicking, Step
  <2>6. ASSUME NEW r \in Requests, NEW m \in Metrics, Count(r, m)
        PROVE  pc[r] # "over" /\ \A q \in Requests \ {r}: pc'[q] = pc[q] /\ label'[q] = label[q]
    BY <1>0, <2>6 DEF Count, Counting
  <2>. QED  BY <2>1, <2>2, <2>3, <2>4, <2>5, <2>6 DEF Next, Serve, vars, Collect
<1>2. ASSUME NEW r \in Requests, earlier'[r] = earlier[r]
      PROVE  (\A a \in earlier'[r]: pc'[a] = "over") /\ \A c \in Codes: Before(r, c)' = Before(r, c)
  <2>1. \A a \in earlier[r]: a \in Requests /\ pc[a] = "over"
    BY <1>0 DEF Views, ViewsOf
  <2>. QED  BY <1>1, <1>2, <2>1 DEF Before
<1>3. ASSUME earlier' = earlier, view' = view,
             \A r \in Requests: pc'[r] \in {"idle", "sending"} => pc[r] \in {"idle", "sending"}
      PROVE  Views'
  BY <1>2, <1>3 DEF Views, ViewsOf, Codes
<1>4. ASSUME NEW r \in Requests, Send(r) PROVE Views'
  <2>1. /\ pc[r] = "idle" /\ pc' = [pc EXCEPT ![r] = "sending"] /\ view' = view
        /\ earlier' = [earlier EXCEPT ![r] = {a \in Requests: pc[a] = "over"}]
    BY <1>4 DEF Send, Step
  <2>2. DOMAIN view[r] = {}
    BY <2>1 DEF Views, ViewsOf
  <2>3. \A a \in earlier'[r]: pc'[a] = "over"
    BY <1>0, <1>1, <2>1
  <2>4. \A q \in Requests \ {r}: earlier'[q] = earlier[q] /\ pc'[q] = pc[q]
    BY <1>0, <2>1
  <2>5. ViewsOf(r)'
    BY <2>1, <2>2, <2>3 DEF ViewsOf
  <2>6. ASSUME NEW q \in Requests \ {r} PROVE ViewsOf(q)'
    <3>1. ViewsOf(q)
      BY DEF Views
    <3>2. /\ \A b \in earlier'[q]: pc'[b] = "over"
          /\ \A c \in Codes: Before(q, c)' = Before(q, c)
      BY <1>2, <2>4
    <3>. QED  BY <2>1, <2>4, <3>1, <3>2 DEF ViewsOf, Codes
  <2>. QED  BY <2>1, <2>5, <2>6 DEF Views
<1>5. ASSUME NEW r \in Requests, NEW m \in Metrics, Collect(r, m) PROVE Views'
  <2>1. /\ pc[r] = "gather" /\ pc' = pc /\ earlier' = earlier /\ label' = label
        /\ view' = [view EXCEPT ![r] = [n \in DOMAIN view[r] \cup {m} |->
                                          IF n = m THEN metric[m] ELSE view[r][n]]]
    BY <1>5 DEF Collect
  <2>2. ASSUME NEW c \in Codes PROVE metric[m][c] >= Cardinality(Before(r, c))
    <3>1. Before(r, c) \subseteq Among(m, c)
      <4>1. \A a \in earlier[r]: a \in Requests /\ counted[a] = LastMetric
        BY <1>0 DEF Views, ViewsOf, Progress
      <4>2. LastMetric >= m
        BY Numbers
      <4>. QED  BY <4>1, <4>2 DEF Before, Among
    <3>2. IsFiniteSet(Among(m, c))
      BY Numbers, FS_Subset DEF Among
    <3>3. /\ Cardinality(Before(r, c)) <= Cardinality(Among(m, c))
          /\ Cardinality(Before(r, c)) \in Nat /\ Cardinality(Among(m, c)) \in Nat
      BY <3>1, <3>2, FS_Subset, FS_CardinalityType
    <3>. QED  BY <3>3 DEF Counts
  <2>3. \A q \in Requests, c \in Codes: Before(q, c)' = Before(q, c)
    BY <2>1 DEF Before
  <2>4. \A q \in Requests \ {r}: view'[q] = view[q]
    BY <2>1 DEF Views, ViewsOf
  <2>5. /\ DOMAIN view'[r] = DOMAIN view[r] \cup {m} /\ view'[r][m] = metric[m]
        /\ \A n \in DOMAIN view[r]: n # m => view'[r][n] = view[r][n]
    BY <2>1 DEF Views, ViewsOf
  <2>6. \A n \in DOMAIN view'[r], c \in Codes: view'[r][n][c] >= Cardinality(Before(r, c)')
    BY <2>2, <2>3, <2>5 DEF Views, ViewsOf
  <2>7. DOMAIN view' = Requests /\ DOMAIN view'[r] \subseteq Metrics
    BY <2>1, <2>5 DEF Views, ViewsOf
  <2>8. ViewsOf(r)'
    <3>1. (\A a \in earlier[r]: pc[a] = "over") /\ DOMAIN view'[r] \subseteq Metrics
      BY <2>7 DEF Views, ViewsOf
    <3>. QED  BY <2>1, <2>6, <3>1 DEF ViewsOf, Metrics, Codes
  <2>9. ASSUME NEW q \in Requests \ {r} PROVE ViewsOf(q)'
    <3>1. ViewsOf(q)
      BY DEF Views
    <3>. QED  BY <2>1, <2>3, <2>4, <3>1 DEF ViewsOf, Metrics, Codes
  <2>. QED  BY <2>7, <2>8, <2>9 DEF Views
<1>6. ASSUME NEW r \in Requests,
             \/ Receive(r) \/ ReadTimeout(r) \/ Respond(r) \/ WriteTimeout(r) \/ Leave(r)
             \/ LabelPanics(r) \/ Logger(r) \/ Answer(r) \/ GatherFails(r) \/ Recover(r)
             \/ \E m \in Metrics: Count(r, m)
      PROVE  Views'
  <2>1. earlier' = earlier /\ view' = view
    BY <1>6 DEF Receive, ReadTimeout, Respond, WriteTimeout, Leave, LabelPanics, Logger, Answer,
       GatherFails, Recover, Panicking, Count, Counting
  <2>2. pc' = pc \/ \E stage \in {"gather", "leave", "returned", "logger", "answer"} \cup Ends:
                      pc' = [pc EXCEPT ![r] = stage]
    BY <1>6 DEF Receive, ReadTimeout, Respond, WriteTimeout, Leave, LabelPanics, Logger, Answer,
       GatherFails, Recover, Panicking, Count, Counting, Step, Ends
  <2>. QED  BY <1>0, <1>3, <2>1, <2>2 DEF Ends
<1>7. CASE UNCHANGED vars
  BY <1>3, <1>7 DEF vars
<1>. QED  BY <1>4, <1>5, <1>6, <1>7 DEF Next, Serve

-----------------------------------------------------------------------------
TelemetryInv == TypeOK /\ Outcomes /\ Progress /\ Counts /\ Gauge /\ Views

LEMMA TelemetryInvInit == Init => TelemetryInv
<1>. SUFFICES ASSUME Init PROVE TelemetryInv
  OBVIOUS
<1>1. TypeOK
  <2>1. 0 \in 0..LastMetric /\ 0 \in 0..MaxPanics
    <3>1. LastMetric \in Nat /\ MaxPanics \in Nat
      BY Numbers
    <3>. HIDE DEF Init
    <3>. QED  BY <3>1
  <2>2. << >> \in Seq(Codes)
    OBVIOUS
  <2>. QED  BY <2>1, <2>2 DEF Init, TypeOK, Codes
<1>2. \A r \in Requests:
        /\ pc[r] = "idle" /\ err[r] = 0 /\ status[r] = 200 /\ sent[r] = Empty /\ alive[r]
        /\ label[r] = 0 /\ counted[r] = 0 /\ view[r] = << >> /\ earlier[r] = {}
  BY DEF Init, Empty
<1>3. Outcomes
  BY <1>2 DEF Outcomes, Outcome
<1>4. Progress
  BY <1>2 DEF Progress
<1>5. Counts
  <2>1. \A m \in Metrics, c \in Codes: metric[m][c] = 0 /\ Among(m, c) = {}
    BY <1>2 DEF Init, Among, Codes
  <2>. QED  BY <2>1, FS_EmptySet DEF Counts
<1>6. Gauge
  <2>1. InFlight = {} /\ inflight = 0
    BY <1>2 DEF Init, InFlight
  <2>. QED  BY <2>1, FS_EmptySet DEF Gauge
<1>7. Views
  BY <1>2 DEF Init, Views, ViewsOf
<1>. QED  BY <1>1, <1>3, <1>4, <1>5, <1>6, <1>7 DEF TelemetryInv

LEMMA TelemetryInvariant == Spec => []TelemetryInv
<1>1. TelemetryInv /\ [Next]_vars => TelemetryInv'
  BY TypeStep, OutcomeStep, ProgressStep, CountsStep, GaugeStep, ViewsStep DEF TelemetryInv
<1>. QED  BY TelemetryInvInit, <1>1, PTL DEF Spec

(* The variables have their types.                                         *)
THEOREM TypeCorrect == Spec => []TypeOK
<1>1. TelemetryInv => TypeOK
  BY DEF TelemetryInv
<1>. QED  BY TelemetryInvariant, <1>1, PTL

(* A request that is over was answered once, or not at all because of a    *)
(* timeout, or twice because of a panic after the answer.                  *)
THEOREM AnsweredOnce == Spec => []OneAnswer
<1>1. TelemetryInv => OneAnswer
  <2>. SUFFICES ASSUME TelemetryInv, NEW r \in Requests, pc[r] = "over"
                PROVE  \/ Len(sent[r]) = 1
                       \/ ~alive[r] /\ sent[r] = << >>
                       \/ "recover" \in log[r] /\ sent[r] \in {<<200, 500>>, <<500, 500>>}
    BY DEF OneAnswer
  <2>1. Served(r)
    BY DEF TelemetryInv, Outcomes, Outcome
  <2>2. \A c \in Codes: Len(Sent(c)) = 1
    BY DEF Sent
  <2>3. Twice(200) = <<200, 500>> /\ Twice(500) = <<500, 500>> /\ Empty = << >>
    BY DEF Twice, Empty
  <2>. QED  BY <2>1, <2>2, <2>3 DEF Served, Codes
<1>. QED  BY TelemetryInvariant, <1>1, PTL

(* A line of level error comes out where errors are shown.                 *)
LEMMA LoudIsWritten ==
    \A r: /\ "server" \in log[r] => "server" \in Written(r)
          /\ "error" \in Shown /\ "error" \in log[r] => "error" \in Written(r)
          /\ "error" \in Shown /\ "recover" \in log[r] => "recover" \in Written(r)
<1>1. Level["error"] = "error" /\ Level["recover"] = "error"
  BY DEF Level
<1>. SUFFICES ASSUME NEW r
              PROVE  /\ "server" \in log[r] => "server" \in Written(r)
                     /\ "error" \in Shown /\ "error" \in log[r] => "error" \in Written(r)
                     /\ "error" \in Shown /\ "recover" \in log[r] => "recover" \in Written(r)
  OBVIOUS
<1>2. \A who \in log[r]: who = "server" \/ Level[who] \in Shown => who \in Written(r)
  BY DEF Written
<1>. QED  BY <1>1, <1>2

(* What echo refuses and what panics leaves a line that is shown, for any  *)
(* level that shows errors: only the Prometheus library fails in silence.  *)
THEOREM OnlyLibrarySilent == Spec => []OnlyLibraryFailsSilently
<1>1. TelemetryInv => OnlyLibraryFailsSilently
  <2>. SUFFICES ASSUME TelemetryInv, "error" \in Shown, NEW r \in Requests, pc[r] \in Ends,
                       ~(kind[r].client = "slow to send"),
                       Written(r) \subseteq {"info", "promhttp"}
                PROVE  sent[r] = << 200 >> \/ LibraryFailed(r)
    BY DEF OnlyLibraryFailsSilently
  <2>1. Outcome(r)
    BY DEF TelemetryInv, Outcomes
  <2>2. "server" \notin log[r] /\ "error" \notin log[r] /\ "recover" \notin log[r]
    <3>1. \A who \in Written(r): who \notin {"server", "error", "recover"}
      OBVIOUS
    <3>. QED  BY <3>1, LoudIsWritten
  <2>3. pc[r] = "over" /\ Served(r)
    BY <2>1, <2>2 DEF Outcome, Ends
  <2>4. \/ sent[r] \in {Sent(200), Sent(500)}
        \/ ~alive[r] /\ sent[r] = Empty /\ SlowReader(r)
    BY <2>2, <2>3, Zenon DEF Served
  <2>5. CASE sent[r] \in {Sent(200), Sent(500)}
    BY <2>5 DEF Sent, LibraryFailed
  <2>6. CASE ~alive[r] /\ sent[r] = Empty /\ SlowReader(r)
    BY <2>6, Zenon DEF Empty, SlowReader, LibraryFailed
  <2>. QED  BY <2>4, <2>5, <2>6
<1>. QED  BY TelemetryInvariant, <1>1, PTL

(* The gauge is exact, and between two countings the metrics agree.        *)
THEOREM MetricsExact == Spec => []MetricsAgree
<1>1. TelemetryInv => MetricsAgree
  <2>. SUFFICES ASSUME TelemetryInv PROVE MetricsAgree
    OBVIOUS
  <2>1. ASSUME \A r \in Requests: pc[r] = "returned" => counted[r] = 0,
               NEW m \in Metrics, NEW c \in Codes
        PROVE  metric[m][c] = Cardinality({r \in Requests:
                   pc[r] \in {"logger", "answer", "over"} /\ label[r] = c})
    <3>1. m \in Nat /\ 0 < m /\ m <= LastMetric /\ LastMetric \in Nat
      BY Numbers
    <3>2. ASSUME NEW r \in Requests
          PROVE  counted[r] >= m <=> pc[r] \in {"logger", "answer", "over"}
      <4>1. \/ pc[r] \in {"logger", "answer", "over"} /\ counted[r] = LastMetric
            \/ pc[r] \notin {"logger", "answer", "over"} /\ counted[r] = 0
        BY <2>1 DEF TelemetryInv, TypeOK, Progress, Ends
      <4>. QED  BY <3>1, <4>1
    <3>3. Among(m, c) = {r \in Requests: pc[r] \in {"logger", "answer", "over"} /\ label[r] = c}
      BY <3>2 DEF Among
    <3>. QED  BY <3>3 DEF TelemetryInv, Counts
  <2>. QED  BY <2>1 DEF MetricsAgree, TelemetryInv, Gauge
<1>. QED  BY TelemetryInvariant, <1>1, PTL

(* What has been answered is in every metric of a later scrape.            *)
THEOREM AnsweredVisible == Spec => []AnsweredIsVisible
<1>1. TelemetryInv => AnsweredIsVisible
  BY DEF TelemetryInv, Views, ViewsOf, Before, AnsweredIsVisible
<1>. QED  BY TelemetryInvariant, <1>1, PTL
=============================================================================
