----------------------------- MODULE Telemetry ------------------------------
(***************************************************************************)
(* Requests to the metrics endpoint, each in a goroutine of net/http: down *)
(* the middleware of server.New (logger, telemetry, recover) and the body  *)
(* limit to the handler, and back up through them to the error handler.    *)
(*                                                                         *)
(* echo's response (status) and what was really written to the connection  *)
(* (sent) are two things, and so are the metrics and what a scrape saw of  *)
(* them: it collects one metric after another while others are counted.    *)
(***************************************************************************)
EXTENDS Integers, Sequences, FiniteSets

CONSTANTS
    Requests,   \* the requests, each served once
    Kinds,      \* what a client may ask for, and how
    LastMetric, \* the number of metrics of the middleware: four
    Shown,      \* the levels that the configured one lets into the log
    MaxPanics   \* bound: panics of the handler

ASSUME RequestsAssumption ==
    /\ IsFiniteSet(Requests)
    /\ Kinds \subseteq [route: {0, 404, 405}, \* the router's error: 0 for the handler
                        body: BOOLEAN,    \* announces a body
                        label: BOOLEAN,   \* its path can be the value of a label
                        client: {"prompt", "slow to send", "slow to read"}]
    /\ LastMetric \in Nat \ {0}
    /\ Shown \subseteq {"debug", "info", "error"}
    /\ MaxPanics \in Nat

VARIABLES
    kind,      \* the kind of each request, from Kinds
    pc,        \* how far each request is
    err,       \* the code of the *echo.HTTPError the chain returns, 0 for nil
    status,    \* echo's Response.Status
    label,     \* the code a request is counted under
    counted,   \* in how many of the metrics a request has been counted
    metric,    \* [Metrics -> [Codes -> count]]
    view,      \* what a scrape has collected: [some metrics -> [Codes -> count]]
    inflight,  \* the gauge of scrapes being served
    sent,      \* the codes of the bodies written; the first is the status line
    alive,     \* is the connection usable?
    log,       \* who has logged something about a request, at any level
    earlier,   \* the requests that were over when a request was sent
    panics

vars == <<kind, pc, err, status, label, counted, metric, view, inflight, sent,
          alive, log, earlier, panics>>

Codes == {200, 404, 405, 413, 500}

(* requests_total, request_duration_seconds, request_size_bytes and        *)
(* response_size_bytes, in the order in which they are updated.            *)
Metrics == 1..LastMetric
Ends == {"over", "closed"}

(* Nobody has asked for anything yet.                                      *)
Init ==
    /\ kind \in [Requests -> Kinds]
    /\ pc = [r \in Requests |-> "idle"]
    /\ err = [r \in Requests |-> 0]
    /\ status = [r \in Requests |-> 200]
    /\ label = [r \in Requests |-> 0]
    /\ counted = [r \in Requests |-> 0]
    /\ metric = [m \in Metrics |-> [c \in Codes |-> 0]]
    /\ view = [r \in Requests |-> << >>]
    /\ inflight = 0
    /\ sent = [r \in Requests |-> << >>]
    /\ alive = [r \in Requests |-> TRUE]
    /\ log = [r \in Requests |-> {}]
    /\ earlier = [r \in Requests |-> {}]
    /\ panics = 0

Step(r, from, to) == pc[r] = from /\ pc' = [pc EXCEPT ![r] = to]
Logs(r, who) == log' = [log EXCEPT ![r] = @ \cup {who}]

(* The level of a line, by its author.  Println, with which the Prometheus *)
(* library reports an error, is Print of the logger, of level debug.       *)
Level == [info |-> "info", error |-> "error", recover |-> "error", promhttp |-> "debug"]

(* The lines that come out; net/http has a logger of its own, always on.   *)
Written(r) == {who \in log[r]: who = "server" \/ Level[who] \in Shown}

-----------------------------------------------------------------------------
(* A client connects and starts to send its request.                       *)
Send(r) ==
    /\ Step(r, "idle", "sending")
    /\ earlier' = [earlier EXCEPT ![r] = {a \in Requests: pc[a] = "over"}]
    /\ UNCHANGED <<kind, err, status, label, counted, metric, view, inflight, sent,
                   alive, log, panics>>

(* What the body limit says and then the router: too large, not found, a   *)
(* method other than GET.                                                  *)
Refusal(k) == IF k.body THEN 413 ELSE k.route

(* The request is read.  It is refused on the way down, or the handler     *)
(* hands it to the Prometheus library, which counts it as in flight.       *)
Receive(r) ==
    /\ kind[r].client # "slow to send"
    /\ LET code == Refusal(kind[r]) IN
        /\ Step(r, "sending", IF code = 0 THEN "gather" ELSE "returned")
        /\ err' = [err EXCEPT ![r] = code]
        /\ inflight' = IF code = 0 THEN inflight + 1 ELSE inflight
    /\ UNCHANGED <<kind, status, label, counted, metric, view, sent, alive, log,
                   earlier, panics>>

(* Variant: the timeouts of the configuration do not reach the server.     *)
NoTimeouts(r, slow) == FALSE

(* Both timeouts are set: what is not positive becomes the default.        *)
TimesOut(r, slow) == kind[r].client = slow

(* ReadTimeout: net/http closes a connection that does not send a request. *)
ReadTimeout(r) ==
    /\ TimesOut(r, "slow to send")
    /\ Step(r, "sending", "closed")
    /\ alive' = [alive EXCEPT ![r] = FALSE]
    /\ UNCHANGED <<kind, err, status, label, counted, metric, view, inflight, sent,
                   log, earlier, panics>>

(* Gather collects the metrics in any order, each at a time of its own.    *)
Collect(r, m) ==
    /\ pc[r] = "gather" /\ m \notin DOMAIN view[r]
    /\ view' = [view EXCEPT ![r] =
                  [n \in DOMAIN @ \cup {m} |-> IF n = m THEN metric[m] ELSE @[n]]]
    /\ UNCHANGED <<kind, pc, err, status, label, counted, metric, inflight, sent,
                   alive, log, earlier, panics>>

(* A failing collector: the library answers 500 on the raw writer.         *)
GatherFails(r) ==
    /\ Step(r, "gather", "leave")
    /\ sent' = [sent EXCEPT ![r] = Append(@, 500)] /\ Logs(r, "promhttp")
    /\ UNCHANGED <<kind, err, status, label, counted, metric, view, inflight, alive,
                   earlier, panics>>

Gathered(r) == DOMAIN view[r] = Metrics

(* The metrics are written, past echo's response, which notices nothing.   *)
Respond(r) ==
    /\ Gathered(r) /\ kind[r].client # "slow to read"
    /\ Step(r, "gather", "leave")
    /\ sent' = [sent EXCEPT ![r] = Append(@, 200)]
    /\ UNCHANGED <<kind, err, status, label, counted, metric, view, inflight, alive,
                   log, earlier, panics>>

(* WriteTimeout: a write fails, and with it the connection.  The library   *)
(* reports that, unless it is the last one, left to Close of the gzip      *)
(* writer or to the flush of net/http, whose errors nobody looks at.       *)
WriteTimeout(r) ==
    /\ Gathered(r) /\ TimesOut(r, "slow to read")
    /\ Step(r, "gather", "leave")
    /\ alive' = [alive EXCEPT ![r] = FALSE]
    /\ Logs(r, "promhttp") \/ UNCHANGED log
    /\ UNCHANGED <<kind, err, status, label, counted, metric, view, inflight, sent,
                   earlier, panics>>

(* The handler returns nil; a deferred call takes it out of the gauge.     *)
Leave(r) ==
    /\ Step(r, "leave", "returned")
    /\ inflight' = inflight - 1
    /\ UNCHANGED <<kind, err, status, label, counted, metric, view, sent, alive,
                   log, earlier, panics>>

-----------------------------------------------------------------------------
(* DefaultHTTPErrorHandler: the error becomes the response.  With a status *)
(* line already on the wire it becomes a second body.                      *)
ErrorResponse(r, code) ==
    /\ status' = [status EXCEPT ![r] = code]
    /\ sent' = [sent EXCEPT ![r] = IF alive[r] THEN Append(@, code) ELSE @]

Panicking(r) ==
    /\ pc[r] \in {"gather", "leave"} /\ panics < MaxPanics
    /\ panics' = panics + 1 /\ inflight' = inflight - 1
    /\ pc' = [pc EXCEPT ![r] = "returned"]
    /\ UNCHANGED <<kind, label, counted, metric, view, alive, earlier>>

(* Variant: the error is answered and returned as well.                    *)
RecoverTwice(r) ==
    /\ Panicking(r) /\ Logs(r, "recover") /\ ErrorResponse(r, 500)
    /\ err' = [err EXCEPT ![r] = 500]

(* The handler panics, before or after it has written; Recover logs that,  *)
(* answers with 500 at once and lets the chain return nil.                 *)
Recover(r) ==
    /\ Panicking(r) /\ Logs(r, "recover") /\ ErrorResponse(r, 500)
    /\ UNCHANGED err

-----------------------------------------------------------------------------
(* The status of echo's response at this moment becomes the label, and the *)
(* four metrics are updated one after another.                             *)
Counting(r, m) ==
    /\ pc[r] = "returned" /\ kind[r].label /\ counted[r] = m - 1
    /\ counted' = [counted EXCEPT ![r] = m]
    /\ label' = [label EXCEPT ![r] = status[r]]
    /\ metric' = [metric EXCEPT ![m][status[r]] = @ + 1]
    /\ pc' = IF m = LastMetric THEN [pc EXCEPT ![r] = "logger"] ELSE pc
    /\ UNCHANGED <<kind, err, status, view, inflight, sent, alive, log, earlier, panics>>

(* Variant: the request's sizes and duration are only kept for successes.  *)
CountTotalOfErrors(r, m) ==
    \/ (err[r] = 0 \/ m = 1) /\ Counting(r, m)
    \/ /\ err[r] # 0 /\ counted[r] = 1 /\ m = 2 /\ Step(r, "returned", "logger")
       /\ UNCHANGED <<kind, err, status, label, counted, metric, view, inflight, sent,
                      alive, log, earlier, panics>>

(* Variant: the metrics are left to a goroutine of their own.              *)
CountInBackground(r, m) ==
    \/ /\ m = 1 /\ kind[r].label /\ Step(r, "returned", "logger")
       /\ label' = [label EXCEPT ![r] = status[r]]
       /\ UNCHANGED <<kind, err, status, counted, metric, view, inflight, sent,
                      alive, log, earlier, panics>>
    \/ /\ pc[r] \notin {"sending", "gather", "leave", "returned"} /\ counted[r] = m - 1
       /\ label[r] # 0
       /\ counted' = [counted EXCEPT ![r] = m]
       /\ metric' = [metric EXCEPT ![m][label[r]] = @ + 1]
       /\ UNCHANGED <<kind, pc, err, status, label, view, inflight, sent, alive, log,
                      earlier, panics>>

(* Errors do not end the middleware: they are counted too.                 *)
Count(r, m) == Counting(r, m)

(* WithLabelValues panics on a path that is not UTF-8.  Recover is below:  *)
(* net/http logs the panic and closes the connection.                      *)
LabelPanics(r) ==
    /\ ~kind[r].label /\ Step(r, "returned", "closed")
    /\ alive' = [alive EXCEPT ![r] = FALSE] /\ Logs(r, "server")
    /\ UNCHANGED <<kind, err, status, label, counted, metric, view, inflight, sent,
                   earlier, panics>>

(* Variant: the level does not depend on the outcome.                      *)
LoggerInfo(r) ==
    /\ Step(r, "logger", "answer") /\ Logs(r, "info")
    /\ UNCHANGED <<kind, err, status, label, counted, metric, view, inflight, sent,
                   alive, earlier, panics>>

(* The logger's line has level error only if the chain returned an error.  *)
Logger(r) ==
    /\ Step(r, "logger", "answer") /\ Logs(r, IF err[r] = 0 THEN "info" ELSE "error")
    /\ UNCHANGED <<kind, err, status, label, counted, metric, view, inflight, sent,
                   alive, earlier, panics>>

(* Variant: nobody turns an error into a response.                         *)
AnswerNothing(r) ==
    /\ Step(r, "answer", "over")
    /\ UNCHANGED <<kind, err, status, label, counted, metric, view, inflight, sent,
                   alive, log, earlier, panics>>

(* ServeHTTP of echo: an error of the chain is answered only now.          *)
Answer(r) ==
    /\ Step(r, "answer", "over")
    /\ IF err[r] = 0 THEN UNCHANGED <<status, sent>> ELSE ErrorResponse(r, err[r])
    /\ UNCHANGED <<kind, err, label, counted, metric, view, inflight, alive, log,
                   earlier, panics>>

-----------------------------------------------------------------------------
(* What happens by itself once a request was sent.                         *)
Serve(r) ==
    \/ Receive(r) \/ ReadTimeout(r) \/ \E m \in Metrics: Collect(r, m)
    \/ Respond(r) \/ WriteTimeout(r) \/ Leave(r)
    \/ \E m \in Metrics: Count(r, m)
    \/ LabelPanics(r) \/ Logger(r) \/ Answer(r)

Next == \E r \in Requests: Send(r) \/ Serve(r) \/ GatherFails(r) \/ Recover(r)

Spec == Init /\ [][Next]_vars

(* The goroutine of a request runs, and its timeouts expire.               *)
FairSpec == Spec /\ \A r \in Requests: WF_vars(Serve(r))

-----------------------------------------------------------------------------
(* The types of the variables; the chain returns the errors of echo only.  *)
TypeOK ==
    /\ kind \in [Requests -> Kinds]
    /\ pc \in [Requests -> {"idle", "sending", "gather", "leave", "returned",
                            "logger", "answer"} \cup Ends]
    /\ err \in [Requests -> {0, 404, 405, 413}]
    /\ status \in [Requests -> Codes] /\ label \in [Requests -> Codes \cup {0}]
    /\ counted \in [Requests -> 0..LastMetric]
    /\ metric \in [Metrics -> [Codes -> Nat]]
    /\ inflight \in Int
    /\ sent \in [Requests -> Seq(Codes)] /\ alive \in [Requests -> BOOLEAN]
    /\ log \in [Requests -> SUBSET {"info", "error", "promhttp", "recover", "server"}]
    /\ earlier \in [Requests -> SUBSET Requests]
    /\ panics \in 0..MaxPanics

InFlight == {r \in Requests: pc[r] \in {"gather", "leave"}}

(* The gauge is the number of scrapes being served, after panics too, and  *)
(* while no request is among the counters, the four metrics agree on every *)
(* request that was answered: nothing is counted twice or half.            *)
MetricsAgree ==
    /\ inflight = Cardinality(InFlight)
    /\ (\A r \in Requests: pc[r] = "returned" => counted[r] = 0) =>
        \A m \in Metrics, c \in Codes:
            metric[m][c] = Cardinality({r \in Requests:
                              pc[r] \in {"logger", "answer", "over"} /\ label[r] = c})

(* A scrape that was sent after the answer to another request has come     *)
(* shows that request in all four metrics, however the scrape's collecting *)
(* is interleaved with the counting of others.                             *)
AnsweredIsVisible ==
    \A r \in Requests: \A m \in DOMAIN view[r], c \in Codes:
        view[r][m][c] >= Cardinality({a \in earlier[r]: label[a] = c})

(* "How many HTTP requests processed, partitioned by status code": the     *)
(* code a request is counted under is the one on its status line.  Errors  *)
(* answered after the chain and the library's 500 are counted as 200.      *)
PartitionedByStatusCode ==
    \A r \in Requests: pc[r] = "over" /\ sent[r] # << >> => label[r] = Head(sent[r])

(* A request has exactly one answer when it is over.  Two bodies can only  *)
(* come from a handler that panics when it has already written, since the  *)
(* raw writer leaves echo's response uncommitted; none only from a timeout.*)
OneAnswer ==
    \A r \in Requests: pc[r] = "over" =>
        \/ Len(sent[r]) = 1
        \/ ~alive[r] /\ sent[r] = << >>
        \/ "recover" \in log[r] /\ sent[r] \in {<<200, 500>>, <<500, 500>>}

LibraryFailed(r) ==
    \/ sent[r] = <<500>>
    \/ sent[r] = << >> /\ ~alive[r] /\ kind[r].client = "slow to read"

(* Unless errors are not shown, a request that was refused, that made the  *)
(* handler panic or whose label did has left a line of level error or one  *)
(* of net/http, whatever its own line says.  Only the Prometheus library   *)
(* fails in silence, with a 500 of its own or with a write that times out. *)
OnlyLibraryFailsSilently ==
    "error" \in Shown =>
        \A r \in Requests:
            /\ pc[r] \in Ends /\ kind[r].client # "slow to send"
            /\ Written(r) \subseteq {"info", "promhttp"}
            => sent[r] = <<200>> \/ LibraryFailed(r)

(* Every request comes to an end, an answer or a closed connection, even   *)
(* if its client stops sending or reading.                                 *)
RequestsEnd == \A r \in Requests: (pc[r] = "sending") ~> (pc[r] \in Ends)
=============================================================================
