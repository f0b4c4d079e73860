------------------------------- MODULE Metrics -------------------------------
(***************************************************************************)
(* Requests on several threads pass through the middleware chain           *)
(* (CompiledMiddlewareChain, include/coroute/core/app.hpp) of              *)
(* request_logger() (src/core/logging.cpp) and metrics_middleware()        *)
(* (src/core/metrics.cpp) to a handler.  Metrics are relaxed atomics; an   *)
(* export reads them one by one while requests change them.                *)
(*                                                                         *)
(* Durations are the numbers of the buckets they fall into; sum_ counts    *)
(* how many it has added up.                                               *)
(***************************************************************************)
EXTENDS Naturals, Sequences, FiniteSets

CONSTANTS
    Threads,
    NoThread,
    Buckets,      \* how many buckets a histogram has, +Inf included
    MaxRequests   \* a bound: the requests of a thread

MetricsAssumption ==
    /\ IsFiniteSet(Threads) /\ NoThread \notin Threads
    /\ Buckets \in Nat \ {0} /\ MaxRequests \in Nat

VARIABLES
    initialized, sinks,        \* of the default logger: the flag, how many sinks it has
    enabled,                   \* whether level_ lets the entries pass
    mutex,                     \* the thread that holds the logger's
    lines,                     \* what the sinks have written: per line, the request
    pc,                        \* per thread: where its request is
    requests,                  \* per thread: how many it has begun
    duration,                  \* per thread: the bucket of its request
    left,                      \* per thread: sinks to write to, or buckets to read
    registered,                \* the registry still has the HTTP metrics
    requests_total, requests_in_flight,
    count_, sum_, bucket_counts_,
    export,                    \* per thread: what it has exported
    thrown, logged             \* ghost: requests that threw, and entries that passed

logVars == <<initialized, sinks, enabled, mutex, lines, logged>>
metricVars == <<registered, requests_total, requests_in_flight, count_, sum_, bucket_counts_, thrown>>
requestVars == <<requests, duration, left, export>>
vars == <<logVars, metricVars, requestVars, pc>>

NoExport == [cumulative |-> 0, sum |-> 0, count |-> 0]

TypeOK ==
    /\ initialized \in BOOLEAN /\ enabled \in BOOLEAN /\ registered \in BOOLEAN
    /\ sinks \in Nat /\ logged \in Nat /\ thrown \in Nat
    /\ requests_total \in Nat /\ requests_in_flight \in Nat /\ count_ \in Nat /\ sum_ \in Nat
    /\ mutex \in Threads \cup {NoThread}
    /\ lines \in Seq(Threads \X (0 .. MaxRequests))
    /\ pc \in [Threads -> {"setup", "add_sink", "initialized", "idle", "total", "in_flight",
                            "handler", "count", "sum", "bucket", "leave", "log", "lock", "write",
                            "export", "buckets", "read_sum", "read_count"}]
    /\ requests \in [Threads -> 0 .. MaxRequests]
    /\ duration \in [Threads -> 1 .. Buckets]
    /\ left \in [Threads -> Nat]
    /\ bucket_counts_ \in [1 .. Buckets -> Nat]
    /\ export \in [Threads -> [cumulative : Nat, sum : Nat, count : Nat]]

Init ==
    /\ initialized = FALSE /\ sinks = 0 /\ enabled = TRUE /\ mutex = NoThread /\ lines = <<>>
    /\ pc = [t \in Threads |-> "setup"]
    /\ requests = [t \in Threads |-> 0]
    /\ duration = [t \in Threads |-> 1]
    /\ left = [t \in Threads |-> 0]
    /\ registered = TRUE /\ requests_total = 0 /\ requests_in_flight = 0
    /\ count_ = 0 /\ sum_ = 0 /\ bucket_counts_ = [b \in 1..Buckets |-> 0]
    /\ export = [t \in Threads |-> NoExport]
    /\ thrown = 0 /\ logged = 0

Goto(t, l) == pc' = [pc EXCEPT ![t] = l]

-----------------------------------------------------------------------------
(* get_default_logger(), which every thread calls when it sets up an       *)
(* application: the flag is tested and set without a lock, so several may  *)
(* add a sink.                                                             *)

CheckInitialized(t) ==
    /\ pc[t] = "setup"
    /\ Goto(t, IF initialized THEN "idle" ELSE "add_sink")
    /\ UNCHANGED <<logVars, metricVars, requestVars>>

add_sink(t) ==
    /\ pc[t] = "add_sink" /\ mutex = NoThread
    /\ sinks' = sinks + 1
    /\ Goto(t, "initialized")
    /\ UNCHANGED <<initialized, enabled, mutex, lines, logged, metricVars, requestVars>>

SetInitialized(t) ==
    /\ pc[t] = "initialized"
    /\ initialized' = TRUE
    /\ Goto(t, "idle")
    /\ UNCHANGED <<sinks, enabled, mutex, lines, logged, metricVars, requestVars>>

(* set_level(), by a thread that has no request.                           *)
set_level ==
    /\ enabled' = ~enabled
    /\ UNCHANGED <<initialized, sinks, mutex, lines, logged, metricVars, requestVars, pc>>

-----------------------------------------------------------------------------
(* A request.                                                              *)

SetUp == \A u \in Threads : pc[u] \notin {"setup", "add_sink", "initialized"}

(* The logger is the outer middleware; the metrics endpoint is the inner   *)
(* one's, and does not count.                                              *)
Begin(t) ==
    /\ pc[t] = "idle" /\ requests[t] < MaxRequests /\ SetUp
    /\ requests' = [requests EXCEPT ![t] = @ + 1]
    /\ \/ Goto(t, "total")
       \/ Goto(t, "export")
    /\ UNCHANGED <<logVars, metricVars, duration, left, export>>


CountRequest(t) ==
    /\ pc[t] = "total"
    /\ requests_total' = requests_total + 1
    /\ Goto(t, "in_flight")
    /\ UNCHANGED <<logVars, registered, requests_in_flight, count_, sum_, bucket_counts_, thrown,
                   requestVars>>

(* Gauge::inc(): a compare-exchange that succeeds.                         *)
EnterHandler(t) ==
    /\ pc[t] = "in_flight"
    /\ requests_in_flight' = requests_in_flight + 1
    /\ Goto(t, "handler")
    /\ UNCHANGED <<logVars, registered, requests_total, count_, sum_, bucket_counts_, thrown,
                   requestVars>>

(* The handler, or "not found" without one, returns after some time ...    *)
HandlerReturns(t) ==
    /\ pc[t] = "handler"
    /\ \E b \in 1..Buckets : duration' = [duration EXCEPT ![t] = b]
    /\ Goto(t, "count")
    /\ UNCHANGED <<logVars, metricVars, requests, left, export>>

(* ... or throws: the exception passes through both middlewares to         *)
(* handle_connection(), which answers with a 500.                          *)
HandlerThrows(t) ==
    /\ pc[t] = "handler"
    /\ thrown' = thrown + 1
    /\ Goto(t, "idle")
    /\ UNCHANGED <<logVars, registered, requests_total, requests_in_flight, count_, sum_,
                   bucket_counts_, requestVars>>

(* Histogram::observe(), step by step.                                     *)
ObserveCount(t) ==
    /\ pc[t] = "count"
    /\ count_' = count_ + 1
    /\ Goto(t, "sum")
    /\ UNCHANGED <<logVars, registered, requests_total, requests_in_flight, sum_, bucket_counts_,
                   thrown, requestVars>>

ObserveSum(t) ==
    /\ pc[t] = "sum"
    /\ sum_' = sum_ + 1
    /\ Goto(t, "bucket")
    /\ UNCHANGED <<logVars, registered, requests_total, requests_in_flight, count_, bucket_counts_,
                   thrown, requestVars>>

ObserveBucket(t) ==
    /\ pc[t] = "bucket"
    /\ bucket_counts_' = [bucket_counts_ EXCEPT ![duration[t]] = @ + 1]
    /\ Goto(t, "leave")
    /\ UNCHANGED <<logVars, registered, requests_total, requests_in_flight, count_, sum_, thrown,
                   requestVars>>

LeaveMetrics(t) ==
    /\ pc[t] = "leave"
    /\ requests_in_flight' = requests_in_flight - 1
    /\ Goto(t, "log")
    /\ UNCHANGED <<logVars, registered, requests_total, count_, sum_, bucket_counts_, thrown,
                   requestVars>>

(* Logger::log(): the level is tested before the lock is taken, which is   *)
(* held until every sink has written.                                      *)
Log(t) ==
    /\ pc[t] = "log"
    /\ IF enabled THEN Goto(t, "lock") /\ logged' = logged + 1
       ELSE Goto(t, "idle") /\ UNCHANGED logged
    /\ UNCHANGED <<initialized, sinks, enabled, mutex, lines, metricVars, requestVars>>

LockLogger(t) ==
    /\ pc[t] = "lock" /\ mutex = NoThread
    /\ mutex' = t
    /\ left' = [left EXCEPT ![t] = sinks]
    /\ Goto(t, "write")
    /\ UNCHANGED <<initialized, sinks, enabled, lines, logged, metricVars, requests, duration, export>>

WriteSink(t) ==
    /\ pc[t] = "write"
    /\ IF left[t] > 0
       THEN /\ lines' = Append(lines, <<t, requests[t]>>)
            /\ left' = [left EXCEPT ![t] = @ - 1]
            /\ UNCHANGED <<mutex, pc>>
       ELSE mutex' = NoThread /\ Goto(t, "idle") /\ UNCHANGED <<lines, left>>
    /\ UNCHANGED <<initialized, sinks, enabled, logged, metricVars, requests, duration, export>>

-----------------------------------------------------------------------------
(* The registry.                                                           *)

Exporting(t) == pc[t] \in {"buckets", "read_sum", "read_count"}

(* prometheus_export(), under the registry's mutex: counters and gauges,   *)
(* then of the histogram the buckets, the sum and the count.               *)
StartExport(t) ==
    /\ pc[t] = "export" /\ \A u \in Threads : ~Exporting(u)
    /\ export' = [export EXCEPT ![t] = NoExport]
    /\ IF registered THEN Goto(t, "buckets") /\ left' = [left EXCEPT ![t] = Buckets]
       ELSE Goto(t, "log") /\ UNCHANGED left
    /\ UNCHANGED <<logVars, metricVars, requests, duration>>

ExportBucket(t) ==
    /\ pc[t] = "buckets"
    /\ export' = [export EXCEPT ![t].cumulative = @ + bucket_counts_[Buckets + 1 - left[t]]]
    /\ left' = [left EXCEPT ![t] = @ - 1]
    /\ Goto(t, IF left[t] = 1 THEN "read_sum" ELSE "buckets")
    /\ UNCHANGED <<logVars, metricVars, requests, duration>>

ExportSum(t) ==
    /\ pc[t] = "read_sum"
    /\ export' = [export EXCEPT ![t].sum = sum_]
    /\ Goto(t, "read_count")
    /\ UNCHANGED <<logVars, metricVars, requests, duration, left>>

ExportCount(t) ==
    /\ pc[t] = "read_count"
    /\ export' = [export EXCEPT ![t].count = count_]
    /\ Goto(t, "log")
    /\ UNCHANGED <<logVars, metricVars, requests, duration, left>>

(* clear(): the middleware keeps its metrics, which are exported no more.  *)
clear ==
    /\ registered /\ \A u \in Threads : ~Exporting(u)
    /\ registered' = FALSE
    /\ UNCHANGED <<logVars, requests_total, requests_in_flight, count_, sum_, bucket_counts_, thrown,
                   requestVars, pc>>

-----------------------------------------------------------------------------
Next ==
    \/ \E t \in Threads :
        \/ CheckInitialized(t) \/ add_sink(t) \/ SetInitialized(t)
        \/ Begin(t) \/ CountRequest(t) \/ EnterHandler(t) \/ HandlerReturns(t) \/ HandlerThrows(t)
        \/ ObserveCount(t) \/ ObserveSum(t) \/ ObserveBucket(t) \/ LeaveMetrics(t)
        \/ Log(t) \/ LockLogger(t) \/ WriteSink(t)
        \/ StartExport(t) \/ ExportBucket(t) \/ ExportSum(t) \/ ExportCount(t)
    \/ set_level \/ clear

Spec == Init /\ [][Next]_vars

-----------------------------------------------------------------------------
(* What is exported of a histogram is consistent although it is read in    *)
(* pieces: no bucket counts an observation that the sum does not include,  *)
(* and the sum none that the count does not.                               *)
ExportsConsistent ==
    \A t \in Threads :
        pc[t] \in {"idle", "log", "lock", "write"} /\ requests[t] > 0 =>
            export[t].cumulative <= export[t].sum /\ export[t].sum <= export[t].count

(* What the first n buckets have counted.                                  *)
Observed(n) == UNION {{b} \X (1 .. bucket_counts_[b]) : b \in 1 .. n}

(* When no request is under way every one has been accounted for: each     *)
(* that did not throw is observed, in one bucket; each entry that passed   *)
(* is written once by every sink the logger had, its copies one after the  *)
(* other.                                                                  *)
Settles ==
    (\A t \in Threads : pc[t] = "idle") =>
        /\ count_ = requests_total - thrown /\ sum_ = count_
        /\ Cardinality(Observed(Buckets)) = count_
        /\ Len(lines) = logged * sinks
        /\ \A i \in 0 .. logged - 1, j \in 1 .. sinks : lines[i * sinks + j] = lines[i * sinks + 1]

(* The requests that metrics_middleware() has let in and not out again.    *)
InFlight == {t \in Threads : pc[t] \in {"handler", "count", "sum", "bucket", "leave"}}

(***************************************************************************)
(* What metrics.cpp calls "Current in-flight requests": the gauge is the   *)
(* number of requests between their inc() and dec().  It is not once a     *)
(* handler has thrown: the exception passes the middleware by dec().       *)
(***************************************************************************)
InFlightIsCurrent == requests_in_flight = Cardinality(InFlight)

(* Until then it is, whatever the threads do.                              *)
InFlightUnlessThrown == thrown = 0 => InFlightIsCurrent
=============================================================================
