------------------------------ MODULE Metrics ------------------------------
(***************************************************************************)
(* Live usage: the metrics stream of the dashboard (sse.go handleMetrics)  *)
(* and the page that shows it (web/src/metrics.ts), with the host and one  *)
(* workload.  CPU counters only grow, until the unit restarts; a rate is   *)
(* the difference of two samples of one connection, in w-bit arithmetic.   *)
(***************************************************************************)
EXTENDS Integers

CONSTANTS MaxCPU,         \* bound: the unit's counter
          MaxTotal,       \* bound: the host's counter, and the time between samples
          Cores,          \* CPU time the unit can use in one unit of time
          Width           \* the counters' modulus (2^64 in the code)

ASSUME MetricsAssumption == /\ MaxCPU \in Nat /\ MaxTotal \in Nat
                            /\ Cores \in Nat
                            /\ Width \in Nat /\ Width > MaxCPU

VARIABLES unit,           \* the workload's unit: running, and its counter
          listed,         \* whether the workload is enabled
          host,           \* /proc/stat: busy and total
          elapsed,        \* time since the last sample
          prev,           \* the handler's previous counters
          shown,          \* what the page shows
          failed          \* history: the previous reading of the unit failed

metricsVars == <<unit, listed, host, elapsed, prev, shown, failed>>

NoCounter == -1
Counters == NoCounter..MaxCPU
Null == [part |-> 0, whole |-> 0]                      \* the em dash
Rates == [part : 0..(Width - 1), whole : 0..MaxTotal]
NoPrev == [have |-> FALSE, cpu |-> NoCounter, busy |-> 0, total |-> 0]
Nobody == [row |-> "none", cpu |-> Null, host |-> Null, bar |-> Null]

MetricsTypeOK ==
  /\ unit \in [running : BOOLEAN, cpu : 0..MaxCPU]
  /\ listed \in BOOLEAN
  /\ host \in [busy : 0..MaxTotal, total : 0..MaxTotal]
  /\ elapsed \in 0..MaxTotal
  /\ prev \in [have : BOOLEAN, cpu : Counters, busy : 0..MaxTotal, total : 0..MaxTotal]
  /\ shown \in [row : {"none", "on", "off"}, cpu : Rates, host : Rates, bar : Rates]
  /\ failed \in BOOLEAN

MetricsInit == /\ unit = [running |-> FALSE, cpu |-> 0]
               /\ listed = FALSE
               /\ host = [busy |-> 0, total |-> 0]
               /\ elapsed = 0
               /\ prev = NoPrev
               /\ shown = Nobody
               /\ failed = FALSE
-----------------------------------------------------------------------------
(* The machine.                                                            *)

Clock == /\ host.total < MaxTotal
         /\ \E b \in {0, 1} : \E c \in 0..Cores :
              /\ ~unit.running => c = 0
              /\ unit.cpu + c <= MaxCPU
              /\ host' = [busy |-> host.busy + b, total |-> host.total + 1]
              /\ unit' = [unit EXCEPT !.cpu = @ + c]
         /\ elapsed' = elapsed + 1
         /\ UNCHANGED <<listed, prev, shown, failed>>

\* Apply starts or stops the unit; a new start counts from zero.
StartStop == \E on \in BOOLEAN :
               /\ unit' = [running |-> on, cpu |-> 0]
               /\ UNCHANGED <<listed, host, elapsed, prev, shown, failed>>

Enable == /\ listed' = ~listed
          /\ UNCHANGED <<unit, host, elapsed, prev, shown, failed>>
-----------------------------------------------------------------------------
(* The stream and the page.                                                *)

Diff(now, before) == (now - before) % Width

\* Broken form of the next: a counter that went back is not noticed.
UnitRateWrapping(cpu) ==
  IF prev.have /\ prev.cpu # NoCounter /\ elapsed > 0
    THEN [part |-> Diff(cpu, prev.cpu), whole |-> elapsed] ELSE Null

\* A rate needs two samples of a workload listed in both, and a counter that
\* did not restart in between.
UnitRate(cpu) ==
  IF prev.have /\ prev.cpu # NoCounter /\ elapsed > 0 /\ cpu >= prev.cpu
    THEN [part |-> Diff(cpu, prev.cpu), whole |-> elapsed] ELSE Null

HostRate == IF prev.have /\ host.total > prev.total
              THEN [part |-> Diff(host.busy, prev.busy), whole |-> host.total - prev.total]
              ELSE Null

\* A bar is as wide as the rate, at most full.
Bar(rate) == IF rate.part > rate.whole THEN [rate EXCEPT !.part = rate.whole] ELSE rate

\* One sample, pushed and shown.  If systemctl fails, every unit reads as zero
\* and not running; the rows are those of the enabled workloads.
Sample == \E fails \in BOOLEAN :
            LET u == IF fails THEN [running |-> FALSE, cpu |-> 0] ELSE unit IN
              /\ shown' = [row |-> IF ~listed THEN "none" ELSE IF u.running THEN "on" ELSE "off",
                           cpu |-> IF listed THEN UnitRate(u.cpu) ELSE Null,
                           host |-> HostRate, bar |-> Bar(HostRate)]
              /\ prev' = [have |-> TRUE, cpu |-> IF listed THEN u.cpu ELSE NoCounter,
                          busy |-> host.busy, total |-> host.total]
              /\ failed' = fails
              /\ elapsed' = 0
              /\ UNCHANGED <<unit, listed, host>>

\* The connection is lost and opened again, with no counters; the page keeps
\* showing the last sample.
Reopen == /\ prev' = NoPrev
          /\ failed' = FALSE
          /\ elapsed' = 0
          /\ UNCHANGED <<unit, listed, host, shown>>

MetricsNext == Clock \/ StartStop \/ Enable \/ Sample \/ Reopen

MetricsSpec == MetricsInit /\ [][MetricsNext]_metricsVars
-----------------------------------------------------------------------------
\* A rate is one the machine can have: the unit's at most all cores over the
\* time between the samples, the host's at most 100 %, through restarts of the
\* unit, reconnections and workloads enabled in between.  The sample after a
\* failed reading is left out: it counts the unit's whole life as one interval
\* (sse.go:87-91, 139-160).
RatesAreBounded ==
  [][Sample => /\ ~failed => shown'.cpu.part <= Cores * shown'.cpu.whole
               /\ shown'.host.part <= shown'.host.whole]_metricsVars
=============================================================================
