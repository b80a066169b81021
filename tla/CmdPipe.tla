------------------------------- MODULE CmdPipe -------------------------------
(***************************************************************************)
(* The cmd_pipe panel: a log of the commands that came by a pipe, and a    *)
(* cooldown on one of them over the wall clock, which may be set back.     *)
(* The difference of two readings is a 64-bit one, modulo Modulus.         *)
(***************************************************************************)
EXTENDS Integers, Sequences

CONSTANTS MaxLog,    \* entries kept
          Cooldown,  \* snapshot_cooldown_secs
          Modulus    \* 2^64

NewCmdPipe == [log |-> <<>>, lastSnapshot |-> 0]

\* Wraps in the release build, which has no overflow checks.
Minus(a, b) == (a - b) % Modulus

IsSnapshot(name) == name \in {"snapshot", "habitat:snapshot"}
IsQuery(name) == name \in {"query", "habitat:query", "coherence", "habitat:coherence", "status", "habitat:status"}

\* Fault: a command that was refused starts no cooldown, nor does one that was accepted.
NoCooldown(st, now) == FALSE

Limited(st, now) == Minus(now, st.lastSnapshot) < Cooldown

Outcome(st, name, now) ==
  CASE IsSnapshot(name) /\ Limited(st, now) -> "RateLimited"
    [] IsSnapshot(name) /\ ~Limited(st, now) -> "Success"
    [] IsQuery(name) -> "Success"
    [] OTHER -> "Failure"

\* The newest entry comes first.
Logged(log, entry) ==
  LET longer == <<entry>> \o log IN SubSeq(longer, 1, IF Len(longer) < MaxLog THEN Len(longer) ELSE MaxLog)

\* Every command is logged, the unknown and the refused included.
HandleEvent(st, ev) ==
  IF ev.type # "PipeCommand" THEN st
  ELSE LET outcome == Outcome(st, ev.name, ev.now)
       IN [log |-> Logged(st.log, [at |-> ev.now, command |-> ev.name, outcome |-> outcome]),
           lastSnapshot |-> IF IsSnapshot(ev.name) /\ outcome = "Success" THEN ev.now ELSE st.lastSnapshot]

CmdPipeTypeOK(st) ==
  /\ DOMAIN st = {"log", "lastSnapshot"}
  /\ Len(st.log) <= MaxLog
  /\ \A i \in DOMAIN st.log : st.log[i].outcome \in {"Success", "Failure", "RateLimited"}
  /\ st.lastSnapshot \in 0..(Modulus - 1)

\* Two snapshots accepted one after the other, newest first.
Successive(log, i, j) ==
  /\ i < j
  /\ \A k \in {i, j} : IsSnapshot(log[k].command) /\ log[k].outcome = "Success"
  /\ \A k \in (i + 1)..(j - 1) : ~(IsSnapshot(log[k].command) /\ log[k].outcome = "Success")

\* They are a cooldown apart, unless the clock was set back in between.
Spaced(st) ==
  \A i, j \in DOMAIN st.log :
    Successive(st.log, i, j) =>
      st.log[i].at < st.log[j].at \/ st.log[i].at - st.log[j].at >= Cooldown
==============================================================================
