------------------------------ MODULE Dictation ------------------------------
(***************************************************************************)
(* useDictation (lib/dictation.ts) over the Web Speech API.  Words are     *)
(* numbered as they are spoken.  Of the results of a session the engine    *)
(* makes a prefix final; an event brings every result from resultIndex on. *)
(***************************************************************************)
EXTENDS Integers, Sequences

CONSTANT MaxWords   \* bound: words spoken

VARIABLES dictation, \* state; words before `final` are final, up to `heard` interim;
                     \* `interim` is the first word of interimTextRef, none when past `heard`
          dictated,  \* the words passed to onFinalText
          dropped    \* history: an event left interim words out that had not changed

dictationVars == <<dictation, dictated, dropped>>

Silent == [state |-> "off", final |-> 0, heard |-> 0, interim |-> 1]

DictationInit == dictation = Silent /\ dictated = << >> /\ dropped = FALSE

Listening == dictation.state # "off"
Words(from, to) == [k \in 1..(to - from + 1) |-> from + k - 1]

StartDictation == /\ ~Listening
                  /\ dictation' = [dictation EXCEPT !.state = "on"]
                  /\ UNCHANGED <<dictated, dropped>>

StopDictation == /\ dictation.state = "on"
                 /\ dictation' = [dictation EXCEPT !.state = "stopping"]
                 /\ UNCHANGED <<dictated, dropped>>

(* Mutant: what an event does not bring stays as it was. *)
InterimKept(first, final, heard) ==
  IF dictation.interim <= dictation.heard THEN dictation.interim ELSE first

(* interimTextRef is what this event brings and has not made final. *)
Interim(first, final, heard) == IF first > final THEN first ELSE final + 1

(* onresult: results from `first` on; the words up to `final` are final now. *)
OnResult(first, final, heard) ==
  LET d == dictation IN
  /\ Listening
  /\ first \in (d.final + 1)..heard
  /\ heard \in {d.heard, d.heard + 1} /\ heard <= MaxWords
  /\ heard > d.heard => d.state = "on"
  /\ final = d.final \/ (first = d.final + 1 /\ final \in first..heard)
  /\ dictation' = [d EXCEPT !.final = final, !.heard = heard, !.interim = Interim(first, final, heard)]
  /\ dictated' = dictated \o Words(d.final + 1, final)
  /\ dropped' = (dropped \/ first > final + 1)

(* onend, after stop() or by itself: what is interim is committed. *)
OnEnd ==
  /\ Listening
  /\ dictated' = dictated \o Words(dictation.interim, dictation.heard)
  /\ dictation' = [Silent EXCEPT !.final = dictation.heard, !.heard = dictation.heard,
                                 !.interim = dictation.heard + 1]
  /\ UNCHANGED dropped

DictationNext == \/ StartDictation \/ StopDictation \/ OnEnd
                 \/ \E first, heard \in 1..MaxWords, final \in 0..MaxWords : OnResult(first, final, heard)

(* Every word is committed once and in order when dictation has ended, by a    *)
(* final result or by onend ("commit whatever's left so nothing is lost"),     *)
(* unless an event left out interim words before its resultIndex: the ref then *)
(* holds only what the last event brought.                                     *)
DictatedOnce == ~Listening => dictated = Words(1, dictation.heard) \/ dropped
=============================================================================
