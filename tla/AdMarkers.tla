----------------------------- MODULE AdMarkers ------------------------------
(***************************************************************************)
(* Ad markers: SCTE-35 messages in emsg boxes (media/scte35.rs) and the ad *)
(* breaks the pipeline makes of them (extract_ad_breaks_from_segment).     *)
(*                                                                         *)
(* A message is what its section says: whether it is well formed, the      *)
(* command, the event, and the time and duration, which may be missing.    *)
(***************************************************************************)
EXTENDS Naturals, Sequences, Lists

Missing == [given |-> FALSE, value |-> 0]
Given(v) == [given |-> TRUE, value |-> v]

Emsg(scheme, message) == [type |-> "emsg", scheme |-> scheme, message |-> message]

\* is_scte35_emsg.
IsScte35Emsg(emsg) == emsg.scheme \in {"urn:scte:scte35:2013:bin", "urn:scte:scte35:2014:xml+bin"}

\* parse_splice_insert: a cancelled event keeps its id and nothing else.
ParseSpliceInsert(message) ==
    [event    |-> message.event,
     time     |-> IF message.cancelled THEN Missing ELSE message.time,
     duration |-> IF message.cancelled THEN Missing ELSE message.duration]

\* parse_time_signal.
ParseTimeSignal(message) == [event |-> 0, time |-> message.time, duration |-> Missing]

\* parse_splice_info of a section that is well formed; any other command is
\* accepted as event 0.
ParseSpliceInfo(message) ==
    CASE message.command = "splice_insert" -> ParseSpliceInsert(message)
      [] message.command = "time_signal"   -> ParseTimeSignal(message)
      [] OTHER -> [event |-> 0, time |-> Missing, duration |-> Missing]

\* extract_ad_breaks_from_segment: a message that does not parse is skipped; a
\* break without a time begins where the segment does.
AdBreak(emsg, number, elapsed) ==
    LET splice == ParseSpliceInfo(emsg.message)
    IN  [id       |-> splice.event,
         time     |-> IF splice.time.given THEN splice.time.value ELSE elapsed,
         duration |-> splice.duration,
         segment  |-> number]

\* Mutant: any event message counts.
ExtractAdBreaksAll(emsgs, number, elapsed) ==
    [i \in 1..Len(emsgs) |-> AdBreak(emsgs[i], number, elapsed)]

ExtractAdBreaks(emsgs, number, elapsed) ==
    LET splices == Chosen(emsgs, {e \in 1..Len(emsgs) :
                                     IsScte35Emsg(emsgs[e]) /\ emsgs[e].message.valid})
    IN  [i \in 1..Len(splices) |-> AdBreak(splices[i], number, elapsed)]

=============================================================================
