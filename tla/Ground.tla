------------------------------- MODULE Ground -------------------------------
(***************************************************************************)
(* The ground station's reader (src/GCS/Taros_GCS.py, on_serial_read).     *)
(*                                                                         *)
(* The radio on the ground hands over what it has received as a stream of  *)
(* bytes: each frame is a header (two bytes for the type, one for the      *)
(* number of bytes that follow), a payload, and a byte the radio adds,     *)
(* the strength of the signal (RSI).  The program gets the stream in       *)
(* pieces of any length, and collects them until they hold a frame; one    *)
(* call shows one frame at most.                                           *)
(*                                                                         *)
(* The frames the modem sends, and the radio, are environment: a frame is  *)
(* what Message::buffer (src/src/message.cpp) or the answer to a ping      *)
(* (src/src/modem.cpp) is made of.  They go on arriving while the program  *)
(* reads.  The port may be opened in the middle of a frame.                *)
(***************************************************************************)
EXTENDS Integers, Sequences, FiniteSetsExt

CONSTANTS Reports,     \* what the frames of system messages may hold: in the
                       \* program sender, level, time and text, 13 bytes or more
          Answers,     \* what the answers to pings may hold: the bytes of the ping,
                       \* the RSI of the uplink
          Strengths,   \* the values of the RSI byte
          MaxFrames    \* bound: frames in the stream

VARIABLES air,             \* the frames the radio has received
          stream,          \* their bytes
          begin,           \* the bytes of the stream before each frame, and before the next
          missed,          \* bytes of the stream from before the port was opened
          heard,           \* bytes of the stream handed over
          receive_buffer,
          table            \* the rows of the table: the payload and the RSI

ground == <<air, stream, begin, missed, heard, receive_buffer, table>>

\* MSG_TYPE_SYSTEM and MSG_TYPE_PINGRESPONSE start with the byte 0xCC.
Mark   == 204
System == 129
Ping   == 136

\* The length of a payload does not look like a mark; Message::buffer makes 197 bytes
\* at most (message.cpp:338, 364).
ASSUME GroundAssumption ==
    /\ \A p \in Reports \union Answers : p \in Seq(0 .. 255) /\ Len(p) < Mark
    /\ Strengths \subseteq 0 .. 255
    /\ MaxFrames \in Nat

Frames == [second: {System}, payload: Reports, rsi: Strengths]
              \union [second: {Ping}, payload: Answers, rsi: Strengths]

Bytes(f) == <<Mark, f.second, Len(f.payload)>> \o f.payload \o <<f.rsi>>

\* No mark outside of the header.
Plain(f) == \A i \in DOMAIN f.payload : f.payload[i] # Mark

GroundInit ==
    /\ \E f \in Frames :
          /\ air = <<f>>
          /\ stream = Bytes(f)
          /\ begin = <<0, Len(Bytes(f))>>
          /\ missed \in 0 .. Len(Bytes(f))
          /\ missed > 0 => Plain(f)
    /\ heard = missed
    /\ receive_buffer = <<>>
    /\ table = <<>>

\* Another frame arrives on the ground.
RadioReceives ==
    /\ Len(air) < MaxFrames
    /\ \E f \in Frames :
          /\ air' = Append(air, f)
          /\ stream' = stream \o Bytes(f)
          /\ begin' = Append(begin, Len(stream) + Len(Bytes(f)))
    /\ UNCHANGED <<missed, heard, receive_buffer, table>>

From(s, i) == SubSeq(s, i, Len(s))

\* A type this program shows.
HeaderAt(s, i) == i + 2 <= Len(s) /\ s[i] = Mark /\ s[i + 1] \in {System, Ping}

\* Bytes are dropped up to a header, or until too few of them are left for one.
Scan(s) == From(s, Min({i \in 1 .. Len(s) + 1 : HeaderAt(s, i) \/ i + 2 > Len(s)}))

\* Mutant: the length is taken to count the header.
WholeTooEarly(s) == HeaderAt(s, 1) /\ Len(s) >= s[3]

\* The header and what it counts have come; the RSI may not have.
Whole(s) == HeaderAt(s, 1) /\ Len(s) >= s[3] + 3

\* The row is made before the RSI is looked at.  If this byte is not there yet, an
\* exception ends the call: in the row of a system message only the RSI is missing,
\* the row of a ping is left empty.
Row(s) ==
    LET payload == SubSeq(s, 4, Min({s[3] + 3, Len(s)}))
    IN IF Len(s) > s[3] + 3 THEN [payload |-> {payload}, rsi |-> {s[s[3] + 4]}]
       ELSE [payload |-> IF s[2] = System THEN {payload} ELSE {}, rsi |-> {}]

\* A piece of the stream arrives; readAll() takes all there is.
OnSerialRead ==
    \E n \in heard + 1 .. Len(stream) :
        LET s == Scan(receive_buffer \o SubSeq(stream, heard + 1, n)) IN
        /\ heard' = n
        /\ IF Whole(s)
           THEN /\ table' = Append(table, Row(s))
                /\ receive_buffer' = From(s, s[3] + 5)
           ELSE /\ receive_buffer' = s
                /\ UNCHANGED table
        /\ UNCHANGED <<air, stream, begin, missed>>

GroundNext == RadioReceives \/ OnSerialRead

GroundSpec == GroundInit /\ [][GroundNext]_ground
-----------------------------------------------------------------------------
\* The frames that were not heard from their first byte on, those up to the one of the
\* last row, and the one of row i.
Skipped == IF missed = 0 THEN 0 ELSE 1
Shown   == Skipped + Len(table)
Sent(i) == air[Skipped + i]

\* However the stream is cut into pieces, and wherever it was entered: the rows are
\* the frames, in order, none torn, left out or shown twice (a row may lack its
\* RSI, and that of a ping then everything else), and the frames no row was made for
\* yet are complete in the buffer, although an RSI byte that comes late stays behind
\* as garbage (Taros_GCS.py:113-139).
FramesAsSent ==
    /\ Shown <= Len(air)
    /\ \A i \in DOMAIN table :
          /\ table[i].rsi \subseteq {Sent(i).rsi}
          /\ table[i].payload = IF table[i].rsi = {} /\ Sent(i).second = Ping THEN {}
                                ELSE {Sent(i).payload}
    /\ \E b \in 0 .. begin[Shown + 1] : receive_buffer = SubSeq(stream, b + 1, heard)
=============================================================================
