---------------------------- MODULE HttpHeaders ----------------------------
(***************************************************************************)
(* class HttpHeaders (http-headers.h): the collector of header lines that  *)
(* http_get feeds with whatever SSL_read returns.  A byte is "LF", "CR" or *)
(* "text"; a header line is kept as its length.                            *)
(***************************************************************************)
EXTENDS Integers, Sequences

Bytes == {"LF", "CR", "text"}

\* clear(): headerlines (their number), the line being read (its length) and
\* hdr_is_complete.
NoHeaders == [lines |-> 0, line |-> 0, complete |-> "no"]
Headers == [lines : Nat, line : Nat, complete : {"no", "yes"}]

is_complete(h) == h.lines > 0 /\ h.complete = "yes"

\* Mutant: a carriage return counts as part of its line.
AddByte_KeepsCR(st, c) ==
    CASE st.returned                -> [st EXCEPT !.surplus = @ + 1]
      [] ~st.returned /\ c # "LF" -> [st EXCEPT !.hdr.line = @ + 1]
      [] ~st.returned /\ c = "LF" /\ st.hdr.line > 0 ->
            [st EXCEPT !.hdr.lines = @ + 1, !.hdr.line = 0]
      [] ~st.returned /\ c = "LF" /\ st.hdr.line = 0 ->
            [st EXCEPT !.hdr.complete = "yes", !.returned = TRUE]

\* One iteration of the loop of add_data; after its early return the bytes
\* left are only counted.
AddByte(st, c) ==
    CASE st.returned            -> [st EXCEPT !.surplus = @ + 1]
      [] ~st.returned /\ c = "CR" -> st
      [] ~st.returned /\ c = "text" -> [st EXCEPT !.hdr.line = @ + 1]
      [] ~st.returned /\ c = "LF" /\ st.hdr.line > 0 ->
            [st EXCEPT !.hdr.lines = @ + 1, !.hdr.line = 0]
      [] ~st.returned /\ c = "LF" /\ st.hdr.line = 0 ->
            [st EXCEPT !.hdr.complete = "yes", !.returned = TRUE]

\* The loop of add_data over buf: its state after each number of bytes.
Loop(h, buf) ==
    LET st[i \in 0..Len(buf)] ==
          IF i = 0 THEN [hdr |-> h, returned |-> FALSE, surplus |-> 0]
          ELSE AddByte(st[i - 1], buf[i])
    IN  st

\* add_data(buf, len): the headers after it, and how many of the last bytes of
\* buf it returns as surplus.
add_data(h, buf) == Loop(h, buf)[Len(buf)]

-----------------------------------------------------------------------------
(* What the collector is for, stated on the whole reply. *)

\* Byte i ends an empty line.
EndsEmptyLine(bytes, i) ==
    /\ bytes[i] = "LF"
    /\ \E j \in 1..(i - 1) :
          /\ bytes[j] = "LF"
          /\ \A k \in (j + 1)..(i - 1) : bytes[k] = "CR"

\* The positions of the body: what follows the first empty line.
HasBody(bytes) == \E i \in DOMAIN bytes : EndsEmptyLine(bytes, i)

BodyStart(bytes) ==
    CHOOSE i \in DOMAIN bytes :
        /\ EndsEmptyLine(bytes, i)
        /\ \A j \in 1..(i - 1) : ~EndsEmptyLine(bytes, j)
=============================================================================
