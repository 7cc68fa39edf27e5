----------------------------- MODULE ChatMessage ------------------------------
(***************************************************************************)
(* common/s4json_util.cpp, which finds the first JSON object in a text     *)
(* that may still be arriving, and network/chat_message.h, which frames    *)
(* such texts: four characters of length, then at most 512 of body.        *)
(***************************************************************************)
EXTENDS Text

Quote == "\""
Escape == "\\"
LeftBrace == "{"
RightBrace == "}"
LeftBracket == "["
RightBracket == "]"

(***************************************************************************)
(* searchJson.  The stack holds the open brackets and quotes, the last one *)
(* first.  It is never empty within the loop: the first '{' is at its      *)
(* bottom, and the '}' that takes it away ends the loop.  So the branches  *)
(* for a second object or array on an empty stack are not reachable, and   *)
(* the last character of what is found is that '}'.                        *)
(*                                                                         *)
(* Brackets within a string are brackets here.  A text without '{', or     *)
(* one that ends with an escape, is read outside its bounds; for these the *)
(* result is undefined.                                                    *)
(***************************************************************************)
Found(start, stop) == [ec |-> "found", start |-> start, stop |-> stop]
Failed(ec) == [ec |-> ec, start |-> 0, stop |-> 0]

Go(s) == [s EXCEPT !.stop = @ + 1]
Push(s, c) == [Go(s) EXCEPT !.open = <<c>> \o @]
Pop(s) == [Go(s) EXCEPT !.open = Tail(@)]
Open(s) == s.open[1]
Ends(s, ec) == [s EXCEPT !.ec = ec]
Close(s, bracket) == IF Open(s) = bracket THEN Pop(s) ELSE Ends(s, "JSON_ILLEGAL_STOP")

(* At an escape the next character is skipped. *)
Seen(s) == Go(s)                                 \* mutant: it is not
Skip(s) == [Go(s) EXCEPT !.skip = TRUE]
Skipped(s) == [Go(s) EXCEPT !.skip = FALSE]

Bracket(s, c) ==
  CASE c \in {LeftBrace, LeftBracket} -> Push(s, c)
    [] c = Quote -> IF Open(s) = Quote THEN Pop(s) ELSE Push(s, Quote)
    [] c = RightBracket -> Close(s, LeftBracket)
    [] c = RightBrace -> IF s.open = <<LeftBrace>> THEN Ends(s, "found") ELSE Close(s, LeftBrace)
    [] OTHER -> Go(s)
Take(s, c) ==
  IF s.ec # "JSON_WAITING_STOP" THEN s
  ELSE IF s.skip THEN Skipped(s)
  ELSE IF c = Escape THEN Skip(s) ELSE Bracket(s, c)

Begun(start) == [open |-> <<LeftBrace>>, stop |-> start + 1, skip |-> FALSE, ec |-> "JSON_WAITING_STOP"]
Scanned(str, start) ==
  LET taken[i \in 0..(Len(str) - start)] == IF i = 0 THEN Begun(start) ELSE Take(taken[i - 1], str[start + i])
  IN taken[Len(str) - start]

searchJson(str) ==
  LET start == Find(str, <<LeftBrace>>, 1)
      s == Scanned(str, start)
  IN IF start = 0 \/ s.skip THEN Failed("undefined")
     ELSE IF s.ec = "found" THEN Found(start, s.stop) ELSE Failed(s.ec)

-----------------------------------------------------------------------------
header_length == 4
max_body_length == 512

(* A message is the characters of its header and body, and body_length_.   *)
body_length(msg, new_length) ==
  [msg EXCEPT !.body_length_ = IF new_length > max_body_length THEN max_body_length ELSE new_length]

(* sprintf "%4d". *)
encode_header(msg) ==
  LET digits == Padded(msg.body_length_, 1)
  IN [msg EXCEPT !.header = [i \in 1..(header_length - Len(digits)) |-> " "] \o digits]

(* body_length_ has no sign: a negative length is taken for a huge one. *)
Fits(n) == n >= 0 /\ n <= max_body_length
decode_header(msg) ==
  LET n == atoi(msg.header)
  IN IF Fits(n) THEN [ok |-> TRUE, msg |-> [msg EXCEPT !.body_length_ = n]]
     ELSE [ok |-> FALSE, msg |-> [msg EXCEPT !.body_length_ = 0]]

(* body_json(): what is handed to the parser, or nothing. *)
body_json(msg) ==
  LET s == SubSeq(msg.body, 1, msg.body_length_)
      r == searchJson(s)
  IN IF r.ec = "found" THEN SubSeq(s, r.start, r.stop) ELSE <<>>

-----------------------------------------------------------------------------
(* What is checked.  A JSON object whose strings hold no brackets is found *)
(* as it is, whatever stands before and behind it, and as long as a part   *)
(* of it is missing the search says that it waits for more, never that the *)
(* text is wrong.                                                          *)
ObjectIsFound(before, object, behind) ==
  searchJson(before \o object \o behind) = Found(Len(before) + 1, Len(before) + Len(object))
WaitsForTheRest(before, object) ==
  \A k \in 1..(Len(object) - 1) :
    searchJson(before \o SubSeq(object, 1, k)).ec \in {"JSON_WAITING_STOP", "undefined"}

(* An object that is sent in a message arrives with it: the receiver, who  *)
(* reads the header first and then as much as it says, has the object and  *)
(* no more.                                                                *)
Empty == [header |-> <<" ", " ", " ", " ">>, body |-> <<>>, body_length_ |-> 0]
Sent(object) == encode_header(body_length([Empty EXCEPT !.body = object], Len(object)))
ObjectArrives(before, object, next) ==
  LET sent == Sent(before \o object)
      arrived == [header |-> sent.header, body |-> sent.body \o next, body_length_ |-> 0]
      received == decode_header(arrived)
  IN received.ok /\ body_json(received.msg) = object

(* Any length arrives as it is, or as the longest one. *)
LengthArrives(n) ==
  decode_header(encode_header(body_length(Empty, n))) =
    [ok |-> TRUE, msg |-> encode_header(body_length(Empty, n))]
===============================================================================
