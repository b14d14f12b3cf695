-------------------------------- MODULE Letter --------------------------------
(***************************************************************************)
(* The bytes of a letter, line by line: how it is put together             *)
(* (compose.rs, mime.rs), sealed (sign.rs), written on the wire            *)
(* (conversation.rs) and read from it (session.rs), and what a mail        *)
(* program then finds in it.                                               *)
(*                                                                         *)
(* A line is the number of dots it begins with, what follows them, and how *)
(* it ends.  A boundary is the number it was drawn from.                   *)
(***************************************************************************)
EXTENDS Naturals, Sequences, SequencesExt

Line(dots, is, b) == [dots |-> dots, is |-> is, boundary |-> b, end |-> "crlf"]

Nothing == [dots |-> 0, is |-> "blank", boundary |-> 0, end |-> "none"]

Lone == Line(1, "blank", 0)

Kind == {"blank", "plain", "html", "inline", "attachment", "multipart", "open", "close", "seal"}

ALine == [dots : Nat, is : Kind, boundary : Nat, end : {"crlf", "lf", "none"}]

\* What is left behind the last line feed is no line if it is nothing.
IsLetter(raw) ==
  /\ raw \in Seq(ALine)
  /\ raw # <<>> => Last(raw) # Nothing

------------------------------------------------------------------------------
\* text_part, and to_part: one line stands for headers and content.  Base64 has
\* no dots; quoted-printable leaves those of the text where they are.
TextPart(subtype, dots) == <<Line(dots, subtype, 0)>>

ToPart(disposition) == <<Line(0, disposition, 0)>>

\* multipart
Multipart(b, parts) ==
  <<Line(0, "multipart", b)>>
    \o FlattenSeq([i \in DOMAIN parts |-> <<Line(0, "open", b)>> \o parts[i]])
    \o <<Line(0, "close", b)>>

Copies(part, n) == [i \in 1 .. n |-> part]

Draft ==
  [text : Nat, html : BOOLEAN, pictures : Nat, files : Nat, clock : [1 .. 3 -> Nat]]

\* rich, and plain_text: d.text is the number of dots the text begins with,
\* d.clock[i] what fresh_boundary draws for the i-th multipart.  Pictures travel
\* with the HTML, if there is any, else as files; both keep what they are.
Rich(d) ==
  LET text == TextPart("plain", d.text)
      pictures == Copies(ToPart("inline"), d.pictures)
      files == (IF d.html THEN <<>> ELSE pictures) \o Copies(ToPart("attachment"), d.files)
      body == IF d.html THEN Multipart(d.clock[1], <<text, TextPart("html", 0)>>) ELSE text
      related == IF d.html /\ d.pictures > 0 THEN Multipart(d.clock[2], <<body>> \o pictures)
                 ELSE body
  IN  IF files # <<>> THEN Multipart(d.clock[3], <<related>> \o files) ELSE related

\* dkim_sign: the seal goes on top, over the bytes as they are.
Sealed(raw) == <<Line(0, "seal", 0)>> \o raw

------------------------------------------------------------------------------
\* Variant: only the line that is a dot and nothing else gets a second one.
StuffedLone(l) ==
  [l EXCEPT !.dots = IF l.dots = 1 /\ l.is = "blank" THEN 2 ELSE @, !.end = "crlf"]

Stuffed(l) == [l EXCEPT !.dots = IF @ > 0 THEN @ + 1 ELSE @, !.end = "crlf"]

\* write_transparent_payload: the pieces between line feeds, without the empty
\* one behind the last.
Payload(raw) ==
  LET pieces == IF raw # <<>> /\ Last(raw).end = "none" THEN raw ELSE Append(raw, Nothing)
      lines == IF Last(pieces) = Nothing THEN Front(pieces) ELSE pieces
  IN  Append([i \in DOMAIN lines |-> Stuffed(lines[i])], Lone)

\* read_payload, up to the line with the lone dot.
Complete(stream) == \E i \in DOMAIN stream : stream[i] = Lone

ReadPayload(stream) ==
  LET end == CHOOSE i \in DOMAIN stream :
               stream[i] = Lone /\ \A j \in 1 .. (i - 1) : stream[j] # Lone
  IN  [i \in 1 .. (end - 1) |->
         [stream[i] EXCEPT !.dots = IF @ > 0 THEN @ - 1 ELSE @]]

------------------------------------------------------------------------------
\* How a mail program reads a message: a line that is a boundary is one of the
\* outermost multipart it can belong to.
Reads(state, l) ==
  LET levels == {i \in DOMAIN state.inside : state.inside[i] = l.boundary}
      outermost == CHOOSE i \in levels : \A j \in levels : i <= j
  IN  IF state.over THEN state ELSE
      CASE l.is = "seal" -> state
        [] l.is = "multipart" -> [state EXCEPT !.inside = Append(@, l.boundary)]
        [] l.is = "open" ->
             IF levels = {} THEN state ELSE [state EXCEPT !.inside = SubSeq(@, 1, outermost)]
        [] l.is = "close" ->
             IF levels = {} THEN state
             ELSE [state EXCEPT !.inside = SubSeq(@, 1, outermost - 1), !.over = outermost = 1]
        [] OTHER -> [state EXCEPT !.seen = Append(@, l.is)]

Unread == [inside |-> <<>>, over |-> FALSE, seen |-> <<>>]

Seen(lines) ==
  LET state[n \in 0 .. Len(lines)] ==
        IF n = 0 THEN Unread ELSE Reads(state[n - 1], lines[n])
  IN  state[Len(lines)].seen

\* What the author put in.
Meant(d) ==
  <<"plain">> \o (IF d.html THEN <<"html">> ELSE <<>>)
    \o Copies("inline", d.pictures) \o Copies("attachment", d.files)
==============================================================================
