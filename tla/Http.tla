-------------------------------- MODULE Http --------------------------------
(***************************************************************************)
(* One connection to the HTTP service (event_http.c): a context that reads *)
(* a request in pieces of any size, answers it and is freed.               *)
(*                                                                         *)
(* The bytes of a request are tokens: a CR, a LF, and the texts that       *)
(* http_parse and http_parsehdr can tell apart.  A request is a sequence   *)
(* of them, an answer is only its length.                                  *)
(* Contexts are records; NULL is one that http_ctx_free has freed.         *)
(***************************************************************************)
EXTENDS Integers, Sequences, SequencesExt, Null

CONSTANTS
  HTTP_MAX_REQUEST,      \* tokens of rbuf
  MaxResponse            \* bound: the length of a response

ASSUME HttpAssumption == HTTP_MAX_REQUEST \in Nat \ {0} /\ MaxResponse \in Nat \ {0}

CR == "CR"
LF == "LF"
Line == "GET u HTTP/1.1"     \* a text with two blanks, a version after the second
Field == "k: v"              \* a text with one blank and a colon
Word == "word"               \* a text with neither blank nor colon

http_accept(request) ==
  [request |-> request, rest |-> request, rbuf |-> <<>>, http_nxt |-> NULL, http_msg |-> FALSE,
   w_read |-> TRUE, w_write |-> FALSE, w_timeout |-> TRUE, wbuf |-> NULL]

\* strstr(buf + from, "\r\n"), 0 when there is none.
Crlf(buf, from) ==
  LET at == {i \in from..(Len(buf) - 1) : buf[i] = CR /\ buf[i + 1] = LF}
  IN  IF at = {} THEN 0 ELSE Min(at)

\* A text is cut at its first two blanks, and what follows must begin with a version
\* that is supported: so it is when the first of its blanks are those of a Line.
HasVersion(text) ==
  LET blanks == SelectSeq(text, LAMBDA token : token \in {Line, Field})
  IN  blanks # <<>> /\ Head(blanks) = Line

\* The first line: where the next one begins, or what is wrong.
http_parse(buf, from) ==
  LET end == Crlf(buf, from)
  IN  IF end = 0 THEN [verdict |-> "more", next |-> from]
      ELSE [verdict |-> IF HasVersion(SubSeq(buf, from, end - 1)) THEN "line" ELSE "refused",
            next |-> end + 2]

\* http_parsehdr: a text with a colon somewhere is a header.
IsHeader(text) == \E i \in 1..Len(text) : text[i] = Field

\* The headers, up to the empty line: http_parsehdr in the loop of http_read_cb.
Headers(buf, from) ==
  LET parse[p \in 1..(Len(buf) + 1)] ==
        LET end == Crlf(buf, p)
        IN  IF end = 0 THEN [verdict |-> "more", next |-> p]
            ELSE IF end = p THEN [verdict |-> "done", next |-> end + 2]
            ELSE IF ~IsHeader(SubSeq(buf, p, end - 1)) THEN [verdict |-> "refused", next |-> p]
            ELSE parse[end + 2]
  IN  parse[from]

\* What the code makes of a request that arrives in one piece.
Verdict(input) ==
  LET first == http_parse(input, 1)
  IN  IF first.verdict # "line" THEN first.verdict ELSE Headers(input, first.next).verdict

-----------------------------------------------------------------------------
(* Answers *)

\* n of the bytes of the answer are taken by the socket.  wbuf->len is reduced
\* here and a second time by VBUF_CONSUME.
http_ctx_write(ctx, n) ==
  IF n = ctx.wbuf THEN NULL ELSE [ctx EXCEPT !.wbuf = @ - n - n, !.w_write = TRUE]

\* BUF_CONSUME asserts that it consumes no more than there is.
WriteAsserts(ctx, n) == n < ctx.wbuf => n <= ctx.wbuf - n

\* http_serve with what it calls: statistics, "healthy" or an error page make an
\* answer of length len, 0 when there was no memory for it.
http_serve(ctx, len) ==
  IF len = 0 THEN NULL ELSE [ctx EXCEPT !.w_read = FALSE, !.wbuf = len]

-----------------------------------------------------------------------------
(* Reading *)

\* Room for a piece, with one byte for the terminator.
ReadCap(ctx) == HTTP_MAX_REQUEST - Len(ctx.rbuf) - 1

\* Bug: each call parses the request from the beginning of what it received.
Received_FromPiece(ctx, n) ==
  [ctx EXCEPT !.rbuf = @ \o SubSeq(ctx.rest, 1, n),
              !.rest = SubSeq(@, n + 1, Len(@)),
              !.http_nxt = Len(ctx.rbuf) + 1]

Received(ctx, n) ==
  [ctx EXCEPT !.rbuf = @ \o SubSeq(ctx.rest, 1, n),
              !.rest = SubSeq(@, n + 1, Len(@)),
              !.http_nxt = IF @ = NULL THEN 1 ELSE @]

\* recv returns n tokens, or ends the connection (n = 0): the context afterwards,
\* and whether the request is whole.
http_read(ctx, n) ==
  LET got == Received(ctx, n)
      first == IF ctx.http_msg THEN [verdict |-> "line", next |-> got.http_nxt]
               ELSE http_parse(got.rbuf, got.http_nxt)
      headers == Headers(got.rbuf, first.next)
      verdict == IF n = 0 THEN "closed"
                 ELSE IF first.verdict # "line" THEN first.verdict ELSE headers.verdict
      full == verdict = "more" /\ first.verdict = "more" /\ ReadCap(got) = 0
  IN  [verdict |-> verdict,
       ctx |-> IF verdict \in {"closed", "refused"} \/ full THEN NULL
               ELSE IF first.verdict = "more" THEN got
               ELSE [got EXCEPT !.http_msg = TRUE, !.http_nxt = headers.next]]

=============================================================================
