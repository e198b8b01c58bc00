---------------------------- MODULE LogFormatter ----------------------------
(***************************************************************************)
(* sylar::LogFormatter (src/sylar/log.h, log.cc): the pattern of a logger, *)
(* cut into text and directives by init() and rendered item by item.  A    *)
(* pattern is a sequence of one-character strings.                         *)
(***************************************************************************)
EXTENDS Naturals, Sequences, SequencesExt

CONSTANTS
    PatternChars,   \* the characters of the patterns checked against their meaning
    MaxPattern      \* and the bound on their length

\* s_format_items: the event field a directive writes.
Field == [m |-> "content", p |-> "level", r |-> "elapse", c |-> "logger",
          t |-> "thread id", n |-> "end of line", F |-> "fiber id",
          T |-> "tab", d |-> "time", f |-> "file", l |-> "line",
          N |-> "thread name"]

\* isalpha: the keys, and q for all letters that are none.
Alpha == DOMAIN Field \cup {"q"}
Ident == Alpha \cup {"{", "}"}

-----------------------------------------------------------------------------
\* The while loop behind the % at i.  It stops at the first character that can
\* be no part of a directive, or at the first } behind a {.  status is
\* fmt_status: 0 no braces, 1 an open brace that is not closed, 2 closed.
Directive(p, i) ==
    LET stop == CHOOSE n \in (i + 1)..(Len(p) + 1) :
                    /\ \A k \in (i + 1)..(n - 1) : p[k] \in Ident
                    /\ n <= Len(p) => p[n] \notin Ident
        opens == {n \in (i + 1)..(stop - 1) : p[n] = "{"}
        begin == Min(opens)
        closes == {n \in (begin + 1)..(stop - 1) : p[n] = "}"}
    IN  CASE opens = {} ->
                [status |-> 0, str |-> SubSeq(p, i + 1, stop - 1),
                 fmt |-> <<>>, last |-> stop - 1]
          [] opens # {} /\ closes = {} ->
                [status |-> 1, str |-> SubSeq(p, i + 1, begin - 1),
                 fmt |-> <<>>, last |-> i]
          [] opens # {} /\ closes # {} ->
                [status |-> 2, str |-> SubSeq(p, i + 1, begin - 1),
                 fmt |-> SubSeq(p, begin + 1, Min(closes) - 1),
                 last |-> Min(closes)]

Text(s) == [type |-> "text", str |-> s, fmt |-> <<>>]

\* vec with the pending text nstr in front of the next entry.
Flushed(vec, nstr) == IF nstr = <<>> THEN vec ELSE Append(vec, Text(nstr))

\* Mutant: i is left behind the directive, and the loop's ++i skips a character.
ResumesLate(d) == d.last + 2

\* Where the loop goes on behind a directive: i = n - 1 or i = n, then ++i.
Resumes(d) == d.last + 1

\* One turn of init()'s loop.  The first % of %% is text and the second is
\* looked at again; an open brace leaves an error entry in front of the text
\* that is still pending, and the loop goes on behind the %.
Turn(p, s, i) ==
    IF i < s.next THEN s
    ELSE IF p[i] # "%" \/ (i < Len(p) /\ p[i + 1] = "%")
    THEN [s EXCEPT !.nstr = Append(@, p[i])]
    ELSE LET d == Directive(p, i)
         IN  IF d.status = 1
             THEN [s EXCEPT !.vec = Append(@, Text(<<"<<pattern_error>>">>)),
                            !.err = TRUE]
             ELSE [s EXCEPT !.vec = Append(Flushed(@, s.nstr),
                                           [type |-> "field", str |-> d.str,
                                            fmt |-> d.fmt]),
                            !.nstr = <<>>, !.next = Resumes(d)]

\* init(): the loop over the pattern, and the text left at its end.
Parsed(p) ==
    LET s == FoldLeft(LAMBDA acc, i : Turn(p, acc, i),
                      [next |-> 1, nstr |-> <<>>, vec |-> <<>>, err |-> FALSE],
                      [i \in 1..Len(p) |-> i])
    IN  [vec |-> Flushed(s.vec, s.nstr), err |-> s.err]

\* s_format_items.find(str).
Known(str) == Len(str) = 1 /\ Head(str) \in DOMAIN Field

\* m_items: an unknown directive becomes an item that writes the message.
Items(p) == Parsed(p).vec

IsError(p) ==
    \/ Parsed(p).err
    \/ \E x \in Range(Items(p)) : x.type = "field" /\ ~Known(x.str)

\* One character of the output, or a field with its format; only the time has
\* one (the empty format is the default format), the other items ignore it.
Char(c) == <<c, <<>>>>
Shown(key, fmt) == <<Field[key], IF key = "d" THEN fmt ELSE <<>>>>

\* What format() writes for an item.
Written(x) ==
    CASE x.type = "text" -> [k \in DOMAIN x.str |-> Char(x.str[k])]
      [] x.type = "field" /\ Known(x.str) -> <<Shown(Head(x.str), x.fmt)>>
      [] x.type = "field" /\ ~Known(x.str) -> <<Shown("m", <<>>)>>

Format(p) == FlattenSeq([k \in DOMAIN Items(p) |-> Written(Items(p)[k])])

-----------------------------------------------------------------------------
(* The reference: a pattern is a sequence of tokens, read from left to right.  *)
(* Behind a % there are the three cases of the comment at log.cc:482-483:      *)
(* 1) %xxx, 2) %xxx{xxx}, 3) %%.                                               *)

\* The token that starts at i.  A directive's name is all the letters behind
\* the %, and one that is known; a format is everything up to the next }.
Token(p, i) ==
    LET stop == CHOOSE n \in (i + 1)..(Len(p) + 1) :
                    /\ \A k \in (i + 1)..(n - 1) : p[k] \in Alpha
                    /\ n <= Len(p) => p[n] \notin Alpha
        name == SubSeq(p, i + 1, stop - 1)
        braced == stop <= Len(p) /\ p[stop] = "{"
        closes == {k \in (stop + 1)..Len(p) : p[k] = "}"}
        fmt == SubSeq(p, stop + 1, Min(closes) - 1)
    IN  CASE p[i] # "%" ->
                [case |-> 0, last |-> i, out |-> Char(p[i])]
          [] p[i] = "%" /\ i < Len(p) /\ p[i + 1] = "%" ->
                [case |-> 3, last |-> i + 1, out |-> Char("%")]
          [] p[i] = "%" /\ Known(name) /\ ~braced ->
                [case |-> 1, last |-> stop - 1, out |-> Shown(Head(name), <<>>)]
          [] p[i] = "%" /\ Known(name) /\ braced /\ closes # {} ->
                [case |-> 2, last |-> Min(closes), out |-> Shown(Head(name), fmt)]
          [] OTHER ->
                [case |-> 4, last |-> Len(p), out |-> Char("?")]

\* The tokens of p with the places they start at; one that is none of the three
\* cases is the last.
Tokens(p) ==
    LET from[i \in 1..(Len(p) + 1)] ==
            IF i > Len(p) THEN <<>>
            ELSE <<Token(p, i) @@ [first |-> i]>> \o from[Token(p, i).last + 1]
    IN  from[1]

WellFormed(p) == \A t \in Range(Tokens(p)) : t.case # 4
Meaning(p) == [k \in DOMAIN Tokens(p) |-> Tokens(p)[k].out]

\* init() accepts p, and format() writes what p means.
Rendered(p) == WellFormed(p) /\ ~IsError(p) /\ Format(p) = Meaning(p)

\* The tokens init() does not read as they are meant.  It leaves the second %
\* of %% to start a directive (497), gives up at a character of a format that
\* is neither a letter nor a brace (507-510), such as those of %Y-%m-%d, and
\* takes a } behind a name for a part of the name (507-526).
Misread(p, t) ==
    \/ t.case = 3
    \/ t.case = 2 /\ \E k \in (t.first + 1)..t.last : p[k] \notin Ident
    \/ t.case = 1 /\ t.last < Len(p) /\ p[t.last + 1] = "}"

\* init() does with p what these tokens say: it rejects what is not well
\* formed, and a well-formed pattern is rendered as it is meant exactly when it
\* has none of them.
Handled(p) ==
    IF WellFormed(p) THEN Rendered(p) <=> ~\E t \in Range(Tokens(p)) : Misread(p, t)
    ELSE IsError(p)

Unhandled == {p \in BoundedSeq(PatternChars, MaxPattern) : ~Handled(p)}
=============================================================================
