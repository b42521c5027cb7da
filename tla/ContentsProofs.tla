--------------------------- MODULE ContentsProofs ---------------------------
(***************************************************************************)
(* Proofs about names, bodies and XML requests: any uids, times, property  *)
(* lists and sequences of requests.                                        *)
(***************************************************************************)
EXTENDS Contents, TLAPS

(* Short sequences.                                                        *)
LEMMA Few ==
  ASSUME NEW A, NEW a \in A, NEW b \in A, NEW c \in A, NEW d \in A
  PROVE  /\ << >> \in Seq(A) /\ <<a>> \in Seq(A) /\ <<a, b>> \in Seq(A)
         /\ <<a, b, c>> \in Seq(A) /\ <<a, b, c, d>> \in Seq(A)
OBVIOUS

(* Longer ones.                                                            *)
LEMMA Six ==
  ASSUME NEW A, NEW a \in A, NEW b \in A, NEW c \in A, NEW d \in A, NEW e \in A, NEW f \in A
  PROVE  <<a, b, c, d, e, f>> \in Seq(A)
OBVIOUS

(* The characters in the last segment of an href.                          *)
Chars == (STRING \cup {"%", "4", "0", ".ics"}) \ {"/"}

----------------------------------------------------------------------------
(* Names in URLs *)

(* The suffix of an href is taken off again, and nothing more.             *)
LEMMA UrlBack ==
  ASSUME NEW u \in Seq(Chars), Ordinary(u)
  PROVE  uid_from_url(FileName(u)) = u
<1> DEFINE n    == Len(u)
           name == Append(u, ".ics")
           kept == {k \in 0 .. Len(name) : \A i \in k + 1 .. Len(name) : name[i] = ".ics"}
<1>1. /\ n \in Nat /\ n > 0 /\ Len(name) = n + 1
      /\ name[n + 1] = ".ics" /\ name[n] = u[n] /\ u[n] # ".ics"
  BY DEF Ordinary
<1>2. n \in kept
  BY <1>1
<1>3. ASSUME NEW k \in kept PROVE n <= k
  <2>1. k \in 0 .. n + 1 /\ (k < n => n \in k + 1 .. Len(name))
    BY <1>1
  <2> QED
    BY <1>1, <2>1
<1>4. (CHOOSE k \in kept : \A m \in kept : k <= m) = n
  <2>1. \A k \in kept : (\A m \in kept : k <= m) => k = n
    BY <1>1, <1>2, <1>3
  <2> HIDE DEF kept
  <2> QED
    BY <1>2, <1>3, <2>1
<1>5. SubSeq(name, 1, n) = u
  BY <1>1
<1> QED
  BY <1>4, <1>5 DEF uid_from_url, FileName, trim_end_matches

(* A name without a slash is its last segment.                             *)
LEMMA OneSegment ==
  ASSUME NEW s \in Seq(Chars)
  PROVE  LastSegment(s) = s
<1> DEFINE starts == {n \in 0 .. Len(s) : \A i \in n + 1 .. Len(s) : s[i] # "/"}
<1>1. \A i \in 1 .. Len(s) : s[i] # "/"
  BY DEF Chars
<1>2. 0 \in starts /\ \A m \in starts : m \in Nat
  BY <1>1
<1>3. (CHOOSE n \in starts : \A m \in starts : n <= m) = 0
  <2> HIDE DEF starts
  <2>1. \A m \in starts : 0 <= m
    BY <1>2
  <2>2. \A n \in starts : (\A m \in starts : n <= m) => n = 0
    BY <1>2
  <2> QED
    BY <1>2, <2>1, <2>2
<1>4. SubSeq(s, 1 + 0, Len(s)) = s
  OBVIOUS
<1> QED
  BY <1>3, <1>4 DEF LastSegment

NothingDecoded == [out |-> << >>, escape |-> << >>]

(* A decoder between two escapes, at a character and at an escaped "@".    *)
LEMMA DecodeOne ==
  ASSUME NEW out \in Seq(Chars), NEW c \in Chars, c # "%"
  PROVE  /\ decode_char([out |-> out, escape |-> << >>], c)
              = [out |-> Append(out, c), escape |-> << >>]
         /\ decode_char(decode_char(decode_char([out |-> out, escape |-> << >>], "%"), "4"), "0")
              = [out |-> Append(out, "@"), escape |-> << >>]
<1>1. decode_char([out |-> out, escape |-> << >>], c) = [out |-> Append(out, c), escape |-> << >>]
  BY DEF decode_char
<1>2. decode_char([out |-> out, escape |-> << >>], "%") = [out |-> out, escape |-> <<"%">>]
  BY DEF decode_char
<1>3. decode_char([out |-> out, escape |-> <<"%">>], "4") = [out |-> out, escape |-> <<"%", "4">>]
  BY DEF decode_char
<1>4. decode_char([out |-> out, escape |-> <<"%", "4">>], "0")
        = [out |-> Append(out, "@"), escape |-> << >>]
  <2> DEFINE d == [out |-> out, escape |-> <<"%", "4">>]
  <2>1. d.escape # << >> /\ Len(d.escape) = 2 /\ d.escape[2] = "4" /\ d.out = out
    OBVIOUS
  <2>2. FromHex("4", "0") = "@"
    BY DEF FromHex
  <2>0. "@" # None
    BY NoneAssumption
  <2> HIDE DEF d
  <2>3. decode_char(d, "0") = [out |-> Append(d.out, "@"), escape |-> << >>]
    BY <2>0, <2>1, <2>2 DEF decode_char
  <2> QED
    BY <2>1, <2>3 DEF d
<1> QED
  BY <1>1, <1>2, <1>3, <1>4

(* percent_decode takes the escapes off again.                             *)
LEMMA DecodeEscaped ==
  ASSUME NEW u \in Seq(Chars), \A i \in DOMAIN u : u[i] # "%", Ascii(u)
  PROVE  /\ Escaping!Run(<< >>, u) \in Seq(Chars)
         /\ Decoding!Run(NothingDecoded, Escaping!Run(<< >>, u)) = [out |-> u, escape |-> << >>]
<1> DEFINE E(n) == Escaping!States(<< >>, u)[n]
           S == {n \in Nat : n <= Len(u) =>
                   /\ E(n) \in Seq(Chars)
                   /\ Decoding!Run(NothingDecoded, E(n)) = [out |-> SubSeq(u, 1, n), escape |-> << >>]}
<1>1. 0 \in S
  <2>1. E(0) = << >> /\ SubSeq(u, 1, 0) = << >>
    BY Escaping!StatesOf
  <2>2. Decoding!Run(NothingDecoded, << >>) = NothingDecoded
    BY Decoding!RunNothing
  <2> QED
    BY <2>1, <2>2 DEF NothingDecoded
<1>2. ASSUME NEW n \in Nat, n \in S PROVE n + 1 \in S
  <2> SUFFICES ASSUME n + 1 <= Len(u)
               PROVE  /\ E(n + 1) \in Seq(Chars)
                      /\ Decoding!Run(NothingDecoded, E(n + 1))
                           = [out |-> SubSeq(u, 1, n + 1), escape |-> << >>]
    OBVIOUS
  <2> DEFINE c == u[n + 1]
             x == IF c = "@" THEN <<"%", "4", "0">> ELSE <<c>>
             out == SubSeq(u, 1, n)
  <2>1. E(n) \in Seq(Chars) /\ Decoding!Run(NothingDecoded, E(n)) = [out |-> out, escape |-> << >>]
    BY <1>2
  <2>2. c \in Chars /\ c # "%" /\ out \in Seq(Chars) /\ SubSeq(u, 1, n + 1) = Append(out, c)
    OBVIOUS
  <2>a. c # "e'"
    BY DEF Ascii
  <2>3. E(n + 1) = E(n) \o x
    <3>1. E(n + 1) = escape_char(E(n), c)
      BY Escaping!StatesOf
    <3>2. Escaped(c) = x
      <4> HIDE DEF c
      <4> QED
        BY <2>a DEF Escaped
    <3> HIDE DEF E
    <3> QED
      BY <3>1, <3>2 DEF escape_char
  <2> HIDE DEF E, out, c
  <2>4. x \in Seq(Chars)
    <3>1. <<c>> \in Seq(Chars) /\ <<"%", "4", "0">> \in Seq(Chars)
      BY <2>2, Few DEF Chars
    <3> QED
      BY <3>1
  <2>5. Decoding!Run([out |-> out, escape |-> << >>], x) = [out |-> Append(out, c), escape |-> << >>]
    <3>1. CASE c = "@"
      <4>1. Decoding!Run([out |-> out, escape |-> << >>], <<"%", "4", "0">>)
              = decode_char(decode_char(decode_char([out |-> out, escape |-> << >>], "%"), "4"), "0")
        BY Decoding!RunFew
      <4> QED
        BY <2>2, <3>1, <4>1, DecodeOne
    <3>2. CASE c # "@"
      <4>1. Decoding!Run([out |-> out, escape |-> << >>], <<c>>)
              = decode_char([out |-> out, escape |-> << >>], c)
        BY Decoding!RunFew
      <4> QED
        BY <2>2, <3>2, <4>1, DecodeOne
    <3> QED
      BY <3>1, <3>2
  <2> HIDE DEF x
  <2>6. Decoding!Run(NothingDecoded, E(n) \o x) = Decoding!Run(Decoding!Run(NothingDecoded, E(n)), x)
    BY <2>1, <2>4, Decoding!RunConcat
  <2>7. E(n) \o x \in Seq(Chars)
    BY <2>1, <2>4
  <2> QED
    BY <2>1, <2>2, <2>3, <2>5, <2>6, <2>7, Zenon
<1> HIDE DEF S
<1>3. \A n \in Nat : n \in S
  BY <1>1, <1>2, Decoding!Induction
<1>4. Len(u) \in Nat /\ SubSeq(u, 1, Len(u)) = u
  OBVIOUS
<1>5. Len(u) \in S
  BY <1>3, <1>4
<1> QED
  BY <1>4, <1>5 DEF S, Escaping!Run

(* Characters that are not escaped stay as they are.                       *)
LEMMA DecodePlain ==
  ASSUME NEW u \in Seq(Chars), \A i \in DOMAIN u : u[i] # "%"
  PROVE  Decoding!Run(NothingDecoded, u) = [out |-> u, escape |-> << >>]
<1> DEFINE D(n) == Decoding!States(NothingDecoded, u)[n]
           S == {n \in Nat : n <= Len(u) => D(n) = [out |-> SubSeq(u, 1, n), escape |-> << >>]}
<1>1. 0 \in S
  BY Decoding!StatesOf DEF NothingDecoded
<1>2. ASSUME NEW n \in Nat, n \in S PROVE n + 1 \in S
  <2> SUFFICES ASSUME n + 1 <= Len(u)
               PROVE  D(n + 1) = [out |-> SubSeq(u, 1, n + 1), escape |-> << >>]
    OBVIOUS
  <2> DEFINE c   == u[n + 1]
             out == SubSeq(u, 1, n)
  <2>1. D(n) = [out |-> out, escape |-> << >>]
    BY <1>2
  <2>2. c \in Chars /\ c # "%" /\ out \in Seq(Chars) /\ SubSeq(u, 1, n + 1) = Append(out, c)
    OBVIOUS
  <2>3. D(n + 1) = decode_char(D(n), c)
    BY Decoding!StatesOf
  <2> HIDE DEF D, c, out
  <2> QED
    BY <2>1, <2>2, <2>3, DecodeOne
<1> HIDE DEF S
<1>3. \A n \in Nat : n \in S
  BY <1>1, <1>2, Decoding!Induction
<1>4. Len(u) \in Nat /\ SubSeq(u, 1, Len(u)) = u
  OBVIOUS
<1>5. Len(u) \in S
  BY <1>3, <1>4
<1> QED
  BY <1>4, <1>5 DEF S, Decoding!Run

(* An href that a client writes, escaped or not, names its object.         *)
LEMMA HrefsBack ==
  ASSUME NEW u \in Seq(Chars), Ordinary(u), NEW escaped \in BOOLEAN, ~ escaped \/ Ascii(u)
  PROVE  /\ Written(u, escaped) # << >>
         /\ LastSegment(Written(u, escaped)) = Written(u, escaped)
         /\ Last(Written(u, escaped)) = ".ics"
         /\ percent_decode(Front(Written(u, escaped))) = u
<1> DEFINE e == IF escaped THEN Escaping!Run(<< >>, u) ELSE u
           Marks == Chars \cup {".ics"}
<1>0. \A i \in DOMAIN u : u[i] # "%"
  BY DEF Ordinary
<1>1. e \in Seq(Chars) /\ Decoding!Run(NothingDecoded, e) = [out |-> u, escape |-> << >>]
  BY <1>0, DecodeEscaped, DecodePlain
<1>2. Written(u, escaped) = e \o <<".ics">>
  <2>1. CASE escaped
    <3>1. u \in Seq(Marks)
      OBVIOUS
    <3>2. Escaping!Run(<< >>, Append(u, ".ics")) = escape_char(Escaping!Run(<< >>, u), ".ics")
      BY <3>1, Escaping!RunAppend
    <3>3. escape_char(Escaping!Run(<< >>, u), ".ics") = Escaping!Run(<< >>, u) \o <<".ics">>
      BY DEF escape_char, Escaped
    <3> QED
      BY <2>1, <3>2, <3>3 DEF Written, FileName
  <2>2. CASE ~ escaped
    BY <2>2 DEF Written, FileName
  <2> QED
    BY <2>1, <2>2
<1> HIDE DEF e
<1>6. e \o <<".ics">> \in Seq(Chars)
  <2>1. ".ics" \in Chars
    BY DEF Chars
  <2> QED
    BY <1>1, <2>1
<1>3. e \in Seq(Marks) /\ <<".ics">> \in Seq(Marks)
  BY <1>1
<1> HIDE DEF Marks
<1>4. /\ e \o <<".ics">> # << >>
      /\ Last(e \o <<".ics">>) = ".ics"
      /\ Front(e \o <<".ics">>) = e
  BY <1>3 DEF Last, Front
<1>5. percent_decode(e) = u
  BY <1>1 DEF percent_decode, NothingDecoded
<1> QED
  BY <1>2, <1>4, <1>5, <1>6, OneSegment

(* The href of an object leads a calendar-multiget to it and to no other.  *)
LEMMA MultigetBack ==
  ASSUME NEW u \in Seq(Chars), Ordinary(u), NEW escaped \in BOOLEAN, ~ escaped \/ Ascii(u)
  PROVE  UidsOf(<<Written(u, escaped)>>) = {u}
<1> DEFINE w == Written(u, escaped)
<1>1. w # << >> /\ LastSegment(w) = w /\ Last(w) = ".ics" /\ percent_decode(Front(w)) = u
  BY HrefsBack
<1> HIDE DEF w
<1>2. UidsOf(<<w>>) = {u}
  BY <1>1 DEF UidsOf
<1> QED
  BY <1>2 DEF w

(* A uid without a slash.                                                  *)
LEMMA OrdinaryChars ==
  ASSUME NEW u \in Seq(STRING), Ordinary(u)
  PROVE  u \in Seq(Chars)
<1>1. \A i \in 1 .. Len(u) : u[i] \in Chars
  BY DEF Ordinary, Chars
<1> QED
  BY <1>1

(* ListedHrefsWork: every href that the server lists leads back to its     *)
(* object, through uid_from_url and through UidsOf, which takes the last   *)
(* segment and decodes bytes one by one, for every uid of one segment,     *)
(* and with escapes for every one whose escapes are of single bytes.       *)
THEOREM HrefsLeadBack == ContentsSpec => []ListedHrefsWork
<1>1. ListedHrefsWork
  <2> SUFFICES ASSUME NEW u \in Stored, Ordinary(u)
               PROVE  /\ uid_from_url(FileName(u)) = u
                      /\ \A escaped \in BOOLEAN :
                             ~ escaped \/ Ascii(u) => UidsOf(<<Written(u, escaped)>>) = {u}
    BY DEF ListedHrefsWork
  <2>1. u \in Seq(STRING)
    BY ContentsAssumptions DEF Stored, AllUids
  <2>2. u \in Seq(Chars)
    BY <2>1, OrdinaryChars
  <2> QED
    BY <2>2, UrlBack, MultigetBack
<1> QED
  BY <1>1, PTL
----------------------------------------------------------------------------
(* Bodies *)

\* Lines that start with a name, with values from a set.
Names ==
    {"BEGIN", "END", "UID", "DTSTART", "DTEND", "DUE", "SUMMARY", "VERSION", "PRODID", "DTSTAMP",
     "DESCRIPTION", "LOCATION", "TRIGGER", "RRULE", "RECURRENCE-ID", "TZID", "TZOFFSETFROM",
     "TZOFFSETTO"}

Lines(zones, values) == [name : Names, tzid : zones, value : values]

(* unfold_lines leaves lines that start with a name alone.                 *)
LEMMA UnfoldPlain ==
  ASSUME NEW zones, NEW values, NEW p \in Seq(Lines(zones, values)),
         NEW b \in Seq(Lines(zones, values))
  PROVE  Unfolding!Run(p, b) = p \o b
<1> DEFINE A == Lines(zones, values)
           U(n) == Unfolding!States(p, b)[n]
           S == {n \in Nat : n <= Len(b) => U(n) = p \o SubSeq(b, 1, n)}
<1>0. \A l \in A : l.name # " "
  BY DEF Lines, Names
<1> HIDE DEF A
<1>t. p \in Seq(A) /\ b \in Seq(A) /\ Len(b) \in Nat
  BY DEF A
<1>1. 0 \in S
  <2>1. SubSeq(b, 1, 0) = << >> /\ p \o << >> = p
    BY <1>t
  <2>2. U(0) = p
    BY Unfolding!StatesOf
  <2> HIDE DEF U
  <2> QED
    BY <2>1, <2>2
<1>2. ASSUME NEW n \in Nat, n \in S PROVE n + 1 \in S
  <2> SUFFICES ASSUME n + 1 <= Len(b) PROVE U(n + 1) = p \o SubSeq(b, 1, n + 1)
    OBVIOUS
  <2>1. U(n) = p \o SubSeq(b, 1, n)
    BY <1>2, <1>t
  <2>2. U(n + 1) = join_line(U(n), b[n + 1])
    BY Unfolding!StatesOf
  <2>3. b[n + 1] \in A
    BY <1>t
  <2> HIDE DEF U
  <2>4. U(n + 1) = Append(U(n), b[n + 1])
    BY <2>2, <2>3, <1>0 DEF join_line
  <2>5. Append(p \o SubSeq(b, 1, n), b[n + 1]) = p \o SubSeq(b, 1, n + 1)
    BY <1>t
  <2> QED
    BY <2>1, <2>4, <2>5
<1> HIDE DEF S
<1>3. \A n \in Nat : n \in S
  BY <1>1, <1>2, Unfolding!Induction
<1>4. U(Len(b)) = p \o SubSeq(b, 1, Len(b))
  <2> HIDE DEF U
  <2>1. Len(b) \in S
    BY <1>t, <1>3
  <2>2. \A n \in S : n <= Len(b) => U(n) = p \o SubSeq(b, 1, n)
    BY Zenon DEF S
  <2>3. Len(b) <= Len(b)
    BY <1>t
  <2> QED
    BY <2>1, <2>2, <2>3, Zenon
<1>5. U(Len(b)) = p \o b
  <2> HIDE DEF U
  <2>1. SubSeq(b, 1, Len(b)) = b
    BY <1>t
  <2> QED
    BY <1>4, <2>1
<1> QED
  BY <1>5 DEF Unfolding!Run

(* A UID that is folded is put together again.                             *)
LEMMA UnfoldUid ==
  ASSUME NEW zones, NEW values, NEW p \in Seq(Lines(zones, values)), NEW uid \in Seq(STRING)
  PROVE  Unfolding!Run(p, <<Line("UID", << >>), Continuation(uid)>>) = p \o <<Line("UID", uid)>>
<1> DEFINE first == Line("UID", << >>)
           more == Continuation(uid)
           q == Append(p, first)
<1>1. Unfolding!Run(p, <<first, more>>) = join_line(join_line(p, first), more)
  BY Unfolding!RunFew
<1>2. first.name = "UID" /\ first.value = << >> /\ more.name = " " /\ more.value = uid
  BY DEF Line, Continuation
<1>3. [first EXCEPT !.value = @ \o uid] = Line("UID", uid)
  BY DEF Line
<1> HIDE DEF first, more
<1>4. join_line(p, first) = q
  BY <1>2 DEF join_line
<1>5. q # << >> /\ Last(q) = first /\ Front(q) = p
  BY DEF Last, Front
<1> HIDE DEF q
<1>6. join_line(q, more) = Append(p, Line("UID", uid))
  BY <1>2, <1>3, <1>5 DEF join_line
<1>7. Append(p, Line("UID", uid)) = p \o <<Line("UID", uid)>>
  OBVIOUS
<1> QED
  BY <1>1, <1>4, <1>6, <1>7 DEF first, more

\* The states of the pass over the lines, inside a component and outside.
Inside(fields) == [in_component |-> TRUE, fields |-> fields]

Outside(fields) == [in_component |-> FALSE, fields |-> fields]

(* What the lines of a body do to the state: the first and the last of a   *)
(* component.                                                              *)
LEMMA ReadComponent ==
  ASSUME NEW u, NEW s, NEW e, NEW t, NEW c, NEW v, NEW z
  PROVE  LET f  == Meaning(u, s, e, t, c)
             fv == Meaning(u, s, e, t, v)
         IN
         /\ v \in {"VEVENT", "VTODO"} =>
              /\ read_line(Outside(f), Zoned("BEGIN", z, v)) = Inside(fv)
              /\ read_line(Inside(f), Zoned("END", z, v)) = Outside(f)
         /\ v \notin {"VEVENT", "VTODO"} =>
              /\ read_line(Inside(f), Zoned("BEGIN", z, v)) = Inside(f)
              /\ read_line(Outside(f), Zoned("BEGIN", z, v)) = Outside(f)
              /\ read_line(Inside(f), Zoned("END", z, v)) = Inside(f)
              /\ read_line(Outside(f), Zoned("END", z, v)) = Outside(f)
<1> DEFINE f     == Meaning(u, s, e, t, c)
           fv    == Meaning(u, s, e, t, v)
           begin == Zoned("BEGIN", z, v)
           end   == Zoned("END", z, v)
<1>1. /\ begin.name = "BEGIN" /\ begin.value = v
      /\ end.name = "END" /\ end.value = v
  BY DEF Zoned
<1>2. ASSUME NEW g, NEW l, l.name \in {"BEGIN", "END"} PROVE read_property(g, l) = g
  BY <1>2 DEF read_property
<1>3. /\ [f EXCEPT !.component_type = v] = fv
      /\ Inside(f).fields = f /\ Outside(f).fields = f
  BY DEF Inside, Outside, Meaning
<1>4. \A at \in {Inside(f), Outside(f), Inside(fv)} : [at EXCEPT !.fields = at.fields] = at
  BY DEF Inside, Outside, Meaning
<1> HIDE DEF f, fv
<1>6. ASSUME v \in {"VEVENT", "VTODO"}
      PROVE  /\ enter_component(Outside(f), begin) = Inside(fv)
             /\ enter_component(Inside(f), end) = Outside(f)
  BY <1>1, <1>3, <1>6 DEF enter_component, Inside, Outside
<1>7. ASSUME v \notin {"VEVENT", "VTODO"}, NEW at
      PROVE  enter_component(at, begin) = at /\ enter_component(at, end) = at
  BY <1>1, <1>7 DEF enter_component
<1>8. ASSUME NEW at, NEW now, NEW l \in {begin, end}, enter_component(at, l) = now,
             [now EXCEPT !.fields = now.fields] = now
      PROVE  read_line(at, l) = now
  <2>1. l.name \in {"BEGIN", "END"} /\ read_property(now.fields, l) = now.fields
    BY <1>1, <1>2
  <2> QED
    BY <1>8, <2>1 DEF read_line
<1> HIDE DEF begin, end
<1>9. CASE v \in {"VEVENT", "VTODO"}
  BY <1>4, <1>6, <1>8, <1>9 DEF f, fv, begin, end
<1>10. CASE v \notin {"VEVENT", "VTODO"}
  <2>1. \A at \in {Inside(f), Outside(f)} : read_line(at, begin) = at /\ read_line(at, end) = at
    BY <1>4, <1>7, <1>8, <1>10
  <2> QED
    BY <1>10, <2>1 DEF f, fv, begin, end
<1> QED
  BY <1>9, <1>10

(* The state inside a component, and with other columns.                   *)
LEMMA InsideState ==
  ASSUME NEW f
  PROVE  /\ Inside(f).in_component /\ Inside(f).fields = f
         /\ \A g : [Inside(f) EXCEPT !.fields = g] = Inside(g)
<1>1. Inside(f).in_component
  BY Zenon DEF Inside
<1>2. Inside(f).fields = f
  BY Zenon DEF Inside
<1>3. ASSUME NEW g PROVE [Inside(f) EXCEPT !.fields = g] = Inside(g)
  <2> DEFINE State(b, h) == [in_component |-> b, fields |-> h]
  <2>1. ASSUME NEW b PROVE [State(b, f) EXCEPT !.fields = g] = State(b, g)
    BY SMT
  <2>2. State(TRUE, f) = Inside(f) /\ State(TRUE, g) = Inside(g)
    BY Zenon DEF Inside
  <2> HIDE DEF State
  <2> QED
    BY <2>1, <2>2, Zenon
<1> QED
  BY <1>1, <1>2, <1>3

(* What the lines of the columns do inside a component.                    *)
LEMMA ReadColumn ==
  ASSUME NEW u, NEW s, NEW e, NEW t, NEW c, NEW l
  PROVE  LET at == Inside(Meaning(u, s, e, t, c)) IN
         /\ l.name = "UID" => read_line(at, l) = Inside(Meaning(trim(l.value), s, e, t, c))
         /\ l.name = "DTSTART" => read_line(at, l) = Inside(Meaning(u, extract_property(l), e, t, c))
         /\ l.name = "DTEND" => read_line(at, l) = Inside(Meaning(u, s, extract_property(l), t, c))
         /\ l.name = "DUE" /\ e = None =>
              read_line(at, l) = Inside(Meaning(u, s, extract_property(l), t, c))
         /\ l.name = "SUMMARY" =>
              read_line(at, l) = Inside(Meaning(u, s, e, OneLine(trim(l.value)), c))
<1> DEFINE f == Meaning(u, s, e, t, c)
<1>1. /\ \A x : [f EXCEPT !.uid = x] = Meaning(x, s, e, t, c)
      /\ \A x : [f EXCEPT !.dtstart = x] = Meaning(u, x, e, t, c)
      /\ \A x : [f EXCEPT !.dtend = x] = Meaning(u, s, x, t, c)
      /\ \A x : [f EXCEPT !.summary = x] = Meaning(u, s, e, x, c)
      /\ f.dtend = e
  BY DEF Meaning
<1>2. ASSUME l.name \notin {"BEGIN", "END"} PROVE read_line(Inside(f), l) = Inside(read_property(f, l))
  <2> HIDE DEF f
  <2>1. /\ Inside(f).in_component /\ Inside(f).fields = f
        /\ \A g : [Inside(f) EXCEPT !.fields = g] = Inside(g)
    BY InsideState
  <2> DEFINE at == Inside(f)
  <2> DEFINE g == read_property(at.fields, l)
  <2>0. g = read_property(f, l)
    BY <2>1
  <2> HIDE DEF g
  <2>a. at.in_component /\ [at EXCEPT !.fields = g] = Inside(g)
    BY <2>1
  <2> HIDE DEF at
  <2>2. /\ at.in_component
        /\ [at EXCEPT !.fields = read_property(at.fields, l)] = Inside(read_property(f, l))
    BY <2>0, <2>a DEF g
  <2>3. read_line(at, l) = [at EXCEPT !.fields = read_property(at.fields, l)]
    BY <1>2, <2>2 DEF read_line
  <2> QED
    BY <2>2, <2>3 DEF at
<1> HIDE DEF f
<1>3. /\ l.name = "UID" => read_property(f, l) = [f EXCEPT !.uid = trim(l.value)]
      /\ l.name = "DTSTART" => read_property(f, l) = [f EXCEPT !.dtstart = extract_property(l)]
      /\ l.name = "DTEND" => read_property(f, l) = [f EXCEPT !.dtend = extract_property(l)]
      /\ l.name = "DUE" /\ f.dtend = None =>
           read_property(f, l) = [f EXCEPT !.dtend = extract_property(l)]
      /\ l.name = "SUMMARY" => read_property(f, l) = [f EXCEPT !.summary = OneLine(trim(l.value))]
  BY DEF read_property
<1> QED
  BY <1>1, <1>2, <1>3 DEF f

(* A line of a component, without a time zone.                             *)
LEMMA ReadOwn ==
  ASSUME NEW u, NEW s, NEW e, NEW t, NEW c, NEW v
  PROVE  LET at == Inside(Meaning(u, s, e, t, c)) IN
         /\ trim(v) = v => read_line(at, Line("UID", v)) = Inside(Meaning(v, s, e, t, c))
         /\ read_line(at, Line("UID", v)) = Inside(Meaning(trim(v), s, e, t, c))
         /\ read_line(at, Line("DTSTART", v)) = Inside(Meaning(u, v, e, t, c))
         /\ read_line(at, Line("DTEND", v)) = Inside(Meaning(u, s, v, t, c))
         /\ e = None => read_line(at, Line("DUE", v)) = Inside(Meaning(u, s, v, t, c))
         /\ read_line(at, Line("SUMMARY", v)) = Inside(Meaning(u, s, e, OneLine(trim(v)), c))
<1>1. \A n : Line(n, v).name = n /\ Line(n, v).value = v /\ extract_property(Line(n, v)) = v
  BY DEF Line, extract_property, HasColon
<1>2. trim(v) = v => read_line(Inside(Meaning(u, s, e, t, c)), Line("UID", v))
                       = Inside(Meaning(v, s, e, t, c))
  BY <1>1, ReadColumn
<1> QED
  BY <1>1, <1>2, ReadColumn

(* The lines of the times, whatever the time zone.                         *)
LEMMA ReadTime ==
  ASSUME NEW u, NEW s, NEW e, NEW t, NEW c, NEW v, NEW z
  PROVE  LET at == Inside(Meaning(u, s, e, t, c)) IN
         /\ read_line(at, Zoned("DTSTART", z, v))
              = Inside(Meaning(u, extract_property(Zoned("DTSTART", z, v)), e, t, c))
         /\ read_line(at, Zoned("DTEND", z, v))
              = Inside(Meaning(u, s, extract_property(Zoned("DTEND", z, v)), t, c))
<1>1. \A n : Zoned(n, z, v).name = n
  BY DEF Zoned
<1> QED
  BY <1>1, ReadColumn

(* The lines that no column is taken from, and those outside a component.  *)
LEMMA ReadOther ==
  ASSUME NEW f, NEW v, NEW z,
         NEW n \in Names \ {"BEGIN", "END", "UID", "DTSTART", "DTEND", "DUE", "SUMMARY"}
  PROVE  /\ read_line(Inside(f), Zoned(n, z, v)) = Inside(f)
         /\ read_line(Outside(f), Zoned(n, z, v)) = Outside(f)
         /\ read_line(Outside(f), Zoned("DTSTART", z, v)) = Outside(f)
  BY ZenonT(60) DEF read_line, read_property, Inside, Outside, Zoned, Names

(* A line without a time zone.                                             *)
LEMMA LineIsZoned == \A n, v : Line(n, v) = Zoned(n, None, v)
BY DEF Line, Zoned

\* The columns of an event whose alarm has the line.
WithAlarm(uid, start, end, title, line) ==
    Meaning(IF line.name = "UID" THEN trim(line.value) ELSE uid, start, end,
            OneLine(trim(IF line.name = "SUMMARY" THEN line.value ELSE title)), "VEVENT")

(* extract_fields of an event, its UID folded, whole or missing: the       *)
(* columns are the values of its own lines but for a line of the alarm     *)
(* that has the name of one.                                               *)
LEMMA ReadEvent ==
  ASSUME NEW uid \in Seq(STRING) \cup {None}, uid = None \/ trim(uid) = uid, NEW folded \in BOOLEAN,
         NEW start, NEW end, NEW title,
         NEW line, line.name \in {"DESCRIPTION", "SUMMARY", "UID"}, line = Line(line.name, line.value)
  PROVE  extract_fields(Event(uid, folded, start, end, title, line))
           = WithAlarm(uid, start, end, title, line)
<1> DEFINE V == {"VCALENDAR", "VEVENT", "VALARM", uid, start, end, title, line.value, Opaque}
           Z == {None}
           A == Lines(Z, V)
           More == A \cup {Line("UID", << >>), Continuation(uid)}
           a == <<Line("BEGIN", "VCALENDAR"), Line("BEGIN", "VEVENT")>>
           u == Uid(uid, FALSE)
           f == Uid(uid, folded)
           d == <<Line("DTSTART", start)>>
           e == IF end = None THEN << >> ELSE <<Line("DTEND", end)>>
           t == <<Line("SUMMARY", title)>>
           l == Alarm(line)
           z == <<Line("END", "VEVENT"), Line("END", "VCALENDAR")>>
<1>0. ASSUME NEW n \in Names, NEW v \in V PROVE Line(n, v) \in A
  BY DEF Line, Lines
<1>1. /\ a \in Seq(A) /\ u \in Seq(A) /\ d \in Seq(A) /\ e \in Seq(A) /\ t \in Seq(A)
      /\ l \in Seq(A) /\ z \in Seq(A)
  <2> DEFINE L(n, v) == Line(n, v)
  <2>1. /\ L("BEGIN", "VCALENDAR") \in A /\ L("BEGIN", "VEVENT") \in A /\ L("UID", uid) \in A
        /\ L("DTSTART", start) \in A /\ L("DTEND", end) \in A /\ L("SUMMARY", title) \in A
        /\ L("BEGIN", "VALARM") \in A /\ L("TRIGGER", Opaque) \in A
        /\ L(line.name, line.value) \in A /\ L("END", "VALARM") \in A
        /\ L("END", "VEVENT") \in A /\ L("END", "VCALENDAR") \in A
    BY <1>0 DEF Names
  <2> HIDE DEF A, L
  <2>2. /\ <<L("BEGIN", "VCALENDAR"), L("BEGIN", "VEVENT")>> \in Seq(A)
        /\ <<L("UID", uid)>> \in Seq(A) /\ << >> \in Seq(A)
        /\ <<L("DTSTART", start)>> \in Seq(A)
        /\ <<L("DTEND", end)>> \in Seq(A)
        /\ <<L("SUMMARY", title)>> \in Seq(A)
        /\ <<L("BEGIN", "VALARM"), L("TRIGGER", Opaque), L(line.name, line.value),
             L("END", "VALARM")>> \in Seq(A)
        /\ <<L("END", "VEVENT"), L("END", "VCALENDAR")>> \in Seq(A)
    BY <2>1, Few
  <2>3. l = <<L("BEGIN", "VALARM"), L("TRIGGER", Opaque), L(line.name, line.value), L("END", "VALARM")>>
    BY DEF Alarm, L
  <2> HIDE DEF l
  <2> QED
    BY <2>2, <2>3 DEF Uid, L
<1>2. f \in Seq(More) /\ A \subseteq More
  <2>1. Line("UID", << >>) \in More /\ Continuation(uid) \in More
    OBVIOUS
  <2>2. <<Line("UID", << >>), Continuation(uid)>> \in Seq(More)
    <3> HIDE DEF More
    <3> QED
      BY <2>1, Few
  <2>3. u \in Seq(More) /\ << >> \in Seq(More)
    <3> HIDE DEF A, u
    <3> QED
      BY <1>1
  <2> QED
    BY <2>2, <2>3 DEF Uid
<1>u. ASSUME NEW p \in Seq(A), NEW b \in Seq(A) PROVE Unfolding!Run(p, b) = p \o b
  <2> HIDE DEF V, Z
  <2> QED
    BY UnfoldPlain
<1>3. ASSUME NEW p \in Seq(A) PROVE Unfolding!Run(p, f) = p \o u
  <2>1. CASE folded /\ uid # None
    <3>1. Unfolding!Run(p, <<Line("UID", << >>), Continuation(uid)>>) = p \o <<Line("UID", uid)>>
      <4> HIDE DEF V, Z
      <4> QED
        BY <2>1, UnfoldUid
    <3> QED
      BY <2>1, <3>1 DEF Uid
  <2>2. CASE ~ (folded /\ uid # None)
    <3>1. f = u
      BY <2>2 DEF Uid
    <3>2. u \in Seq(A)
      BY <1>1
    <3> HIDE DEF u, f
    <3> QED
      BY <1>u, <3>1, <3>2
  <2> QED
    BY <2>1, <2>2
<1> HIDE DEF A, V, Z, More, a, u, f, d, e, t, l, z
<1>4. Event(uid, folded, start, end, title, line) = a \o f \o d \o e \o t \o l \o z
  BY DEF Event, a, f, d, e, t, l, z
<1>5. unfold_lines(a \o f \o d \o e \o t \o l \o z) = a \o u \o d \o e \o t \o l \o z
  <2> DEFINE n == << >>
             p == a \o f \o d \o e
             q == a \o u \o d \o e
  <2>1. /\ a \in Seq(More) /\ d \in Seq(More) /\ e \in Seq(More) /\ t \in Seq(More)
        /\ l \in Seq(More) /\ z \in Seq(More) /\ << >> \in Seq(More)
    BY <1>1, <1>2
  <2>2. p \in Seq(More)
    BY <1>2, <2>1
  <2>3. Unfolding!Run(n, a) = a
    <3>1. n \in Seq(A) /\ n \o a = a
      BY <1>1
    <3> HIDE DEF n
    <3> QED
      BY <1>1, <1>u, <3>1
  <2> HIDE DEF n
  <2>4. Unfolding!Run(a, f) = a \o u
    BY <1>1, <1>3
  <2> DEFINE q1 == a \o u
             q2 == q1 \o d
             q4 == q \o t
             q5 == q4 \o l
  <2>5. q1 \in Seq(A) /\ q2 \in Seq(A) /\ q \in Seq(A) /\ q4 \in Seq(A) /\ q5 \in Seq(A)
    BY <1>1
  <2>6. q = q2 \o e
    OBVIOUS
  <2> HIDE DEF q
  <2>7. Unfolding!Run(q, t) = q4
    BY <1>1, <1>u, <2>5
  <2> HIDE DEF q4
  <2>8. Unfolding!Run(q4, l) = q5
    BY <1>1, <1>u, <2>5
  <2> HIDE DEF q5
  <2>9. Unfolding!Run(q5, z) = q5 \o z
    BY <1>1, <1>u, <2>5
  <2>10. Unfolding!Run(q2, e) = q
    <3> HIDE DEF q2
    <3> QED
      BY <1>1, <1>u, <2>5, <2>6
  <2>11. Unfolding!Run(q1, d) = q2
    <3> HIDE DEF q1
    <3> QED
      BY <1>1, <1>u, <2>5
  <2>12. Unfolding!Run(n, p) = q
    <3>1. Unfolding!Run(n, p) = Unfolding!Run(Unfolding!Run(Unfolding!Run(Unfolding!Run(n, a), f), d), e)
      <4> HIDE DEF q1, q2
      <4> QED
        BY <1>2, <2>1, Unfolding!RunPieces
    <3> QED
      BY <2>3, <2>4, <2>10, <2>11, <3>1
  <2> HIDE DEF p
  <2>13. Unfolding!Run(n, p \o t \o l \o z) = q5 \o z
    <3>1. Unfolding!Run(n, p \o t \o l \o z)
            = Unfolding!Run(Unfolding!Run(Unfolding!Run(Unfolding!Run(n, p), t), l), z)
      BY <2>1, <2>2, Unfolding!RunPieces
    <3> QED
      BY <2>7, <2>8, <2>9, <2>12, <3>1
  <2> QED
    BY <2>13 DEF n, p, q, q4, q5, unfold_lines
<1> DEFINE s0 == Outside(Meaning(None, None, None, None, "VEVENT"))
           s1 == Inside(Meaning(None, None, None, None, "VEVENT"))
           s2 == Inside(Meaning(uid, None, None, None, "VEVENT"))
           s3 == Inside(Meaning(uid, start, None, None, "VEVENT"))
           s4 == Inside(Meaning(uid, start, end, None, "VEVENT"))
           s5 == Inside(Meaning(uid, start, end, OneLine(trim(title)), "VEVENT"))
           sa == Inside(WithAlarm(uid, start, end, title, line))
           s6 == Outside(WithAlarm(uid, start, end, title, line))
<1>6. Reading!Run(s0, a) = s1
  <2>1. Reading!Run(s0, a) = read_line(read_line(s0, Line("BEGIN", "VCALENDAR")), Line("BEGIN", "VEVENT"))
    BY Reading!RunFew DEF a
  <2> QED
    BY <2>1, LineIsZoned, ReadComponent
<1>7. Reading!Run(s1, u) = s2
  <2>1. CASE uid = None
    BY <2>1, Reading!RunNothing DEF u, Uid
  <2>2. CASE uid # None
    <3>1. Reading!Run(s1, u) = read_line(s1, Line("UID", uid))
      BY <2>2, Reading!RunFew DEF u, Uid
    <3>2. read_line(s1, Line("UID", uid)) = s2
      <4>1. trim(uid) = uid
        BY <2>2
      <4> QED
        BY <4>1, ReadOwn
    <3> QED
      BY <3>1, <3>2
  <2> QED
    BY <2>1, <2>2
<1>8. Reading!Run(s2, d) = s3
  <2>1. Reading!Run(s2, d) = read_line(s2, Line("DTSTART", start))
    BY Reading!RunFew DEF d
  <2> QED
    BY <2>1, ReadOwn
<1>9. Reading!Run(s3, e) = s4
  <2>1. CASE end = None
    BY <2>1, Reading!RunNothing DEF e
  <2>2. CASE end # None
    <3>1. Reading!Run(s3, e) = read_line(s3, Line("DTEND", end))
      BY <2>2, Reading!RunFew DEF e
    <3> QED
      BY <3>1, ReadOwn
  <2> QED
    BY <2>1, <2>2
<1>10. Reading!Run(s4, t) = s5
  <2>1. Reading!Run(s4, t) = read_line(s4, Line("SUMMARY", title))
    BY Reading!RunFew DEF t
  <2> QED
    BY <2>1, ReadOwn
<1>11. Reading!Run(s5, l) = sa
  <2>1. Reading!Run(s5, l)
          = read_line(read_line(read_line(read_line(s5, Line("BEGIN", "VALARM")),
              Line("TRIGGER", Opaque)), line), Line("END", "VALARM"))
    BY Reading!RunFew DEF l, Alarm
  <2>2. /\ read_line(s5, Line("BEGIN", "VALARM")) = s5
        /\ read_line(sa, Line("END", "VALARM")) = sa
    BY LineIsZoned, ReadComponent DEF WithAlarm
  <2>3. read_line(s5, Line("TRIGGER", Opaque)) = s5
    BY LineIsZoned, ReadOther DEF Names
  <2>4. read_line(s5, Line(line.name, line.value)) = sa
    <3>1. CASE line.name = "DESCRIPTION"
      <4>1. read_line(s5, Line("DESCRIPTION", line.value)) = s5
        BY LineIsZoned, ReadOther DEF Names
      <4>2. sa = s5
        BY <3>1 DEF WithAlarm
      <4> QED
        BY <3>1, <4>1, <4>2
    <3>2. CASE line.name = "SUMMARY"
      <4>1. read_line(s5, Line("SUMMARY", line.value))
              = Inside(Meaning(uid, start, end, OneLine(trim(line.value)), "VEVENT"))
        BY ReadOwn
      <4>2. sa = Inside(Meaning(uid, start, end, OneLine(trim(line.value)), "VEVENT"))
        BY <3>2 DEF WithAlarm
      <4> QED
        BY <3>2, <4>1, <4>2
    <3>3. CASE line.name = "UID"
      <4>1. read_line(s5, Line("UID", line.value))
              = Inside(Meaning(trim(line.value), start, end, OneLine(trim(title)), "VEVENT"))
        BY ReadOwn
      <4>2. sa = Inside(Meaning(trim(line.value), start, end, OneLine(trim(title)), "VEVENT"))
        BY <3>3 DEF WithAlarm
      <4> QED
        BY <3>3, <4>1, <4>2
    <3> QED
      BY <3>1, <3>2, <3>3
  <2> HIDE DEF s5, sa
  <2> QED
    BY <2>1, <2>2, <2>3, <2>4
<1>12. Reading!Run(sa, z) = s6
  <2>1. Reading!Run(sa, z) = read_line(read_line(sa, Line("END", "VEVENT")), Line("END", "VCALENDAR"))
    BY Reading!RunFew DEF z
  <2> QED
    BY <2>1, LineIsZoned, ReadComponent DEF WithAlarm
<1> HIDE DEF s0, s1, s2, s3, s4, s5, sa, s6
<1>13. Reading!Run(s0, a \o u \o d \o e \o t \o l \o z) = s6
  <2> DEFINE q == a \o u \o d \o e
  <2>1. q \in Seq(A)
    BY <1>1
  <2>2. Reading!Run(s0, q) = s4
    BY <1>1, <1>6, <1>7, <1>8, <1>9, Reading!RunPieces
  <2> HIDE DEF q
  <2>3. Reading!Run(s0, q \o t \o l \o z) = s6
    BY <1>1, <1>10, <1>11, <1>12, <2>1, <2>2, Reading!RunPieces
  <2> QED
    BY <2>3 DEF q
<1>14. s0 = [in_component |-> FALSE, fields |-> NoFields]
       /\ s6.fields = WithAlarm(uid, start, end, title, line)
  BY DEF s0, s6, Inside, Outside, Meaning, NoFields
<1> QED
  BY <1>4, <1>5, <1>13, <1>14 DEF extract_fields

(* Lines that start with a name need no unfolding.                         *)
LEMMA ReadFrom ==
  ASSUME NEW zones, NEW values, NEW b \in Seq(Lines(zones, values)), NEW f,
         \/ Reading!Run(Outside(Meaning(None, None, None, None, "VEVENT")), b) = Outside(f)
         \/ Reading!Run(Outside(Meaning(None, None, None, None, "VEVENT")), b) = Inside(f)
  PROVE  extract_fields(b) = f
<1> DEFINE n == << >>
<1>1. n \in Seq(Lines(zones, values)) /\ n \o b = b
  OBVIOUS
<1> HIDE DEF n
<1>2. Unfolding!Run(n, b) = b
  BY <1>1, UnfoldPlain
<1>3. unfold_lines(b) = b
  BY <1>2 DEF unfold_lines, n
<1>4. [in_component |-> FALSE, fields |-> NoFields] = Outside(Meaning(None, None, None, None, "VEVENT"))
  BY DEF Outside, Meaning, NoFields
<1>5. Outside(f).fields = f /\ Inside(f).fields = f
  BY DEF Outside, Inside
<1> QED
  BY <1>3, <1>4, <1>5 DEF extract_fields

(* extract_fields of a task: its due date is its end.                      *)
LEMMA ReadTodo ==
  ASSUME NEW uid, uid = None \/ trim(uid) = uid, NEW due
  PROVE  extract_fields(Todo(uid, due)) = Meaning(uid, None, due, None, "VTODO")
<1> DEFINE V == {"VCALENDAR", "VTODO", uid, due}
           Z == {None}
           A == Lines(Z, V)
           a == <<Line("BEGIN", "VCALENDAR"), Line("BEGIN", "VTODO")>>
           u == Uid(uid, FALSE)
           z == <<Line("DUE", due), Line("END", "VTODO"), Line("END", "VCALENDAR")>>
<1>1. a \in Seq(A) /\ u \in Seq(A) /\ z \in Seq(A)
  <2> DEFINE L(n, v) == Line(n, v)
  <2>1. /\ L("BEGIN", "VCALENDAR") \in A /\ L("BEGIN", "VTODO") \in A /\ L("UID", uid) \in A
        /\ L("DUE", due) \in A /\ L("END", "VTODO") \in A /\ L("END", "VCALENDAR") \in A
    BY DEF Line, Lines, Names
  <2> HIDE DEF A, L
  <2>2. /\ <<L("BEGIN", "VCALENDAR"), L("BEGIN", "VTODO")>> \in Seq(A)
        /\ <<L("UID", uid)>> \in Seq(A) /\ << >> \in Seq(A)
        /\ <<L("DUE", due), L("END", "VTODO"), L("END", "VCALENDAR")>> \in Seq(A)
    BY <2>1, Few
  <2> QED
    BY <2>2 DEF Uid, L
<1> DEFINE s0 == Outside(Meaning(None, None, None, None, "VEVENT"))
           s1 == Inside(Meaning(None, None, None, None, "VTODO"))
           s2 == Inside(Meaning(uid, None, None, None, "VTODO"))
           s3 == Outside(Meaning(uid, None, due, None, "VTODO"))
<1>2. Reading!Run(s0, a) = s1
  <2>1. Reading!Run(s0, a) = read_line(read_line(s0, Line("BEGIN", "VCALENDAR")), Line("BEGIN", "VTODO"))
    BY Reading!RunFew
  <2> QED
    BY <2>1, LineIsZoned, ReadComponent
<1>3. Reading!Run(s1, u) = s2
  <2>1. CASE uid = None
    BY <2>1, Reading!RunNothing DEF Uid
  <2>2. CASE uid # None
    <3>1. u = <<Line("UID", uid)>>
      BY <2>2 DEF Uid
    <3>2. Reading!Run(s1, <<Line("UID", uid)>>) = read_line(s1, Line("UID", uid))
      BY Reading!RunFew
    <3>3. read_line(s1, Line("UID", uid)) = s2
      <4>1. trim(uid) = uid
        BY <2>2
      <4> QED
        BY <4>1, ReadOwn
    <3> HIDE DEF u, s1, s2
    <3> QED
      BY <3>1, <3>2, <3>3
  <2> QED
    BY <2>1, <2>2
<1>4. Reading!Run(s2, z) = s3
  <2>1. Reading!Run(s2, z)
          = read_line(read_line(read_line(s2, Line("DUE", due)), Line("END", "VTODO")),
              Line("END", "VCALENDAR"))
    BY Reading!RunFew
  <2>2. read_line(s2, Line("DUE", due)) = Inside(Meaning(uid, None, due, None, "VTODO"))
    BY ReadOwn
  <2> QED
    BY <2>1, <2>2, LineIsZoned, ReadComponent
<1> HIDE DEF A, Z, V, a, u, z, s0, s1, s2, s3
<1>5. Reading!Run(s0, a \o u \o z) = s3
  BY <1>1, <1>2, <1>3, <1>4, Reading!RunPieces
<1>6. a \o u \o z \in Seq(A)
  BY <1>1
<1>7. extract_fields(a \o u \o z) = Meaning(uid, None, due, None, "VTODO")
  BY <1>5, <1>6, ReadFrom DEF A, s0, s3
<1> QED
  BY <1>7 DEF Todo, a, u, z

(* extract_fields of an event with a changed occurrence: the times are     *)
(* those of the last one.                                                  *)
LEMMA ReadRecurring ==
  ASSUME NEW uid, trim(uid) = uid, NEW start, NEW end, NEW moved
  PROVE  extract_fields(Recurring(uid, start, end, moved)) = Meaning(uid, moved, moved, None, "VEVENT")
<1> DEFINE V == {"VCALENDAR", "VEVENT", uid, start, end, moved, Opaque}
           Z == {None}
           A == Lines(Z, V)
           a == <<Line("BEGIN", "VCALENDAR")>>
           m == <<Line("BEGIN", "VEVENT"), Line("UID", uid), Line("DTSTART", start),
                  Line("DTEND", end), Line("RRULE", Opaque), Line("END", "VEVENT")>>
           o == <<Line("BEGIN", "VEVENT"), Line("UID", uid), Line("RECURRENCE-ID", start),
                  Line("DTSTART", moved), Line("DTEND", moved), Line("END", "VEVENT")>>
           z == <<Line("END", "VCALENDAR")>>
<1>1. a \in Seq(A) /\ m \in Seq(A) /\ o \in Seq(A) /\ z \in Seq(A)
  <2> DEFINE L(n, v) == Line(n, v)
  <2>1. /\ L("BEGIN", "VCALENDAR") \in A /\ L("BEGIN", "VEVENT") \in A /\ L("UID", uid) \in A
        /\ L("DTSTART", start) \in A /\ L("DTEND", end) \in A /\ L("RRULE", Opaque) \in A
        /\ L("RECURRENCE-ID", start) \in A /\ L("DTSTART", moved) \in A /\ L("DTEND", moved) \in A
        /\ L("END", "VEVENT") \in A /\ L("END", "VCALENDAR") \in A
    BY DEF Line, Lines, Names
  <2> HIDE DEF A, L
  <2>2. /\ <<L("BEGIN", "VCALENDAR")>> \in Seq(A) /\ <<L("END", "VCALENDAR")>> \in Seq(A)
    BY <2>1, Few
  <2>3. /\ <<L("BEGIN", "VEVENT"), L("UID", uid), L("DTSTART", start),
             L("DTEND", end), L("RRULE", Opaque), L("END", "VEVENT")>> \in Seq(A)
        /\ <<L("BEGIN", "VEVENT"), L("UID", uid), L("RECURRENCE-ID", start),
             L("DTSTART", moved), L("DTEND", moved), L("END", "VEVENT")>> \in Seq(A)
    BY <2>1, Six
  <2> QED
    BY <2>2, <2>3 DEF L
<1> DEFINE s0 == Outside(Meaning(None, None, None, None, "VEVENT"))
           s1 == Outside(Meaning(uid, start, end, None, "VEVENT"))
           s2 == Outside(Meaning(uid, moved, moved, None, "VEVENT"))
<1>2. Reading!Run(s0, a) = s0
  <2>1. Reading!Run(s0, a) = read_line(s0, Line("BEGIN", "VCALENDAR"))
    BY Reading!RunFew
  <2> QED
    BY <2>1, LineIsZoned, ReadComponent
<1>3. Reading!Run(s0, m) = s1
  <2>2. read_line(s0, Line("BEGIN", "VEVENT")) = Inside(Meaning(None, None, None, None, "VEVENT"))
    BY LineIsZoned, ReadComponent
  <2>3. read_line(Inside(Meaning(None, None, None, None, "VEVENT")), Line("UID", uid))
          = Inside(Meaning(uid, None, None, None, "VEVENT"))
    BY ReadOwn
  <2>4. read_line(Inside(Meaning(uid, None, None, None, "VEVENT")), Line("DTSTART", start))
          = Inside(Meaning(uid, start, None, None, "VEVENT"))
    BY ReadOwn
  <2>5. read_line(Inside(Meaning(uid, start, None, None, "VEVENT")), Line("DTEND", end))
          = Inside(Meaning(uid, start, end, None, "VEVENT"))
    BY ReadOwn
  <2>6. read_line(Inside(Meaning(uid, start, end, None, "VEVENT")), Line("RRULE", Opaque))
          = Inside(Meaning(uid, start, end, None, "VEVENT"))
    BY LineIsZoned, ReadOther DEF Names
  <2>7. read_line(Inside(Meaning(uid, start, end, None, "VEVENT")), Line("END", "VEVENT")) = s1
    BY LineIsZoned, ReadComponent
  <2> QED
    BY <2>2, <2>3, <2>4, <2>5, <2>6, <2>7, Reading!RunSix
<1>4. Reading!Run(s1, o) = s2
  <2>2. read_line(s1, Line("BEGIN", "VEVENT")) = Inside(Meaning(uid, start, end, None, "VEVENT"))
    BY LineIsZoned, ReadComponent
  <2>3. read_line(Inside(Meaning(uid, start, end, None, "VEVENT")), Line("UID", uid))
          = Inside(Meaning(uid, start, end, None, "VEVENT"))
    BY ReadOwn
  <2>4. read_line(Inside(Meaning(uid, start, end, None, "VEVENT")), Line("RECURRENCE-ID", start))
          = Inside(Meaning(uid, start, end, None, "VEVENT"))
    BY LineIsZoned, ReadOther DEF Names
  <2>5. read_line(Inside(Meaning(uid, start, end, None, "VEVENT")), Line("DTSTART", moved))
          = Inside(Meaning(uid, moved, end, None, "VEVENT"))
    BY ReadOwn
  <2>6. read_line(Inside(Meaning(uid, moved, end, None, "VEVENT")), Line("DTEND", moved))
          = Inside(Meaning(uid, moved, moved, None, "VEVENT"))
    BY ReadOwn
  <2>7. read_line(Inside(Meaning(uid, moved, moved, None, "VEVENT")), Line("END", "VEVENT")) = s2
    BY LineIsZoned, ReadComponent
  <2> QED
    BY <2>2, <2>3, <2>4, <2>5, <2>6, <2>7, Reading!RunSix
<1>5. Reading!Run(s2, z) = s2
  <2>1. Reading!Run(s2, z) = read_line(s2, Line("END", "VCALENDAR"))
    BY Reading!RunFew
  <2> QED
    BY <2>1, LineIsZoned, ReadComponent
<1> HIDE DEF A, Z, V, a, m, o, z, s0, s1, s2
<1>6. Reading!Run(s0, a \o m \o o \o z) = s2
  BY <1>1, <1>2, <1>3, <1>4, <1>5, Reading!RunPieces
<1>7. a \o m \o o \o z \in Seq(A)
  BY <1>1
<1>8. extract_fields(a \o m \o o \o z) = Meaning(uid, moved, moved, None, "VEVENT")
  BY <1>6, <1>7, ReadFrom DEF A, s0, s2
<1> QED
  BY <1>8 DEF Recurring, a, m, o, z

\* Lines of a time zone, all outside of the event.
ZoneLines(zone) ==
    {Line("BEGIN", "VTIMEZONE"), Line("TZID", zone), Line("BEGIN", "STANDARD"),
     Line("BEGIN", "DAYLIGHT"), Line("DTSTART", Opaque), Line("RRULE", Opaque),
     Line("TZOFFSETFROM", Opaque), Line("TZOFFSETTO", Opaque), Line("END", "STANDARD"),
     Line("END", "DAYLIGHT"), Line("END", "VTIMEZONE")}

(* A VTIMEZONE has nothing for the columns.                                *)
LEMMA ReadZone ==
  ASSUME NEW zone
  PROVE  LET s == Outside(Meaning(None, None, None, None, "VEVENT")) IN
         /\ vtimezone(zone) \in Seq(ZoneLines(zone))
         /\ Reading!Run(s, vtimezone(zone)) = s
<1> DEFINE A == ZoneLines(zone)
           c(k) == <<Line("BEGIN", k), Line("DTSTART", Opaque), Line("RRULE", Opaque),
                     Line("TZOFFSETFROM", Opaque), Line("TZOFFSETTO", Opaque), Line("END", k)>>
           a == <<Line("BEGIN", "VTIMEZONE"), Line("TZID", zone)>>
           z == <<Line("END", "VTIMEZONE")>>
           g == Meaning(None, None, None, None, "VEVENT")
<1>1. /\ Line("BEGIN", "VTIMEZONE") \in A /\ Line("TZID", zone) \in A
      /\ Line("END", "VTIMEZONE") \in A /\ Line("DTSTART", Opaque) \in A /\ Line("RRULE", Opaque) \in A
      /\ Line("TZOFFSETFROM", Opaque) \in A /\ Line("TZOFFSETTO", Opaque) \in A
      /\ Line("BEGIN", "STANDARD") \in A /\ Line("END", "STANDARD") \in A
      /\ Line("BEGIN", "DAYLIGHT") \in A /\ Line("END", "DAYLIGHT") \in A
  BY DEF ZoneLines
<1>2. \A l \in A : read_line(Outside(g), l) = Outside(g)
  <2>1. \A k \in {"VTIMEZONE", "STANDARD", "DAYLIGHT"} :
           /\ read_line(Outside(g), Line("BEGIN", k)) = Outside(g)
           /\ read_line(Outside(g), Line("END", k)) = Outside(g)
    BY LineIsZoned, ReadComponent
  <2>2. \A n \in {"TZID", "RRULE", "TZOFFSETFROM", "TZOFFSETTO"} : \A v :
           read_line(Outside(g), Line(n, v)) = Outside(g)
    BY LineIsZoned, ReadOther DEF Names
  <2>3. \A v : read_line(Outside(g), Line("DTSTART", v)) = Outside(g)
    <3>1. "RRULE" \in Names \ {"BEGIN", "END", "UID", "DTSTART", "DTEND", "DUE", "SUMMARY"}
      BY DEF Names
    <3> QED
      BY <3>1, LineIsZoned, ReadOther
  <2> HIDE DEF g
  <2> QED
    BY <2>1, <2>2, <2>3 DEF ZoneLines
<1> HIDE DEF A
<1>3. a \in Seq(A) /\ z \in Seq(A)
  BY <1>1, Few
<1>4. c("STANDARD") \in Seq(A) /\ c("DAYLIGHT") \in Seq(A)
  BY <1>1, Six
<1>5. vtimezone(zone) = a \o c("STANDARD") \o c("DAYLIGHT") \o z
  BY DEF vtimezone
<1> HIDE DEF a, z, c
<1>6. vtimezone(zone) \in Seq(A)
  BY <1>3, <1>4, <1>5
<1>7. Reading!Run(Outside(g), vtimezone(zone)) = Outside(g)
  <2> DEFINE q == vtimezone(zone)
             s == Outside(g)
  <2>1. q \in Seq(A) /\ \A n \in 1 .. Len(q) : read_line(s, q[n]) = s
    BY <1>2, <1>6
  <2> HIDE DEF q, s
  <2>2. Reading!Run(s, q) = s
    BY <2>1, Reading!RunIdle
  <2> QED
    BY <2>2 DEF q, s
<1> QED
  BY <1>6, <1>7 DEF A

\* A text of one line, or none.
Single(text) == text = None \/ text.more = << >>

(* The lines of a text that no column is taken from.                       *)
LEMMA ReadText ==
  ASSUME NEW f, NEW text, Single(text), NEW n \in {"DESCRIPTION", "LOCATION"},
         NEW zones, None \in zones, NEW values, text.first \in values
  PROVE  /\ text_lines(n, text) \in Seq(Lines(zones, values))
         /\ Reading!Run(Inside(f), text_lines(n, text)) = Inside(f)
<1>1. CASE text = None
  <2>1. text_lines(n, text) = << >>
    BY <1>1 DEF text_lines
  <2> QED
    BY <2>1, Reading!RunNothing
<1>2. CASE text # None
  <2> DEFINE line == Line(n, text.first)
  <2>1. <<line>> \o << >> = <<line>>
    OBVIOUS
  <2>2. text_lines(n, text) = <<line>>
    <3> HIDE DEF line
    <3> QED
      BY <1>2, <2>1 DEF text_lines, Single, line
  <2>3. line \in Lines(zones, values)
    BY DEF Line, Lines, Names
  <2>4. read_line(Inside(f), line) = Inside(f)
    BY LineIsZoned, ReadOther DEF Names
  <2>5. Reading!Run(Inside(f), <<line>>) = read_line(Inside(f), line)
    BY Reading!RunFew
  <2> HIDE DEF line
  <2> QED
    BY <2>2, <2>3, <2>4, <2>5
<1> QED
  BY <1>1, <1>2

(* extract_fields of a body that build_vevent made of texts of one line    *)
(* and a time zone without a colon gives its arguments back, the title     *)
(* without the blanks at its end: neither the VTIMEZONE nor the            *)
(* description gets into the columns.                                      *)
LEMMA ReadBuilt ==
  ASSUME NEW uid, trim(uid) = uid, NEW args, args.title # None,
         Single(args.title), Single(args.description), Single(args.location)
  PROVE  LET zone == args.timezone IN
         \E start, end :
            /\ extract_fields(build_vevent(uid, args))
                 = Meaning(uid, start, end, OneLine(trim(args.title.first)), "VEVENT")
            /\ ~ HasColon(zone) => start = args.start /\ end = args.end
<1> DEFINE start == extract_property(Zoned("DTSTART", args.timezone, args.start))
           end == extract_property(Zoned("DTEND", args.timezone, args.end))
           title == OneLine(trim(args.title.first))
           V == {"VCALENDAR", "VEVENT", "VTIMEZONE", "STANDARD", "DAYLIGHT", uid, args.start,
                 args.end, args.title.first, args.description.first, args.location.first,
                 args.timezone, Opaque}
           Z == {None, args.timezone}
           A == Lines(Z, V)
           a == <<Line("BEGIN", "VCALENDAR"), Line("VERSION", Opaque), Line("PRODID", Opaque)>>
           t == IF args.timezone # None THEN vtimezone(args.timezone) ELSE << >>
           m == <<Line("BEGIN", "VEVENT"), Line("UID", uid), Line("DTSTAMP", Opaque)>>
           e == <<Zoned("DTSTART", args.timezone, args.start), Zoned("DTEND", args.timezone, args.end)>>
           s == text_lines("SUMMARY", args.title)
           d == text_lines("DESCRIPTION", args.description)
           l == text_lines("LOCATION", args.location)
           z == <<Line("END", "VEVENT"), Line("END", "VCALENDAR")>>
<1>s. s = <<Line("SUMMARY", args.title.first)>>
  <2> DEFINE line == Line("SUMMARY", args.title.first)
  <2>1. <<line>> \o << >> = <<line>>
    OBVIOUS
  <2> HIDE DEF line
  <2> QED
    BY <2>1 DEF text_lines, Single, line
<1> HIDE DEF s
<1>0. \A n \in Names, v \in V : Line(n, v) \in A /\ Zoned(n, args.timezone, v) \in A
  BY DEF Line, Zoned, Lines
<1>1. a \in Seq(A) /\ t \in Seq(A) /\ m \in Seq(A) /\ e \in Seq(A) /\ s \in Seq(A)
      /\ z \in Seq(A)
  <2> DEFINE L(n, v) == Line(n, v)
             M(n, v) == Zoned(n, args.timezone, v)
  <2>2. /\ L("BEGIN", "VCALENDAR") \in A /\ L("VERSION", Opaque) \in A /\ L("PRODID", Opaque) \in A
        /\ L("BEGIN", "VEVENT") \in A /\ L("UID", uid) \in A /\ L("DTSTAMP", Opaque) \in A
        /\ M("DTSTART", args.start) \in A /\ M("DTEND", args.end) \in A
        /\ L("SUMMARY", args.title.first) \in A
        /\ L("END", "VEVENT") \in A /\ L("END", "VCALENDAR") \in A
    <3> HIDE DEF A
    <3> QED
      BY <1>0 DEF Names
  <2>3. ZoneLines(args.timezone) \subseteq A
    <3> HIDE DEF A
    <3> QED
      BY <1>0 DEF ZoneLines, Names
  <2> HIDE DEF A, L, M
  <2>4. /\ <<L("BEGIN", "VCALENDAR"), L("VERSION", Opaque), L("PRODID", Opaque)>> \in Seq(A)
        /\ <<L("SUMMARY", args.title.first)>> \in Seq(A)
        /\ <<L("END", "VEVENT"), L("END", "VCALENDAR")>> \in Seq(A)
        /\ << >> \in Seq(A)
    BY <2>2, Few
  <2>5. /\ <<L("BEGIN", "VEVENT"), L("UID", uid), L("DTSTAMP", Opaque)>> \in Seq(A)
        /\ <<M("DTSTART", args.start), M("DTEND", args.end)>> \in Seq(A)
    BY <2>2, Few
  <2>6. vtimezone(args.timezone) \in Seq(A)
    BY <2>3, ReadZone
  <2> QED
    BY <1>s, <2>4, <2>5, <2>6 DEF L, M
<1> DEFINE f2 == Meaning(uid, start, end, title, "VEVENT")
           s0 == Outside(Meaning(None, None, None, None, "VEVENT"))
           s1 == Inside(Meaning(uid, start, end, None, "VEVENT"))
           s2 == Inside(f2)
           s3 == Outside(f2)
<1>d. /\ d \in Seq(A) /\ Reading!Run(s2, d) = s2
      /\ l \in Seq(A) /\ Reading!Run(s2, l) = s2
  <2>1. None \in Z /\ args.description.first \in V /\ args.location.first \in V
    OBVIOUS
  <2> HIDE DEF Z, V, f2
  <2> QED
    BY <2>1, ReadText
<1>2. Reading!Run(s0, a) = s0
  <2>1. Reading!Run(s0, a)
          = read_line(read_line(read_line(s0, Line("BEGIN", "VCALENDAR")), Line("VERSION", Opaque)),
              Line("PRODID", Opaque))
    BY Reading!RunFew
  <2>2. read_line(s0, Line("BEGIN", "VCALENDAR")) = s0
    BY LineIsZoned, ReadComponent
  <2>3. read_line(s0, Line("VERSION", Opaque)) = s0 /\ read_line(s0, Line("PRODID", Opaque)) = s0
    BY LineIsZoned, ReadOther DEF Names
  <2> QED
    BY <2>1, <2>2, <2>3
<1>3. Reading!Run(s0, t) = s0
  BY ReadZone, Reading!RunNothing
<1> DEFINE sm == Inside(Meaning(uid, None, None, None, "VEVENT"))
<1>4. Reading!Run(s0, m) = sm
  <2>1. read_line(s0, Line("BEGIN", "VEVENT")) = Inside(Meaning(None, None, None, None, "VEVENT"))
    BY LineIsZoned, ReadComponent
  <2>2. read_line(Inside(Meaning(None, None, None, None, "VEVENT")), Line("UID", uid)) = sm
    BY ReadOwn
  <2>3. read_line(sm, Line("DTSTAMP", Opaque)) = sm
    BY LineIsZoned, ReadOther DEF Names
  <2> HIDE DEF sm, s0
  <2> QED
    BY <2>1, <2>2, <2>3, Reading!RunFew
<1>t. Reading!Run(sm, e) = s1
  <2>4. read_line(sm, Zoned("DTSTART", args.timezone, args.start))
          = Inside(Meaning(uid, start, None, None, "VEVENT"))
    BY ReadTime
  <2>5. read_line(Inside(Meaning(uid, start, None, None, "VEVENT")),
                  Zoned("DTEND", args.timezone, args.end)) = s1
    BY ReadTime
  <2> HIDE DEF sm, s1, start, end
  <2> QED
    BY <2>4, <2>5, Reading!RunFew
<1>5. Reading!Run(s1, s) = s2
  <2>1. Reading!Run(s1, <<Line("SUMMARY", args.title.first)>>)
          = read_line(s1, Line("SUMMARY", args.title.first))
    BY Reading!RunFew
  <2> HIDE DEF start, end
  <2>2. read_line(s1, Line("SUMMARY", args.title.first)) = s2
    BY ReadOwn
  <2> QED
    BY <1>s, <2>1, <2>2
<1>6. Reading!Run(s2, z) = s3
  <2>1. Reading!Run(s2, z) = read_line(read_line(s2, Line("END", "VEVENT")), Line("END", "VCALENDAR"))
    BY Reading!RunFew
  <2> HIDE DEF start, end, title
  <2> QED
    BY <2>1, LineIsZoned, ReadComponent
<1>e. ~ HasColon(args.timezone) => start = args.start /\ end = args.end
  BY DEF extract_property, Zoned
<1> HIDE DEF A, Z, V, a, t, m, e, d, l, z, s0, sm, s1, s2, s3, f2, start, end, title
<1> DEFINE p == a \o t \o m \o e
           q == p \o s \o d \o l
<1>7. p \in Seq(A) /\ q \in Seq(A) /\ q \o z \in Seq(A)
  BY <1>1, <1>d
<1>8. Reading!Run(s0, p) = s1
  BY <1>1, <1>2, <1>3, <1>4, <1>t, Reading!RunPieces
<1> HIDE DEF p
<1>9. Reading!Run(s0, q) = s2
  BY <1>1, <1>d, <1>5, <1>7, <1>8, Reading!RunPieces
<1> HIDE DEF q
<1>z. Reading!Run(s0, q \o z) = s3
  BY <1>1, <1>6, <1>7, <1>9, Reading!RunConcat
<1>10. extract_fields(q \o z) = f2
  BY <1>7, <1>z, ReadFrom DEF A, s0, s3
<1>11. build_vevent(uid, args) = q \o z
  BY DEF build_vevent, p, q, a, t, m, e, s, d, l, z
<1> QED
  BY <1>e, <1>10, <1>11 DEF f2, title

----------------------------------------------------------------------------
(* The rows *)

\* The columns that are not spoiled are read from the body as they are meant.
ReadsAsMeant(object) ==
    LET read == extract_fields(object.body) IN
    /\ \A c \in DOMAIN NoFields \ object.spoiled : read[c] = object.meant[c]
    /\ object.spoiled = DOMAIN NoFields \/ DOMAIN read = DOMAIN NoFields

(* The names of the columns.                                               *)
LEMMA ColumnNames ==
  /\ DOMAIN NoFields = {"uid", "dtstart", "dtend", "summary", "component_type"}
  /\ \A u, s, e, t, c : LET m == Meaning(u, s, e, t, c) IN
        /\ m["uid"] = u /\ m["dtstart"] = s /\ m["dtend"] = e
        /\ m["summary"] = t /\ m["component_type"] = c
        /\ \A v : [m EXCEPT !.uid = v] = Meaning(v, s, e, t, c)
BY DEF NoFields, Meaning

(* An object that its body does not show as it is meant in some columns.   *)
LEMMA Reads ==
  ASSUME NEW body, NEW spoiled, NEW u, NEW s, NEW e, NEW t, NEW c, NEW v, NEW w, NEW x, NEW y,
         extract_fields(body) = Meaning(u, s, e, t, c),
         "uid" \in spoiled \/ u = v, "dtstart" \in spoiled \/ s = w, "dtend" \in spoiled \/ e = x,
         "summary" \in spoiled \/ t = y
  PROVE  ReadsAsMeant(Object(body, Meaning(v, w, x, y, c), spoiled))
<1> DEFINE object == Object(body, Meaning(v, w, x, y, c), spoiled)
           read == Meaning(u, s, e, t, c)
           meant == Meaning(v, w, x, y, c)
<1>1. object.body = body /\ object.meant = meant /\ object.spoiled = spoiled
  BY DEF Object
<1>2. \A k \in DOMAIN NoFields : k \in spoiled \/ read[k] = meant[k]
  <2>1. /\ read["uid"] = u /\ read["dtstart"] = s /\ read["dtend"] = e
        /\ read["summary"] = t /\ read["component_type"] = c
        /\ meant["uid"] = v /\ meant["dtstart"] = w /\ meant["dtend"] = x
        /\ meant["summary"] = y /\ meant["component_type"] = c
    BY ColumnNames
  <2> HIDE DEF read, meant
  <2> QED
    BY <2>1, ColumnNames
<1> HIDE DEF object, meant, read
<1>d. DOMAIN read = DOMAIN NoFields
  BY DEF read, Meaning, NoFields
<1>3. extract_fields(object.body) = read
  BY <1>1 DEF read
<1> QED
  BY <1>1, <1>2, <1>3, <1>d DEF ReadsAsMeant, object, meant

(* The objects of clients.                                                 *)
LEMMA ObjectsRead ==
  ASSUME NEW uid \in Uids \cup {None}, NEW object \in Objects[uid]
  PROVE  ReadsAsMeant(object)
<1>1. /\ uid \in Seq(STRING) \cup {None} /\ object \in ObjectsWith(uid)
      /\ uid = None \/ trim(uid) = uid
  BY ContentsAssumptions, UidAssumption DEF Objects
<1>2. ASSUME NEW folded \in BOOLEAN, NEW start, NEW end, NEW title, NEW line,
             line.name \in {"DESCRIPTION", "SUMMARY", "UID"}, line = Line(line.name, line.value)
      PROVE  ReadsAsMeant(EventObject(uid, folded, start, end, title, line))
  <2> DEFINE spoiled == {c \in {"summary"} : trim(title) # title}
                        \cup (CASE line.name = "SUMMARY" -> {"summary"}
                                [] line.name = "UID"     -> {"uid"}
                                [] OTHER                 -> {})
             u == IF line.name = "UID" THEN trim(line.value) ELSE uid
             t == OneLine(trim(IF line.name = "SUMMARY" THEN line.value ELSE title))
             body == Event(uid, folded, start, end, title, line)
  <2>1. extract_fields(body) = Meaning(u, start, end, t, "VEVENT")
    BY <1>1, <1>2, ReadEvent DEF WithAlarm
  <2>2. "uid" \in spoiled \/ u = uid
    BY <1>2
  <2>3. "summary" \in spoiled \/ t = OneLine(title)
    BY <1>2
  <2>4. EventObject(uid, folded, start, end, title, line)
          = Object(body, Meaning(uid, start, end, OneLine(title), "VEVENT"), spoiled)
    BY DEF EventObject
  <2> HIDE DEF spoiled, u, t, body
  <2> QED
    BY <2>1, <2>2, <2>3, <2>4, Reads
<1>3. ASSUME NEW due PROVE ReadsAsMeant(TodoObject(uid, due))
  <2>1. extract_fields(Todo(uid, due)) = Meaning(uid, None, due, None, "VTODO")
    BY <1>1, ReadTodo
  <2> QED
    BY <2>1, Reads DEF TodoObject
<1>4. ASSUME uid # None, NEW start, NEW end, NEW moved
      PROVE  ReadsAsMeant(RecurringObject(uid, start, end, moved))
  <2>1. extract_fields(Recurring(uid, start, end, moved)) = Meaning(uid, moved, moved, None, "VEVENT")
    BY <1>1, <1>4, ReadRecurring
  <2> QED
    BY <2>1, Reads DEF RecurringObject
<1>5. /\ \A line \in Alarms :
            line.name \in {"DESCRIPTION", "SUMMARY", "UID"} /\ line = Line(line.name, line.value)
      /\ Line("DESCRIPTION", Opaque).name = "DESCRIPTION"
      /\ Line("DESCRIPTION", Opaque).value = Opaque
  BY TextAssumption DEF Line
<1> DEFINE title0 == CHOOSE t \in Titles : trim(t) = t
<1> HIDE DEF title0
<1>6. \/ \E span \in Spans, line \in Alarms :
            object = EventObject(uid, FALSE, span[1], span[2], title0, line)
      \/ \E t \in Times, title \in Titles :
            object = EventObject(uid, TRUE, t, None, title, Line("DESCRIPTION", Opaque))
      \/ \E t \in Times : object = TodoObject(uid, t)
      \/ uid # None /\ \E span \in Spans : object = RecurringObject(uid, span[1], span[2], span[2])
  <2> DEFINE T == {s \in Times : s.hour = -1}
             W == {s \in Times : s.z = 1}
             S == {s \in Spans : s[1].z = 1}
             E(span, line) == EventObject(uid, FALSE, span[1], span[2], title0, line)
             D(t, title) == EventObject(uid, TRUE, t, None, title, Line("DESCRIPTION", Opaque))
             O(t) == TodoObject(uid, t)
             R(span) == RecurringObject(uid, span[1], span[2], span[2])
  <2>1. ObjectsWith(uid) = {E(span, line) : span \in Spans, line \in Alarms}
                           \cup {D(t, title) : t \in T, title \in Titles}
                           \cup {O(t) : t \in W}
                           \cup IF uid = None THEN {} ELSE {R(span) : span \in S}
    BY DEF ObjectsWith, title0
  <2>2. T \subseteq Times /\ W \subseteq Times /\ S \subseteq Spans
    OBVIOUS
  <2> HIDE DEF T, W, S, E, D, O, R
  <2>3. \/ \E span \in Spans, line \in Alarms : object = E(span, line)
        \/ \E t \in Times, title \in Titles : object = D(t, title)
        \/ \E t \in Times : object = O(t)
        \/ uid # None /\ \E span \in Spans : object = R(span)
    BY <1>1, <2>1, <2>2
  <2> QED
    BY <2>3 DEF E, D, O, R
<1>7. CASE \E span \in Spans, line \in Alarms :
             object = EventObject(uid, FALSE, span[1], span[2], title0, line)
  <2> DEFINE folded == FALSE
  <2>1. PICK span \in Spans, line \in Alarms :
          object = EventObject(uid, folded, span[1], span[2], title0, line)
    BY <1>7
  <2> DEFINE start == span[1]
             end == span[2]
  <2>2. folded \in BOOLEAN /\ object = EventObject(uid, folded, start, end, title0, line)
    BY <2>1
  <2> HIDE DEF folded, start, end
  <2> QED
    BY <1>2, <1>5, <2>2
<1>8. CASE \E t \in Times, title \in Titles :
             object = EventObject(uid, TRUE, t, None, title, Line("DESCRIPTION", Opaque))
  <2> DEFINE line == Line("DESCRIPTION", Opaque)
             folded == TRUE
  <2>1. PICK t \in Times, title \in Titles : object = EventObject(uid, folded, t, None, title, line)
    BY <1>8
  <2>2. /\ line.name \in {"DESCRIPTION", "SUMMARY", "UID"} /\ line = Line(line.name, line.value)
        /\ folded \in BOOLEAN
    BY <1>5
  <2> HIDE DEF line, folded
  <2> QED
    BY <1>2, <2>1, <2>2
<1> QED
  BY <1>3, <1>4, <1>6, <1>7, <1>8

(* The objects that the tools build.                                       *)
LEMMA BuiltReads ==
  ASSUME NEW uid \in AllUids, NEW args \in Arguments
  PROVE  ReadsAsMeant(BuiltObject(uid, args))
<1> DEFINE texts == {args.title, args.description, args.location} \ {None}
           broken == \E text \in texts : text.more # << >>
           spoiled == IF broken THEN DOMAIN NoFields
                      ELSE {c \in {"dtstart", "dtend"} : HasColon(args.timezone)}
                           \cup {c \in {"summary"} : trim(args.title.first) # args.title.first}
           body == build_vevent(uid, args)
           meant == Meaning(uid, args.start, args.end, args.title, "VEVENT")
<1>1. BuiltObject(uid, args) = Object(body, meant, spoiled)
  BY ColumnNames DEF BuiltObject, Columns
<1>2. args.title # None
  BY TextAssumption DEF Arguments
<1>3. CASE broken
  <2>1. Object(body, meant, spoiled).spoiled = DOMAIN NoFields
    BY <1>3 DEF Object
  <2> HIDE DEF body, meant, spoiled
  <2> QED
    BY <1>1, <2>1 DEF ReadsAsMeant
<1>4. CASE ~ broken
  <2>1. Single(args.title) /\ Single(args.description) /\ Single(args.location)
    BY <1>4 DEF Single
  <2>2. trim(uid) = uid
    BY UidAssumption DEF AllUids
  <2>3. PICK start, end :
          /\ extract_fields(body) = Meaning(uid, start, end, OneLine(trim(args.title.first)), "VEVENT")
          /\ ~ HasColon(args.timezone) => start = args.start /\ end = args.end
    BY <1>2, <2>1, <2>2, ReadBuilt
  <2>4. args.title = OneLine(args.title.first)
    BY <1>2, <2>1, TextAssumption DEF Single, Arguments, OneLine, Argument
  <2>5. /\ "dtstart" \in spoiled \/ start = args.start
        /\ "dtend" \in spoiled \/ end = args.end
        /\ "summary" \in spoiled \/ trim(args.title.first) = args.title.first
    BY <1>4, <2>3
  <2> HIDE DEF spoiled, body
  <2> QED
    BY <1>1, <2>3, <2>4, <2>5, Reads
<1> QED
  BY <1>3, <1>4

\* What a row keeps.
RowAsMeant(u, row) ==
    /\ ReadsAsMeant(row.object)
    /\ \A c \in DOMAIN NoFields \ row.object.spoiled :
           \/ row.fields[c] = row.object.meant[c]
           \/ c = "uid" /\ row.object.meant.uid = None

RowsInv ==
    /\ DOMAIN rows = AllUids
    /\ \A u \in Stored : RowAsMeant(u, rows[u])

(* A row that upsert_object writes, and the rows that it leaves alone.     *)
LEMMA UpsertKeeps ==
  ASSUME RowsInv, NEW uid, NEW object, NEW fields, Upsert(uid, object, fields),
         RowAsMeant(uid, [object |-> object, fields |-> [fields EXCEPT !.uid = uid]])
  PROVE  RowsInv'
<1> DEFINE row == [object |-> object, fields |-> [fields EXCEPT !.uid = uid]]
<1>1. RowAsMeant(uid, row)
  OBVIOUS
<1>2. rows' = [rows EXCEPT ![uid] = row]
  BY DEF Upsert
<1> HIDE DEF row
<1>3. DOMAIN rows' = AllUids
  BY <1>2 DEF RowsInv
<1>4. ASSUME NEW u \in Stored'
      PROVE  \/ u = uid /\ rows'[u] = row
             \/ u \in Stored /\ rows'[u] = rows[u]
  BY <1>2 DEF Stored, RowsInv
<1>5. \A u \in Stored' : RowAsMeant(u, rows'[u])
  BY <1>1, <1>4 DEF RowsInv
<1>6. \A u \in Stored' : RowAsMeant(u, rows[u])'
  BY <1>5 DEF RowAsMeant, ReadsAsMeant
<1> QED
  BY <1>3, <1>6 DEF RowsInv

(* A PUT, at any URL.                                                      *)
LEMMA PutKeeps ==
  ASSUME RowsInv, NEW named, NEW object, ReadsAsMeant(object), Put(named, object)
  PROVE  RowsInv'
<1> DEFINE read == extract_fields(object.body)
           target == IF read.uid = None THEN uid_from_url(FileName(named)) ELSE read.uid
           fields == [read EXCEPT !.uid = target]
           row == [object |-> object, fields |-> fields]
<1>1. Upsert(target, object, read)
  BY DEF Put
<1>2. row.object = object /\ row.fields = fields
  OBVIOUS
<1>3. ASSUME NEW c \in DOMAIN NoFields \ object.spoiled
      PROVE  fields[c] = object.meant[c] \/ (c = "uid" /\ object.meant.uid = None)
  <2>1. read[c] = object.meant[c] /\ c \in DOMAIN read
    BY DEF ReadsAsMeant
  <2> HIDE DEF read
  <2>2. CASE c = "uid"
    <3>1. fields[c] = target /\ read.uid = object.meant.uid
      BY <2>1, <2>2
    <3> QED
      BY <2>2, <3>1
  <2>3. CASE c # "uid"
    <3> HIDE DEF target
    <3> QED
      BY <2>1, <2>3
  <2> QED
    BY <2>2, <2>3
<1> HIDE DEF fields, row
<1>4. RowAsMeant(target, row)
  BY <1>2, <1>3 DEF RowAsMeant
<1> QED
  BY <1>1, <1>4, UpsertKeeps DEF row, fields

(* An event that a tool writes.                                            *)
LEMMA BuildKeeps ==
  ASSUME RowsInv, NEW kind, NEW uid \in AllUids, NEW args \in Arguments, Build(kind, uid, args)
  PROVE  RowsInv'
<1> DEFINE object == BuiltObject(uid, args)
           fields == [Columns(args) EXCEPT !.uid = uid]
           row == [object |-> object, fields |-> fields]
<1>1. object.meant = fields
  BY DEF BuiltObject, Object
<1>2. Upsert(uid, object, Columns(args))
  BY DEF Build
<1>3. ReadsAsMeant(object)
  BY BuiltReads
<1> HIDE DEF object, fields
<1>4. RowAsMeant(uid, row)
  BY <1>1, <1>3 DEF RowAsMeant
<1> QED
  BY <1>2, <1>4, UpsertKeeps DEF fields

(* RowsInv is inductive.                                                   *)
LEMMA RowsInvariant == ContentsSpec => []RowsInv
<1>1. ContentsInit => RowsInv
  BY DEF ContentsInit, RowsInv, Stored
<1>2. RowsInv /\ [ContentsNext]_contentsVars => RowsInv'
  <2> SUFFICES ASSUME RowsInv, [ContentsNext]_contentsVars PROVE RowsInv'
    OBVIOUS
  <2>0. ASSUME UNCHANGED rows PROVE RowsInv'
    BY <2>0 DEF RowsInv, RowAsMeant, ReadsAsMeant, Stored
  <2>1. CASE SendPut
    <3>1. ASSUME NEW named \in Uids, NEW uid \in Uids \cup {None}, NEW object \in Objects[uid],
                 Put(named, object)
          PROVE  RowsInv'
      BY <3>1, ObjectsRead, PutKeeps
    <3>2. ASSUME NEW uid \in Stored, Put(uid, rows[uid].object) PROVE RowsInv'
      <4>1. ReadsAsMeant(rows[uid].object)
        BY DEF RowsInv, RowAsMeant
      <4> QED
        BY <3>2, <4>1, PutKeeps
    <3> QED
      BY <2>1, <3>1, <3>2 DEF SendPut
  <2>2. CASE CreateEvent
    BY <2>2, BuildKeeps DEF CreateEvent, AllUids
  <2>3. ASSUME NEW uid \in AllUids, UpdateEvent(uid) PROVE RowsInv'
    BY <2>3, BuildKeeps DEF UpdateEvent
  <2>4. ASSUME NEW named \in AllUids, Delete(named) PROVE RowsInv'
    <3> DEFINE uid == uid_from_url(FileName(named))
    <3>1. rows' = [rows EXCEPT ![uid] = NoRow]
      BY <2>4 DEF Delete
    <3> HIDE DEF uid
    <3>2. DOMAIN rows' = AllUids
      BY <3>1 DEF RowsInv
    <3>3. \A u \in Stored' : u \in Stored /\ rows'[u] = rows[u]
      BY <3>1 DEF Stored, RowsInv
    <3>4. \A u \in Stored' : RowAsMeant(u, rows'[u])
      BY <3>3 DEF RowsInv
    <3>5. \A u \in Stored' : RowAsMeant(u, rows[u])'
      BY <3>4 DEF RowAsMeant, ReadsAsMeant
    <3> QED
      BY <3>2, <3>5 DEF RowsInv
  <2>5. CASE SendReport
    BY <2>0, <2>5 DEF SendReport, Report
  <2>6. CASE SendPropfind
    BY <2>0, <2>6 DEF SendPropfind
  <2>7. CASE SendUnknown
    BY <2>0, <2>7 DEF SendUnknown
  <2>8. CASE Conclude
    BY <2>0, <2>8 DEF Conclude
  <2>9. CASE UNCHANGED contentsVars
    BY <2>0, <2>9 DEF contentsVars
  <2> QED
    BY <2>1, <2>2, <2>3, <2>4, <2>5, <2>6, <2>7, <2>8, <2>9 DEF ContentsNext
<1> QED
  BY <1>1, <1>2, PTL DEF ContentsSpec

(* ColumnsAsMeant: for any titles, uids, times and sequence of requests,   *)
(* extract_fields gives back what a client wrote and what build_vevent was *)
(* given, an object that is put back included, but for the columns that a  *)
(* blank, an alarm, a changed occurrence, a colon in a time zone or a line *)
(* break in an argument is known to change.                                *)
THEOREM ColumnsAgree == ContentsSpec => []ColumnsAsMeant
<1>1. RowsInv => ColumnsAsMeant
  BY DEF RowsInv, RowAsMeant, ColumnsAsMeant
<1> QED
  BY <1>1, RowsInvariant, PTL

\* The object at a URL after a PUT there.
Lands(named) ==
    (/\ exchange'.kind = "PUT" /\ exchange'.asked = named
     /\ Ordinary(named) /\ "uid" \notin exchange'.got.spoiled) =>
        IF exchange'.got.meant.uid \in {None, named}
          THEN rows'[named].object = exchange'.got
          ELSE rows'[named] = rows[named]

(* A PUT to the URL of an object.                                          *)
LEMMA PutLands ==
  ASSUME RowsInv, NEW named \in Uids, Ordinary(named), NEW object, ReadsAsMeant(object),
         "uid" \notin object.spoiled, Put(named, object)
  PROVE  IF object.meant.uid \in {None, named}
           THEN rows'[named].object = object ELSE rows'[named] = rows[named]
<1> DEFINE read   == extract_fields(object.body)
           target == IF read.uid = None THEN uid_from_url(FileName(named)) ELSE read.uid
           row    == [object |-> object, fields |-> [read EXCEPT !.uid = target]]
<1>1. named \in Seq(Chars) /\ named \in DOMAIN rows
  BY ContentsAssumptions, OrdinaryChars DEF RowsInv, AllUids
<1>2. read.uid = object.meant.uid
  <2>1. read["uid"] = object.meant["uid"]
    BY ColumnNames DEF ReadsAsMeant
  <2> QED
    BY <2>1
<1>3. target = IF object.meant.uid \in {None, named} THEN named ELSE object.meant.uid
  <2>1. uid_from_url(FileName(named)) = named
    BY <1>1, UrlBack
  <2> HIDE DEF read
  <2> QED
    BY <1>2, <2>1
<1>4. row.object = object
  OBVIOUS
<1>5. rows' = [rows EXCEPT ![target] = row]
  BY DEF Put, Upsert
<1> HIDE DEF row, target
<1> QED
  BY <1>1, <1>3, <1>4, <1>5

(* PutWhereNamed: the target that handle_put chooses, the uid of the body  *)
(* or else of the URL, is the object at the URL whenever the object is     *)
(* meant to have that uid or none, and never touches it when the object is *)
(* meant to have another.                                                  *)
THEOREM PutsLand == ContentsSpec => PutWhereNamed
<1>1. ASSUME RowsInv, ContentsNext, NEW named \in Uids PROVE Lands(named)
  <2> SUFFICES ASSUME exchange'.kind = "PUT", exchange'.asked = named, Ordinary(named),
                      "uid" \notin exchange'.got.spoiled
               PROVE  IF exchange'.got.meant.uid \in {None, named}
                        THEN rows'[named].object = exchange'.got
                        ELSE rows'[named] = rows[named]
    BY DEF Lands
  <2>1. ASSUME NEW n, NEW object, Put(n, object)
        PROVE  n = named /\ exchange'.got = object
    BY <2>1 DEF Put, Exchange
  <2>2. ASSUME NEW n, NEW object, Put(n, object), ReadsAsMeant(object)
        PROVE  IF exchange'.got.meant.uid \in {None, named}
                 THEN rows'[named].object = exchange'.got
                 ELSE rows'[named] = rows[named]
    <3>1. n = named /\ exchange'.got = object
      BY <2>1, <2>2
    <3>2. Put(named, object)
      BY <2>2, <3>1
    <3> QED
      BY <1>1, <2>2, <3>1, <3>2, PutLands
  <2>4. CASE SendPut
    <3>1. CASE \E n \in Uids, uid \in Uids \cup {None} : \E object \in Objects[uid] : Put(n, object)
      BY <2>2, <3>1, ObjectsRead
    <3>2. CASE \E uid \in Stored : Put(uid, rows[uid].object)
      <4>1. \A uid \in Stored : ReadsAsMeant(rows[uid].object)
        BY <1>1 DEF RowsInv, RowAsMeant
      <4> QED
        BY <2>2, <3>2, <4>1
    <3> QED
      BY <2>4, <3>1, <3>2 DEF SendPut
  <2>5. CASE CreateEvent
    BY <2>5 DEF CreateEvent, Build, Exchange
  <2>6. CASE \E uid \in AllUids : UpdateEvent(uid)
    BY <2>6 DEF UpdateEvent, Build, Exchange
  <2>7. CASE \E n \in AllUids : Delete(n)
    BY <2>7 DEF Delete, Exchange
  <2>8. CASE SendReport
    BY <2>8 DEF SendReport, Report, Exchange
  <2>9. CASE SendPropfind
    BY <2>9 DEF SendPropfind, Exchange
  <2>10. CASE SendUnknown
    <3>1. PICK got : exchange' = Exchange("unknown", None, got, None, {})
      BY <2>10 DEF SendUnknown
    <3> QED
      BY <3>1 DEF Exchange
  <2>11. CASE Conclude
    BY <2>11 DEF Conclude, NoExchange, Exchange
  <2> QED
    BY <1>1, <2>4, <2>5, <2>6, <2>7, <2>8, <2>9, <2>10, <2>11 DEF ContentsNext
<1>2. RowsInv /\ [ContentsNext]_contentsVars => [\A named \in Uids : Lands(named)]_contentsVars
  BY <1>1
<1>3. ContentsSpec => [][\A named \in Uids : Lands(named)]_contentsVars
  BY <1>2, RowsInvariant, PTL DEF ContentsSpec
<1> QED
  BY <1>3 DEF PutWhereNamed, Lands

----------------------------------------------------------------------------
(* Names in XML *)

\* The prefixes of the root, when the properties rely on them.
Keeps(style, map) ==
    style.naming = "root" =>
        /\ "P" \in DOMAIN map /\ map["P"] = "DAV:"
        /\ "Q" \in DOMAIN map /\ map["Q"] = "caldav"

(* An element without declarations leaves the prefixes alone.              *)
LEMMA PlainKeeps ==
  ASSUME NEW style, NEW map, Keeps(style, map), NEW e, e.xmlns = None, e.prefixes = NoPrefixes
  PROVE  Keeps(style, register(map, e))
<1>1. DOMAIN e.prefixes = {}
  BY DEF NoPrefixes
<1>2. /\ DOMAIN register(map, e) = DOMAIN map
      /\ \A p \in DOMAIN map : register(map, e)[p] = map[p]
  BY <1>1 DEF register
<1> HIDE DEF register
<1> QED
  BY <1>2 DEF Keeps

(* The root declares the prefixes.                                         *)
LEMMA RootKeeps ==
  ASSUME NEW style, NEW local
  PROVE  LET e == RootElement(style, local) IN
         /\ e.tag = "start" /\ e.local = local
         /\ Keeps(style, register(NoPrefixes, e))
<1> DEFINE e == RootElement(style, local)
<1>1. e.tag = "start" /\ e.local = local
  BY DEF RootElement, Element, Start
<1>2. CASE style.naming = "root"
  <2>1. e.xmlns = None /\ e.prefixes = Declared
    BY <1>2 DEF RootElement, Element
  <2>2. /\ "P" \in DOMAIN Declared /\ Declared["P"] = "DAV:"
        /\ "Q" \in DOMAIN Declared /\ Declared["Q"] = "caldav"
    BY DEF Declared
  <2> HIDE DEF e
  <2>3. \A p \in DOMAIN Declared :
            p \in DOMAIN register(NoPrefixes, e) /\ register(NoPrefixes, e)[p] = Declared[p]
    BY <2>1 DEF register
  <2> HIDE DEF register
  <2>4. Keeps(style, register(NoPrefixes, e))
    BY <2>2, <2>3 DEF Keeps
  <2> QED
    BY <1>1, <2>4 DEF e
<1>3. CASE style.naming # "root"
  BY <1>1, <1>3 DEF Keeps
<1> QED
  BY <1>2, <1>3

(* Every way but "mixed" gives a property its namespace.                   *)
LEMMA PropResolves ==
  ASSUME NEW style \in Style, style.naming # "mixed", NEW p \in PropNames, NEW map, Keeps(style, map)
  PROVE  LET e == PropElement(style, p) IN
         /\ e.tag = "empty" /\ e.local = p.local
         /\ Prop(resolve(register(map, e), e), e.local) = p
         /\ Keeps(style, register(map, e))
<1> DEFINE e == PropElement(style, p)
           now == register(map, e)
           pre == PrefixOf(p.ns)
<1>1. /\ p.ns \in {"DAV:", "caldav"} /\ p = Prop(p.ns, p.local) /\ None \notin {"DAV:", "caldav"}
      /\ style.naming \in {"root", "element", "default"}
      /\ pre \in {"P", "Q"} /\ (pre = "P" <=> p.ns = "DAV:")
  BY NoneAssumption DEF PropNames, Prop, Style, Naming, PrefixOf
<1>2. e.tag = "empty" /\ e.local = p.local
  BY <1>1 DEF PropElement, Element
<1>3. resolve(now, e) = p.ns /\ Keeps(style, now)
  <2>1. CASE style.naming = "root"
    <3>1. e.xmlns = None /\ e.prefixes = NoPrefixes /\ e.prefix = pre
      BY <2>1 DEF PropElement, Element
    <3> HIDE DEF e, pre
    <3>2. Keeps(style, now)
      BY <3>1, PlainKeeps
    <3> HIDE DEF now
    <3> QED
      BY <1>1, <2>1, <3>1, <3>2 DEF resolve, Keeps
  <2>2. CASE style.naming = "element"
    <3>1. e.xmlns = None /\ e.prefixes = [q \in {pre} |-> p.ns] /\ e.prefix = pre
      BY <2>2 DEF PropElement, Element
    <3> HIDE DEF e, pre
    <3>2. pre \in DOMAIN now /\ now[pre] = p.ns
      BY <3>1 DEF register
    <3> HIDE DEF now
    <3> QED
      BY <2>2, <3>1, <3>2 DEF resolve, Keeps
  <2>3. CASE style.naming = "default"
    <3>1. e.xmlns = p.ns
      BY <2>3 DEF PropElement, Element
    <3> HIDE DEF e, now
    <3> QED
      BY <1>1, <2>3, <3>1 DEF resolve, Keeps
  <2> QED
    BY <1>1, <2>1, <2>2, <2>3
<1> QED
  BY <1>1, <1>2, <1>3

----------------------------------------------------------------------------
(* REPORT *)

\* The pass of parse_report, with the flags and the report so far.
At(s, style, in, report) == \E map : Keeps(style, map) /\ s = InReport(in, map, report)

\* The properties that a report can ask for.
PlainNames == {p \in PropNames : p.local \notin ReportNames}

(* The end of an element.                                                  *)
LEMMA ReportEnd ==
  ASSUME NEW style, NEW in, NEW report, NEW s, At(s, style, in, report), NEW local
  PROVE  At(report_event(s, End(local)), style, in \ {local}, report)
<1>1. PICK map : Keeps(style, map) /\ s = InReport(in, map, report)
  BY DEF At
<1>2. report_event(s, End(local)) = InReport(in \ {local}, map, report)
  BY <1>1 DEF report_event, InReport, End, Element
<1> QED
  BY <1>1, <1>2 DEF At

(* A text.                                                                 *)
LEMMA ReportText ==
  ASSUME NEW style, NEW in, NEW t, NEW p, NEW h, NEW a, NEW b, NEW k, NEW s,
         At(s, style, in, AReport(t, p, h, a, b, k)), NEW text
  PROVE  LET now == report_event(s, Text(text)) IN
         /\ "href" \in in => At(now, style, in, AReport(t, p, Append(h, text), a, b, k))
         /\ "href" \notin in /\ "sync-token" \in in => At(now, style, in, AReport(t, p, h, a, b, text))
         /\ "href" \notin in /\ "sync-token" \notin in => At(now, style, in, AReport(t, p, h, a, b, k))
<1> DEFINE now == report_event(s, Text(text))
           r   == AReport(t, p, h, a, b, k)
<1>1. PICK map : Keeps(style, map) /\ s = InReport(in, map, r)
  BY DEF At
<1>2. now = InReport(in, map, report_text(in, r, Text(text)))
  <2> HIDE DEF r
  <2> QED
    BY <1>1 DEF report_event, InReport, Text, Start, Element
<1>3. Text(text).text = text
  BY DEF Text, Start, Element
<1>4. /\ "href" \in in => report_text(in, r, Text(text)) = AReport(t, p, Append(h, text), a, b, k)
      /\ "href" \notin in /\ "sync-token" \in in =>
           report_text(in, r, Text(text)) = AReport(t, p, h, a, b, text)
      /\ "href" \notin in /\ "sync-token" \notin in => report_text(in, r, Text(text)) = r
  BY <1>3 DEF report_text, AReport
<1>5. At(now, style, in, report_text(in, r, Text(text)))
  BY <1>1, <1>2 DEF At
<1> QED
  BY <1>4, <1>5

(* The start of an element, or one without content: a root.                *)
LEMMA OpenRoot ==
  ASSUME NEW in, NEW map, NEW t, NEW p, NEW h, NEW a, NEW b, NEW k, NEW e, e.local \in DOMAIN Types
  PROVE  report_open(in, map, AReport(t, p, h, a, b, k), e) = AReport(Types[e.local], p, h, a, b, k)
<1> DEFINE r    == AReport(t, p, h, a, b, k)
           type == Types[e.local]
<1> HIDE DEF type
<1>0. e.local \notin Flags \cup {"time-range", "filter", "comp-filter"}
  BY DEF Types, Flags
<1>1. [r EXCEPT !.type = type] = AReport(type, p, h, a, b, k)
  BY DEF AReport
<1> HIDE DEF r
<1>2. report_open(in, map, r, e) = [r EXCEPT !.type = type]
  BY <1>0 DEF report_open, type
<1> QED
  BY <1>1, <1>2 DEF r, type

(* The first time range.                                                   *)
LEMMA OpenRange ==
  ASSUME NEW in, NEW map, NEW t, NEW p, NEW h, NEW k, NEW e, e.local = "time-range"
  PROVE  report_open(in, map, AReport(t, p, h, None, None, k), e) = AReport(t, p, h, e.start, e.end, k)
<1> DEFINE r == AReport(t, p, h, None, None, k)
<1>1. e.local \notin DOMAIN Types \cup Flags \cup {"filter", "comp-filter"}
  BY DEF Types, Flags
<1>2. r.type = t /\ r.props = p /\ r.hrefs = h /\ r.sync_token = k /\ r.start = None /\ r.end = None
  BY DEF AReport
<1> HIDE DEF r
<1>3. report_open(in, map, r, e) = AReport(r.type, r.props, r.hrefs, Attribute(e.start, r.start),
                                            Attribute(e.end, r.end), r.sync_token)
  BY <1>1 DEF report_open
<1>4. Attribute(e.start, r.start) = e.start /\ Attribute(e.end, r.end) = e.end
  BY <1>2 DEF Attribute
<1> QED
  BY <1>2, <1>3, <1>4 DEF r

(* A flag, a filter, and what is in no prop.                               *)
LEMMA OpenIgnored ==
  ASSUME NEW in, NEW map, NEW r, NEW e, e.local \notin DOMAIN Types, e.local # "time-range",
         e.local \in Flags \cup {"filter", "comp-filter"} \/ "prop" \notin in
  PROVE  report_open(in, map, r, e) = r
BY DEF report_open

(* A property.                                                             *)
LEMMA OpenProp ==
  ASSUME NEW in, NEW map, NEW t, NEW p, NEW h, NEW a, NEW b, NEW k, NEW e, "prop" \in in,
         e.local \notin ReportNames
  PROVE  report_open(in, map, AReport(t, p, h, a, b, k), e)
           = AReport(t, p \cup {Prop(resolve(map, e), e.local)}, h, a, b, k)
<1> DEFINE r    == AReport(t, p, h, a, b, k)
           one  == Prop(resolve(map, e), e.local)
           more == p \cup {one}
<1>1. r.props = p
  BY DEF AReport
<1> HIDE DEF more
<1>2. [r EXCEPT !.props = more] = AReport(t, more, h, a, b, k)
  BY DEF AReport
<1> HIDE DEF r, one
<1>3. report_open(in, map, r, e) = [r EXCEPT !.props = r.props \cup {one}]
  BY DEF report_open, ReportNames, one
<1> QED
  BY <1>1, <1>2, <1>3 DEF r, one, more

(* The event of such an element.                                           *)
LEMMA ReportElement ==
  ASSUME NEW in, NEW map, NEW r, NEW e, e.tag \in {"start", "empty"}
  PROVE  report_event(InReport(in, map, r), e)
           = InReport(in \cup ({e.local} \cap Flags), register(map, e),
                     report_open(in, register(map, e), r, e))
<1> DEFINE s == InReport(in, map, r)
<1>1. ~ s.failed /\ s.map = map /\ s.in = in /\ s.report = r
  BY DEF InReport
<1> HIDE DEF s
<1>2. report_event(s, e) = InReport(s.in \cup ({e.local} \cap Flags), register(s.map, e),
                                   report_open(s.in, register(s.map, e), s.report, e))
  BY <1>1 DEF report_event
<1> QED
  BY <1>1, <1>2 DEF s

(* An element that declares nothing.                                       *)
LEMMA PlainAt ==
  ASSUME NEW style, NEW in, NEW r, NEW s, At(s, style, in, r),
         NEW e, e.tag \in {"start", "empty"}, e.xmlns = None, e.prefixes = NoPrefixes
  PROVE  \E map : /\ Keeps(style, map)
                  /\ report_event(s, e) = InReport(in \cup ({e.local} \cap Flags), map,
                                                   report_open(in, map, r, e))
<1>1. PICK map : Keeps(style, map) /\ s = InReport(in, map, r)
  BY DEF At
<1>2. Keeps(style, register(map, e))
  BY <1>1, PlainKeeps
<1>3. report_event(s, e) = InReport(in \cup ({e.local} \cap Flags), register(map, e),
                                    report_open(in, register(map, e), r, e))
  BY <1>1, ReportElement
<1> QED
  BY <1>2, <1>3

(* Such a flag.                                                            *)
LEMMA FlagAt ==
  ASSUME NEW style, NEW in, NEW r, NEW s, At(s, style, in, r),
         NEW e, e.tag \in {"start", "empty"}, e.xmlns = None, e.prefixes = NoPrefixes,
         e.local \in Flags
  PROVE  At(report_event(s, e), style, in \cup {e.local}, r)
<1>1. PICK map : /\ Keeps(style, map)
                 /\ report_event(s, e) = InReport(in \cup ({e.local} \cap Flags), map,
                                                  report_open(in, map, r, e))
  BY PlainAt
<1>2. e.local \notin DOMAIN Types /\ e.local # "time-range"
  BY DEF Types, Flags
<1>3. report_open(in, map, r, e) = r /\ in \cup ({e.local} \cap Flags) = in \cup {e.local}
  BY <1>2, OpenIgnored
<1> QED
  BY <1>1, <1>3 DEF At

(* Such a time range.                                                      *)
LEMMA RangeAt ==
  ASSUME NEW style, NEW in, NEW t, NEW p, NEW h, NEW k, NEW s,
         At(s, style, in, AReport(t, p, h, None, None, k)),
         NEW e, e.tag \in {"start", "empty"}, e.xmlns = None, e.prefixes = NoPrefixes,
         e.local = "time-range"
  PROVE  At(report_event(s, e), style, in, AReport(t, p, h, e.start, e.end, k))
<1> DEFINE r == AReport(t, p, h, None, None, k)
<1>1. PICK map : /\ Keeps(style, map)
                 /\ report_event(s, e) = InReport(in \cup ({e.local} \cap Flags), map,
                                                  report_open(in, map, r, e))
  <2> HIDE DEF r
  <2>1. At(s, style, in, r)
    BY DEF r
  <2> QED
    BY <2>1, PlainAt
<1>2. in \cup ({e.local} \cap Flags) = in
  BY DEF Flags
<1>3. report_open(in, map, r, e) = AReport(t, p, h, e.start, e.end, k)
  BY OpenRange
<1> HIDE DEF r
<1> QED
  BY <1>1, <1>2, <1>3 DEF At

(* Such a filter, or an element that parse_report does not look for,       *)
(* outside of prop.                                                        *)
LEMMA IgnoredAt ==
  ASSUME NEW style, NEW in, NEW r, NEW s, At(s, style, in, r), "prop" \notin in,
         NEW e, e.tag \in {"start", "empty"}, e.xmlns = None, e.prefixes = NoPrefixes,
         e.local \notin DOMAIN Types \cup Flags, e.local # "time-range"
  PROVE  At(report_event(s, e), style, in, r)
<1>1. PICK map : /\ Keeps(style, map)
                 /\ report_event(s, e) = InReport(in \cup ({e.local} \cap Flags), map,
                                                  report_open(in, map, r, e))
  BY PlainAt
<1>2. in \cup ({e.local} \cap Flags) = in
  OBVIOUS
<1>3. report_open(in, map, r, e) = r
  BY OpenIgnored
<1> QED
  BY <1>1, <1>2, <1>3 DEF At

(* The root says which report it is.                                       *)
LEMMA RootAt ==
  ASSUME NEW style, NEW local \in DOMAIN Types
  PROVE  At(report_event(InReport({}, NoPrefixes, NoReport), RootElement(style, local)), style, {},
            AReport(Types[local], {}, << >>, None, None, << >>))
<1> DEFINE e    == RootElement(style, local)
           none == {}
           nil  == << >>
           type == Types[local]
<1>1. e.tag = "start" /\ e.local = local /\ Keeps(style, register(NoPrefixes, e))
  BY RootKeeps
<1> HIDE DEF e, none, nil
<1>2. report_event(InReport(none, NoPrefixes, AReport(None, none, nil, None, None, nil)), e)
        = InReport(none, register(NoPrefixes, e), AReport(Types[e.local], none, nil, None, None, nil))
  <2>1. none \cup ({e.local} \cap Flags) = none
    BY <1>1 DEF Types, Flags, none
  <2> DEFINE r == AReport(None, none, nil, None, None, nil)
             next == register(NoPrefixes, e)
  <2>2. report_event(InReport(none, NoPrefixes, r), e)
          = InReport(none \cup ({e.local} \cap Flags), next, report_open(none, next, r, e))
    <3> HIDE DEF r
    <3> QED
      BY <1>1, ReportElement
  <2>3. report_open(none, next, r, e) = AReport(Types[e.local], none, nil, None, None, nil)
    <3> HIDE DEF next
    <3> QED
      BY <1>1, OpenRoot
  <2> QED
    BY <1>1, <2>1, <2>2, <2>3
<1>3. At(report_event(InReport(none, NoPrefixes, AReport(None, none, nil, None, None, nil)), e), style,
         none, AReport(Types[local], none, nil, None, None, nil))
  BY <1>1, <1>2 DEF At
<1> QED
  BY <1>3 DEF e, none, nil, NoReport

(* The property elements.                                                  *)
LEMMA PropsAt ==
  ASSUME NEW style \in Style, style.naming # "mixed", NEW props \in Seq(PlainNames),
         NEW in, "prop" \in in, NEW t, NEW p, NEW h, NEW a, NEW b, NEW k, NEW s,
         At(s, style, in, AReport(t, p, h, a, b, k))
  PROVE  At(Reports!Run(s, [i \in DOMAIN props |-> PropElement(style, props[i])]), style, in,
            AReport(t, p \cup SetOf(props), h, a, b, k))
<1> DEFINE elements == [i \in DOMAIN props |-> PropElement(style, props[i])]
           R(n)    == Reports!States(s, elements)[n]
           Some(n) == {props[i] : i \in 1 .. n}
           S == {n \in Nat : n <= Len(props) =>
                   At(R(n), style, in, AReport(t, p \cup Some(n), h, a, b, k))}
<1>0. Len(elements) = Len(props) /\ \A i \in 1 .. Len(props) : elements[i] = PropElement(style, props[i])
  OBVIOUS
<1> HIDE DEF elements
<1>1. 0 \in S
  <2>1. p \cup Some(0) = p
    OBVIOUS
  <2>2. R(0) = s
    BY Reports!StatesOf
  <2> HIDE DEF R, Some
  <2> QED
    BY <2>1, <2>2
<1>2. ASSUME NEW n \in Nat, n \in S PROVE n + 1 \in S
  <2> SUFFICES ASSUME n + 1 <= Len(props)
               PROVE  At(R(n + 1), style, in, AReport(t, p \cup Some(n + 1), h, a, b, k))
    OBVIOUS
  <2> DEFINE q == props[n + 1]
             e == PropElement(style, q)
             was == p \cup Some(n)
  <2>1. At(R(n), style, in, AReport(t, was, h, a, b, k))
    BY <1>2
  <2>2. R(n + 1) = report_event(R(n), e)
    <3>1. elements[n + 1] = e
      BY <1>0
    <3>2. R(n + 1) = report_event(R(n), elements[n + 1])
      BY Reports!StatesOf
    <3> QED
      BY <3>1, <3>2
  <2>3. q \in PlainNames /\ q \in PropNames /\ was \cup {q} = p \cup Some(n + 1)
    BY DEF PlainNames
  <2> HIDE DEF R, was, Some
  <2>4. PICK map : Keeps(style, map) /\ R(n) = InReport(in, map, AReport(t, was, h, a, b, k))
    BY <2>1 DEF At
  <2> HIDE DEF q
  <2>5. /\ e.tag = "empty" /\ e.local = q.local
        /\ Prop(resolve(register(map, e), e), e.local) = q
        /\ Keeps(style, register(map, e))
    BY <2>3, <2>4, PropResolves
  <2>6. q.local \notin ReportNames
    BY <2>3 DEF PlainNames
  <2> HIDE DEF e
  <2>7. R(n + 1) = InReport(in, register(map, e), AReport(t, was \cup {q}, h, a, b, k))
    <3>1. in \cup ({e.local} \cap Flags) = in
      BY <2>5, <2>6 DEF ReportNames
    <3>2. report_event(R(n), e)
            = InReport(in \cup ({e.local} \cap Flags), register(map, e),
                      report_open(in, register(map, e), AReport(t, was, h, a, b, k), e))
      BY <2>4, <2>5, ReportElement
    <3>3. report_open(in, register(map, e), AReport(t, was, h, a, b, k), e)
            = AReport(t, was \cup {q}, h, a, b, k)
      BY <2>5, <2>6, OpenProp
    <3> QED
      BY <2>2, <3>1, <3>2, <3>3
  <2> QED
    BY <2>3, <2>5, <2>7 DEF At
<1> HIDE DEF S
<1>3. \A n \in Nat : n \in S
  BY <1>1, <1>2, Reports!Induction
<1>4. Len(props) \in S /\ Some(Len(props)) = SetOf(props)
  BY <1>3 DEF SetOf
<1>5. Reports!Run(s, elements) = R(Len(props))
  BY <1>0 DEF Reports!Run
<1> HIDE DEF R, Some
<1>6. At(Reports!Run(s, elements), style, in, AReport(t, p \cup SetOf(props), h, a, b, k))
  BY <1>4, <1>5 DEF S
<1> QED
  BY <1>6 DEF elements


(* A list of properties, with the element around it.                       *)
LEMMA PropListAt ==
  ASSUME NEW style \in Style, style.naming # "mixed", NEW props \in Seq(PlainNames),
         NEW in, "prop" \notin in, NEW t, NEW p, NEW h, NEW a, NEW b, NEW k, NEW s,
         At(s, style, in, AReport(t, p, h, a, b, k))
  PROVE  At(Reports!Run(s, PropElements(style, props)), style, in,
            AReport(t, p \cup SetOf(props), h, a, b, k))
<1> DEFINE elements == [i \in DOMAIN props |-> PropElement(style, props[i])]
           start == Start("prop")
           end   == End("prop")
           A     == {start, end} \cup {PropElement(style, props[i]) : i \in DOMAIN props}
           on    == in \cup {"prop"}
           s1    == report_event(s, start)
           s2    == Reports!Run(s1, elements)
<1>1. elements \in Seq(A) /\ <<start>> \in Seq(A) /\ <<end>> \in Seq(A)
  <2>1. start \in A /\ end \in A
    OBVIOUS
  <2>2. \A i \in DOMAIN props : PropElement(style, props[i]) \in A
    OBVIOUS
  <2> HIDE DEF A, start, end
  <2> QED
    BY <2>1, <2>2
<1>2. start.tag = "start" /\ start.local = "prop" /\ start.xmlns = None /\ start.prefixes = NoPrefixes
  BY DEF Start, Element
<1>3. "prop" \in Flags
  BY DEF Flags
<1> HIDE DEF start
<1>4. At(s1, style, in \cup {start.local}, AReport(t, p, h, a, b, k))
  <2> DEFINE r == AReport(t, p, h, a, b, k)
  <2> HIDE DEF r
  <2>1. At(s, style, in, r)
    BY DEF r
  <2>2. At(report_event(s, start), style, in \cup {start.local}, r)
    BY <1>2, <1>3, <2>1, FlagAt
  <2> QED
    BY <2>2 DEF r
<1>5. At(s1, style, on, AReport(t, p, h, a, b, k)) /\ "prop" \in on
  BY <1>2, <1>4
<1> HIDE DEF on, s1
<1>6. At(s2, style, on, AReport(t, p \cup SetOf(props), h, a, b, k))
  BY <1>5, PropsAt
<1> HIDE DEF s2, elements
<1>7. on \ {"prop"} = in
  BY DEF on
<1>8. At(report_event(s2, end), style, in, AReport(t, p \cup SetOf(props), h, a, b, k))
  <2> DEFINE r == AReport(t, p \cup SetOf(props), h, a, b, k)
  <2> HIDE DEF r
  <2>1. At(report_event(s2, End("prop")), style, on \ {"prop"}, r)
    BY <1>6, ReportEnd DEF r
  <2> QED
    BY <1>7, <2>1 DEF r
<1> HIDE DEF end
<1>9. Reports!Run(s, <<start>> \o elements \o <<end>>) = report_event(s2, end)
  <2> DEFINE first == <<start>>
             last  == <<end>>
  <2>0. first \in Seq(A) /\ last \in Seq(A)
    BY <1>1
  <2> HIDE DEF A, first, last
  <2>1. Reports!Run(s, first \o elements \o last)
          = Reports!Run(Reports!Run(Reports!Run(s, first), elements), last)
    BY <1>1, <2>0, Reports!RunPieces
  <2>2. Reports!Run(s, <<start>>) = s1 /\ Reports!Run(s2, <<end>>) = report_event(s2, end)
    BY Reports!RunFew DEF s1
  <2> QED
    BY <2>1, <2>2 DEF s2, first, last
<1> QED
  BY <1>8, <1>9 DEF PropElements, start, end, elements

(* An element with a text: an href, a sync-token, a sync-level.            *)
LEMMA TextAt ==
  ASSUME NEW style, NEW t, NEW p, NEW h, NEW a, NEW b, NEW k, NEW s, NEW text,
         At(s, style, {}, AReport(t, p, h, a, b, k))
  PROVE  /\ At(Reports!Run(s, WithText("href", text)), style, {}, AReport(t, p, Append(h, text), a, b, k))
         /\ At(Reports!Run(s, WithText("sync-token", text)), style, {}, AReport(t, p, h, a, b, text))
         /\ At(Reports!Run(s, WithText("sync-level", text)), style, {}, AReport(t, p, h, a, b, k))
<1> DEFINE none == {}
           r    == AReport(t, p, h, a, b, k)
<1>1. ASSUME NEW local, NEW in, NEW now,
             At(report_event(s, Start(local)), style, in, r),
             At(report_event(report_event(s, Start(local)), Text(text)), style, in, now),
             in \ {local} = {}
      PROVE  At(Reports!Run(s, WithText(local, text)), style, {}, now)
  <2> DEFINE start == Start(local)
             mid == Text(text)
             end == End(local)
             s2 == report_event(report_event(s, start), mid)
  <2>1. At(report_event(s2, End(local)), style, in \ {local}, now)
    <3> HIDE DEF s2
    <3> QED
      BY <1>1, ReportEnd DEF s2, start, mid
  <2> HIDE DEF start, mid, end
  <2>2. Reports!Run(s, <<start, mid, end>>) = report_event(s2, end)
    BY Reports!RunFew
  <2> QED
    BY <1>1, <2>1, <2>2 DEF WithText, start, mid, end
<1>2. ASSUME NEW local
      PROVE  LET e == Start(local) IN
             e.tag = "start" /\ e.local = local /\ e.xmlns = None /\ e.prefixes = NoPrefixes
  BY DEF Start, Element
<1> HIDE DEF none
<1>3. ASSUME NEW local \in {"href", "sync-token"}
      PROVE  At(report_event(s, Start(local)), style, {local}, r)
  <2> DEFINE e == Start(local)
  <2>1. e.tag = "start" /\ e.local = local /\ e.xmlns = None /\ e.prefixes = NoPrefixes /\ local \in Flags
    BY <1>2 DEF Flags
  <2> HIDE DEF e
  <2>2. At(s, style, none, r)
    BY DEF none
  <2>3. At(report_event(s, e), style, none \cup {e.local}, r)
    <3> HIDE DEF r
    <3> QED
      BY <2>1, <2>2, FlagAt
  <2>4. none \cup {e.local} = {local}
    BY <2>1 DEF none
  <2> QED
    BY <2>3, <2>4 DEF e
<1>4. At(report_event(s, Start("sync-level")), style, {}, r)
  <2> DEFINE e == Start("sync-level")
  <2>1. e.tag = "start" /\ e.local = "sync-level" /\ e.xmlns = None /\ e.prefixes = NoPrefixes
    BY <1>2
  <2>2. e.local \notin DOMAIN Types \cup Flags /\ e.local # "time-range"
    BY <2>1 DEF Types, Flags
  <2> HIDE DEF e
  <2>3. At(s, style, none, r) /\ "prop" \notin none
    BY DEF none
  <2>4. At(report_event(s, e), style, none, r)
    <3> HIDE DEF r
    <3> QED
      BY <2>1, <2>2, <2>3, IgnoredAt
  <2> QED
    BY <2>4 DEF e, none
<1>5. At(Reports!Run(s, WithText("href", text)), style, {}, AReport(t, p, Append(h, text), a, b, k))
  <2> DEFINE s1 == report_event(s, Start("href"))
             in == {"href"}
  <2>1. At(s1, style, in, r) /\ "href" \in in /\ in \ {"href"} = {}
    BY <1>3
  <2> HIDE DEF s1, in
  <2>2. At(report_event(s1, Text(text)), style, in, AReport(t, p, Append(h, text), a, b, k))
    BY <2>1, ReportText
  <2> HIDE DEF r
  <2> QED
    BY <1>1, <2>1, <2>2 DEF s1
<1>6. At(Reports!Run(s, WithText("sync-token", text)), style, {}, AReport(t, p, h, a, b, text))
  <2> DEFINE s1 == report_event(s, Start("sync-token"))
             in == {"sync-token"}
  <2>1. At(s1, style, in, r) /\ "href" \notin in /\ "sync-token" \in in /\ in \ {"sync-token"} = {}
    BY <1>3
  <2> HIDE DEF s1, in
  <2>2. At(report_event(s1, Text(text)), style, in, AReport(t, p, h, a, b, text))
    BY <2>1, ReportText
  <2> HIDE DEF r
  <2> QED
    BY <1>1, <2>1, <2>2 DEF s1
<1>7. At(Reports!Run(s, WithText("sync-level", text)), style, {}, AReport(t, p, h, a, b, k))
  <2> DEFINE s1 == report_event(s, Start("sync-level"))
  <2>1. At(s1, style, none, r) /\ "href" \notin none /\ "sync-token" \notin none
        /\ none \ {"sync-level"} = {}
    BY <1>4 DEF none
  <2> HIDE DEF s1
  <2>2. At(report_event(s1, Text(text)), style, none, r)
    BY <2>1, ReportText
  <2> HIDE DEF r
  <2> QED
    BY <1>1, <2>1, <2>2 DEF s1, r
<1> QED
  BY <1>5, <1>6, <1>7

(* The elements of one href more.                                          *)
LEMMA HrefAdded ==
  ASSUME NEW start, NEW hrefs, NEW n \in Nat
  PROVE  Hrefs!States(start, hrefs)[n + 1]
         = add_href(Hrefs!States(start, hrefs)[n], hrefs[n + 1])
  BY Hrefs!StatesOf

(* The hrefs of a calendar-multiget.                                       *)
LEMMA HrefsAt ==
  ASSUME NEW style, NEW t, NEW p, NEW a, NEW b, NEW k, NEW s, NEW H, NEW hrefs \in Seq(H),
         At(s, style, {}, AReport(t, p, << >>, a, b, k))
  PROVE  LET A == {Start("href"), End("href")} \cup {Text(x) : x \in H} IN
         /\ Hrefs!Run(<< >>, hrefs) \in Seq(A)
         /\ At(Reports!Run(s, Hrefs!Run(<< >>, hrefs)), style, {}, AReport(t, p, hrefs, a, b, k))
<1>0. \A n \in Nat : Hrefs!States(<< >>, hrefs)[n + 1]
                      = add_href(Hrefs!States(<< >>, hrefs)[n], hrefs[n + 1])
  BY HrefAdded, Zenon
<1> DEFINE A == {Start("href"), End("href")} \cup {Text(x) : x \in H}
           B(n) == Hrefs!States(<< >>, hrefs)[n]
           S == {n \in Nat : n <= Len(hrefs) =>
                   /\ B(n) \in Seq(A)
                   /\ At(Reports!Run(s, B(n)), style, {}, AReport(t, p, SubSeq(hrefs, 1, n), a, b, k))}
<1>1. 0 \in S
  <2>1. B(0) = << >> /\ SubSeq(hrefs, 1, 0) = << >>
    BY Hrefs!StatesOf
  <2>2. Reports!Run(s, << >>) = s
    BY Reports!RunNothing
  <2>3. << >> \in Seq(A)
    OBVIOUS
  <2> HIDE DEF A, B
  <2>4. /\ B(0) \in Seq(A)
        /\ At(Reports!Run(s, B(0)), style, {}, AReport(t, p, SubSeq(hrefs, 1, 0), a, b, k))
    BY <2>1, <2>2, <2>3, Zenon
  <2> QED
    BY <2>4
<1>2. ASSUME NEW n \in Nat, n \in S PROVE n + 1 \in S
  <2> SUFFICES ASSUME n + 1 <= Len(hrefs)
               PROVE  /\ B(n + 1) \in Seq(A)
                      /\ At(Reports!Run(s, B(n + 1)), style, {},
                            AReport(t, p, SubSeq(hrefs, 1, n + 1), a, b, k))
    OBVIOUS
  <2> DEFINE x   == hrefs[n + 1]
             was == SubSeq(hrefs, 1, n)
             w   == WithText("href", x)
  <2>1. B(n) \in Seq(A) /\ At(Reports!Run(s, B(n)), style, {}, AReport(t, p, was, a, b, k))
    BY <1>2
  <2>2. x \in H /\ SubSeq(hrefs, 1, n + 1) = Append(was, x)
    OBVIOUS
  <2>3. B(n + 1) = B(n) \o w
    <3>1. B(n + 1) = add_href(B(n), x)
      BY <1>0, Zenon
    <3> HIDE DEF B
    <3> QED
      BY <3>1 DEF add_href
  <2> HIDE DEF B, was, x
  <2>4. w \in Seq(A)
    <3> DEFINE start == Start("href")
               mid == Text(x)
               end == End("href")
    <3>1. start \in A /\ mid \in A /\ end \in A
      BY <2>2
    <3> HIDE DEF start, mid, end, A
    <3>2. <<start, mid, end>> \in Seq(A)
      BY <3>1
    <3> QED
      BY <3>2 DEF WithText, start, mid, end
  <2> DEFINE s2 == Reports!Run(s, B(n))
  <2>5. At(s2, style, {}, AReport(t, p, was, a, b, k))
    BY <2>1
  <2> HIDE DEF A
  <2>6. Reports!Run(s, B(n) \o w) = Reports!Run(s2, w)
    <3> HIDE DEF w
    <3> QED
      BY <2>1, <2>4, Reports!RunConcat
  <2> HIDE DEF s2
  <2>7. At(Reports!Run(s2, w), style, {}, AReport(t, p, Append(was, x), a, b, k))
    BY <2>5, TextAt
  <2> HIDE DEF w
  <2>8. B(n) \o w \in Seq(A)
    BY <2>1, <2>4
  <2> QED
    BY <2>2, <2>3, <2>6, <2>7, <2>8, Zenon
<1> HIDE DEF S
<1>3. \A n \in Nat : n \in S
  BY <1>1, <1>2, Hrefs!Induction
<1>4. Len(hrefs) \in S /\ SubSeq(hrefs, 1, Len(hrefs)) = hrefs /\ Len(hrefs) \in Nat
  BY <1>3
<1>5. Hrefs!Run(<< >>, hrefs) = B(Len(hrefs))
  BY DEF Hrefs!Run
<1> HIDE DEF A, B
<1>6. /\ B(Len(hrefs)) \in Seq(A)
      /\ At(Reports!Run(s, B(Len(hrefs))), style, {},
            AReport(t, p, SubSeq(hrefs, 1, Len(hrefs)), a, b, k))
  BY <1>4 DEF S
<1> QED
  BY <1>4, <1>5, <1>6, Zenon DEF A


(* What parse_report makes of the end of the pass.                         *)
LEMMA ParseAt ==
  ASSUME NEW style, NEW in, NEW t, NEW p, NEW h, NEW a, NEW b, NEW k, NEW body,
         At(Reports!Run(InReport({}, NoPrefixes, NoReport), body), style, in, AReport(t, p, h, a, b, k))
  PROVE  /\ t = "multiget" => parse_report(body) = AReport("multiget", p, h, None, None, << >>)
         /\ t = "query" => parse_report(body) = time_range(AReport("query", p, << >>, a, b, << >>))
         /\ t = "sync" => parse_report(body) = AReport("sync", p, << >>, None, None, k)
<1> DEFINE end == Reports!Run(InReport({}, NoPrefixes, NoReport), body)
           r   == AReport(t, p, h, a, b, k)
<1>1. PICK map : end = InReport(in, map, r)
  BY DEF At
<1>2. ~ end.failed /\ end.report = r
  <2> HIDE DEF r, end
  <2> QED
    BY <1>1 DEF InReport
<1>3. r.type = t /\ r.props = p /\ r.hrefs = h /\ r.start = a /\ r.end = b /\ r.sync_token = k
  BY DEF AReport
<1>4. None \notin {"multiget", "query", "sync"}
  BY NoneAssumption
<1>5. parse_report(body) =
        IF end.failed \/ end.report.type = None THEN NoReport
        ELSE CASE end.report.type = "multiget" ->
                    AReport("multiget", end.report.props, end.report.hrefs, None, None, << >>)
               [] end.report.type = "query" ->
                    time_range(AReport("query", end.report.props, << >>, end.report.start,
                                       end.report.end, << >>))
               [] end.report.type = "sync" ->
                    AReport("sync", end.report.props, << >>, None, None, end.report.sync_token)
  BY DEF parse_report
<1> HIDE DEF end, r
<1>6. CASE t = "multiget"
  BY <1>2, <1>3, <1>4, <1>5, <1>6
<1>7. CASE t = "query"
  BY <1>2, <1>3, <1>4, <1>5, <1>7
<1>8. CASE t = "sync"
  BY <1>2, <1>3, <1>4, <1>5, <1>8
<1> QED
  BY <1>6, <1>7, <1>8

\* The events of a list of properties.
PropEvents(style, props) ==
    {Start("prop"), End("prop")} \cup {PropElement(style, props[i]) : i \in DOMAIN props}

(* They are a sequence.                                                    *)
LEMMA PropListSeq ==
  ASSUME NEW style, NEW P, NEW props \in Seq(P)
  PROVE  PropElements(style, props) \in Seq(PropEvents(style, props))
<1> DEFINE elements == [i \in DOMAIN props |-> PropElement(style, props[i])]
           start == Start("prop")
           end   == End("prop")
           first == <<start>>
           last  == <<end>>
           A     == PropEvents(style, props)
<1>1. start \in A /\ end \in A /\ \A i \in DOMAIN props : PropElement(style, props[i]) \in A
  BY DEF PropEvents
<1> HIDE DEF A, start, end
<1>2. elements \in Seq(A) /\ first \in Seq(A) /\ last \in Seq(A)
  BY <1>1
<1> HIDE DEF elements, first, last
<1>3. first \o elements \o last \in Seq(A)
  BY <1>2
<1> QED
  BY <1>3 DEF PropElements, elements, first, last, start, end, A

(* A calendar-multiget.                                                    *)
LEMMA ReadMultiget ==
  ASSUME NEW style \in Style, style.naming # "mixed", NEW props \in Seq(PlainNames),
         NEW H, NEW hrefs \in Seq(H)
  PROVE  LET asked == AReport("multiget", SetOf(props), hrefs, None, None, << >>) IN
         parse_report(WriteReport(asked, props, style)) = asked
<1> DEFINE asked == AReport("multiget", SetOf(props), hrefs, None, None, << >>)
           root  == RootElement(style, "calendar-multiget")
           end   == End("calendar-multiget")
           first == <<root>>
           list  == PropElements(style, props)
           names == Hrefs!Run(<< >>, hrefs)
           last  == <<end>>
           s0    == InReport({}, NoPrefixes, NoReport)
           s1    == Reports!Run(s0, first)
           s2    == Reports!Run(s1, list)
           s3    == Reports!Run(s2, names)
           s4    == Reports!Run(s3, last)
           none  == {}
           nil   == << >>
           E     == {Start("href"), End("href")} \cup {Text(x) : x \in H}
           A     == {root, end} \cup PropEvents(style, props) \cup E
           body  == first \o list \o names \o last
<1>1. WriteReport(asked, props, style) = body
  <2>1. asked.type = "multiget" /\ asked.hrefs = hrefs
    BY DEF AReport
  <2> HIDE DEF asked
  <2> QED
    BY <2>1 DEF WriteReport
<1>2. "calendar-multiget" \in DOMAIN Types /\ Types["calendar-multiget"] = "multiget"
  BY DEF Types
<1> HIDE DEF asked, none, nil
<1>3. At(s1, style, none, AReport("multiget", none, nil, None, None, nil))
  <2>1. s1 = report_event(s0, root)
    <3> HIDE DEF s0, root
    <3> QED
      BY Reports!RunFew
  <2>2. At(report_event(s0, root), style, {},
           AReport(Types["calendar-multiget"], {}, << >>, None, None, << >>))
    BY <1>2, RootAt
  <2> HIDE DEF s0, root, s1
  <2> QED
    BY <1>2, <2>1, <2>2 DEF none, nil
<1> HIDE DEF s1
<1>4. At(s2, style, none, AReport("multiget", SetOf(props), nil, None, None, nil))
  <2>1. "prop" \notin none /\ none \cup SetOf(props) = SetOf(props)
    BY DEF none
  <2>2. At(s2, style, none, AReport("multiget", none \cup SetOf(props), nil, None, None, nil))
    BY <1>3, <2>1, PropListAt
  <2> QED
    BY <2>1, <2>2
<1> HIDE DEF s2
<1>5. names \in Seq(E) /\ At(s3, style, none, AReport("multiget", SetOf(props), hrefs, None, None, nil))
  <2>1. At(s2, style, {}, AReport("multiget", SetOf(props), << >>, None, None, nil))
    BY <1>4 DEF none, nil
  <2> QED
    BY <2>1, HrefsAt DEF none
<1> HIDE DEF s3, names
<1>6. At(s4, style, none, AReport("multiget", SetOf(props), hrefs, None, None, nil))
  <2> DEFINE r == AReport("multiget", SetOf(props), hrefs, None, None, nil)
  <2> HIDE DEF r
  <2>1. At(report_event(s3, end), style, none \ {"calendar-multiget"}, r)
    BY <1>5, ReportEnd DEF r
  <2>2. none \ {"calendar-multiget"} = none
    BY DEF none
  <2> HIDE DEF end
  <2>3. s4 = report_event(s3, end)
    BY Reports!RunFew
  <2> HIDE DEF s4
  <2> QED
    BY <2>1, <2>2, <2>3 DEF r
<1>7. Reports!Run(s0, body) = s4
  <2>0. list \in Seq(PropEvents(style, props))
    BY PropListSeq
  <2> HIDE DEF root, end, E
  <2>1. first \in Seq(A) /\ last \in Seq(A)
    <3>1. root \in A /\ end \in A
      OBVIOUS
    <3> HIDE DEF A
    <3> QED
      BY <3>1
  <2>2. list \in Seq(A) /\ names \in Seq(A)
    <3> HIDE DEF list
    <3>1. PropEvents(style, props) \subseteq A /\ E \subseteq A
      OBVIOUS
    <3> HIDE DEF A
    <3> QED
      BY <1>5, <2>0, <3>1
  <2> HIDE DEF A, s0, first, list, last
  <2> QED
    BY <2>1, <2>2, Reports!RunPieces DEF s1, s2, s3
<1> HIDE DEF s4, body
<1>8. At(Reports!Run(InReport({}, NoPrefixes, NoReport), body), style, none,
         AReport("multiget", SetOf(props), hrefs, None, None, nil))
  BY <1>6, <1>7
<1>9. parse_report(body) = AReport("multiget", SetOf(props), hrefs, None, None, << >>)
  BY <1>8, ParseAt
<1> QED
  BY <1>1, <1>9 DEF asked


(* The filter of a calendar-query.                                         *)
LEMMA FilterAt ==
  ASSUME NEW style, NEW t, NEW p, NEW h, NEW k, NEW s, NEW start, NEW end,
         At(s, style, {}, AReport(t, p, h, None, None, k))
  PROVE  LET filter == <<Start("filter"), Start("comp-filter"), Start("comp-filter"),
                         [Empty("time-range") EXCEPT !.start = start, !.end = end],
                         End("comp-filter"), End("comp-filter")>>
         IN  At(Reports!Run(s, filter), style, {}, AReport(t, p, h, start, end, k))
<1> DEFINE none  == {}
           r     == AReport(t, p, h, None, None, k)
           q     == AReport(t, p, h, start, end, k)
           outer == Start("filter")
           inner == Start("comp-filter")
           range == [Empty("time-range") EXCEPT !.start = start, !.end = end]
           close == End("comp-filter")
           s1 == report_event(s, outer)
           s2 == report_event(s1, inner)
           s3 == report_event(s2, inner)
           s4 == report_event(s3, range)
           s5 == report_event(s4, close)
           s6 == report_event(s5, close)
<1>1. /\ outer.tag = "start" /\ outer.local = "filter"
      /\ outer.xmlns = None /\ outer.prefixes = NoPrefixes
      /\ inner.tag = "start" /\ inner.local = "comp-filter"
      /\ inner.xmlns = None /\ inner.prefixes = NoPrefixes
  BY DEF Start, Element
<1>2. /\ range.tag = "empty" /\ range.local = "time-range"
      /\ range.xmlns = None /\ range.prefixes = NoPrefixes
      /\ range.start = start /\ range.end = end
  BY DEF Empty, Element
<1>3. {"filter", "comp-filter"} \cap (DOMAIN Types \cup Flags) = {}
  BY DEF Types, Flags
<1>4. "prop" \notin none /\ none \ {"comp-filter"} = none /\ At(s, style, none, r)
  BY DEF none
<1>5. At(report_event(s5, End("comp-filter")), style, none \ {"comp-filter"}, q)
  <2> HIDE DEF outer, inner, range, none
  <2>1. At(s1, style, none, r)
    <3> HIDE DEF r
    <3>1. outer.local \notin DOMAIN Types \cup Flags /\ outer.local # "time-range"
      BY <1>1, <1>3
    <3> QED
      BY <1>1, <1>4, <3>1, IgnoredAt
  <2>2. inner.local \notin DOMAIN Types \cup Flags /\ inner.local # "time-range"
    BY <1>1, <1>3
  <2> HIDE DEF s1
  <2>3. At(s2, style, none, r)
    <3> HIDE DEF r
    <3> QED
      BY <1>1, <1>4, <2>1, <2>2, IgnoredAt
  <2> HIDE DEF s2
  <2>4. At(s3, style, none, r)
    <3> HIDE DEF r
    <3> QED
      BY <1>1, <1>4, <2>2, <2>3, IgnoredAt
  <2> HIDE DEF s3
  <2>5. At(s4, style, none, q)
    BY <1>2, <2>4, RangeAt
  <2> HIDE DEF s4, q
  <2>6. At(s5, style, none \ {"comp-filter"}, q)
    BY <2>5, ReportEnd
  <2> HIDE DEF s5
  <2> QED
    BY <1>4, <2>6, ReportEnd
<1> HIDE DEF s1, s2, s3, s4, s5, r, q, outer, inner, range
<1>6. At(s6, style, none, q)
  BY <1>4, <1>5
<1> HIDE DEF close, s6
<1>7. Reports!Run(s, <<outer, inner, inner, range, close, close>>) = s6
  BY Reports!RunSix DEF s1, s2, s3, s4, s5, s6
<1> QED
  BY <1>6, <1>7 DEF none, q, outer, inner, range, close

(* A calendar-query.                                                       *)
LEMMA ReadQuery ==
  ASSUME NEW style \in Style, style.naming # "mixed", NEW props \in Seq(PlainNames),
         NEW start, NEW end
  PROVE  LET asked == AReport("query", SetOf(props), << >>, start, end, << >>) IN
         parse_report(WriteReport(asked, props, style)) = time_range(asked)
<1> DEFINE asked  == AReport("query", SetOf(props), << >>, start, end, << >>)
           root   == RootElement(style, "calendar-query")
           first  == <<root>>
           list   == PropElements(style, props)
           range  == [Empty("time-range") EXCEPT !.start = start, !.end = end]
           filter == <<Start("filter"), Start("comp-filter"), Start("comp-filter"), range,
                       End("comp-filter"), End("comp-filter")>>
           last   == <<End("filter"), End("calendar-query")>>
           s0     == InReport({}, NoPrefixes, NoReport)
           s1     == Reports!Run(s0, first)
           s2     == Reports!Run(s1, list)
           s3     == Reports!Run(s2, filter)
           s4     == Reports!Run(s3, last)
           none   == {}
           nil    == << >>
           F      == {Start("filter"), Start("comp-filter"), range, End("comp-filter"), End("filter"),
                      End("calendar-query")}
           A      == {root} \cup PropEvents(style, props) \cup F
           body   == first \o list \o filter \o last
           r      == AReport("query", SetOf(props), nil, start, end, nil)
<1>1. WriteReport(asked, props, style) = body
  <2>1. asked.type = "query" /\ asked.start = start /\ asked.end = end
    BY DEF AReport
  <2> HIDE DEF asked
  <2> QED
    BY <2>1 DEF WriteReport
<1>2. "calendar-query" \in DOMAIN Types /\ Types["calendar-query"] = "query"
  BY DEF Types
<1> HIDE DEF asked, none, nil
<1>3. At(s1, style, none, AReport("query", none, nil, None, None, nil))
  <2>1. s1 = report_event(s0, root)
    <3> HIDE DEF s0, root
    <3> QED
      BY Reports!RunFew
  <2>2. At(report_event(s0, root), style, {},
           AReport(Types["calendar-query"], {}, << >>, None, None, << >>))
    BY <1>2, RootAt
  <2> HIDE DEF s0, root, s1
  <2> QED
    BY <1>2, <2>1, <2>2 DEF none, nil
<1> HIDE DEF s1
<1>4. At(s2, style, none, AReport("query", SetOf(props), nil, None, None, nil))
  <2>1. "prop" \notin none /\ none \cup SetOf(props) = SetOf(props)
    BY DEF none
  <2>2. At(s2, style, none, AReport("query", none \cup SetOf(props), nil, None, None, nil))
    BY <1>3, <2>1, PropListAt
  <2> QED
    BY <2>1, <2>2
<1> HIDE DEF s2
<1>5. At(s3, style, none, r)
  BY <1>4, FilterAt DEF none
<1> HIDE DEF s3, r
<1>6. At(s4, style, none, r)
  <2> DEFINE close == End("filter")
             end2  == End("calendar-query")
  <2>1. At(report_event(s3, close), style, none \ {"filter"}, r)
    BY <1>5, ReportEnd
  <2>2. none \ {"filter"} = none /\ none \ {"calendar-query"} = none
    BY DEF none
  <2> DEFINE t3 == report_event(s3, close)
  <2>3. At(t3, style, none, r)
    BY <2>1, <2>2
  <2> HIDE DEF t3
  <2>4. At(report_event(t3, end2), style, none \ {"calendar-query"}, r)
    BY <2>3, ReportEnd
  <2> HIDE DEF close, end2
  <2>5. Reports!Run(s3, <<close, end2>>) = report_event(t3, end2)
    BY Reports!RunFew DEF t3
  <2> QED
    BY <2>2, <2>4, <2>5 DEF close, end2
<1>7. Reports!Run(s0, body) = s4
  <2>0. list \in Seq(PropEvents(style, props))
    BY PropListSeq
  <2>1. filter \in Seq(F) /\ last \in Seq(F)
    <3> DEFINE e1 == Start("filter")
               e2 == Start("comp-filter")
               e3 == End("comp-filter")
               e4 == End("filter")
               e5 == End("calendar-query")
    <3>1. e1 \in F /\ e2 \in F /\ range \in F /\ e3 \in F /\ e4 \in F /\ e5 \in F
      OBVIOUS
    <3> HIDE DEF F, e1, e2, range, e3, e4, e5
    <3>2. <<e1, e2, e2, range, e3, e3>> \in Seq(F) /\ <<e4, e5>> \in Seq(F)
      BY <3>1
    <3> QED
      BY <3>2 DEF e1, e2, e3, e4, e5
  <2> HIDE DEF root, F
  <2>2. first \in Seq(A)
    <3>1. root \in A
      OBVIOUS
    <3> HIDE DEF A
    <3> QED
      BY <3>1
  <2>3. list \in Seq(A) /\ filter \in Seq(A) /\ last \in Seq(A)
    <3> HIDE DEF list, filter, last
    <3>1. PropEvents(style, props) \subseteq A /\ F \subseteq A
      OBVIOUS
    <3> HIDE DEF A
    <3> QED
      BY <2>0, <2>1, <3>1
  <2> HIDE DEF A, s0, first, list, filter, last
  <2> QED
    BY <2>2, <2>3, Reports!RunPieces DEF s1, s2, s3
<1> HIDE DEF s4, body
<1>8. At(Reports!Run(InReport({}, NoPrefixes, NoReport), body), style, none,
         AReport("query", SetOf(props), nil, start, end, nil))
  BY <1>6, <1>7 DEF r
<1>9. parse_report(body) = time_range(AReport("query", SetOf(props), << >>, start, end, << >>))
  BY <1>8, ParseAt
<1> QED
  BY <1>1, <1>9 DEF asked


(* The token of a sync-collection: only an empty one without an end tag    *)
(* leaves its flag set.                                                    *)
LEMMA TokenAt ==
  ASSUME NEW style, NEW t, NEW p, NEW h, NEW a, NEW b, NEW s, NEW token,
         At(s, style, {}, AReport(t, p, h, a, b, << >>))
  PROVE  LET in == IF token = << >> /\ style.closed THEN {"sync-token"} ELSE {} IN
         At(Reports!Run(s, TokenElement(token, style)), style, in, AReport(t, p, h, a, b, token))
<1> DEFINE none == {}
           nil  == << >>
           r    == AReport(t, p, h, a, b, nil)
<1>1. CASE token # << >>
  BY <1>1, TextAt DEF TokenElement
<1>2. ASSUME NEW e, e.tag \in {"start", "empty"}, e.xmlns = None, e.prefixes = NoPrefixes,
             e.local = "sync-token"
      PROVE  At(report_event(s, e), style, {"sync-token"}, r)
  <2>1. none \cup {e.local} = {"sync-token"} /\ e.local \in Flags /\ At(s, style, none, r)
    BY <1>2 DEF Flags
  <2> HIDE DEF none, r
  <2>2. At(report_event(s, e), style, none \cup {e.local}, r)
    BY <1>2, <2>1, FlagAt
  <2> QED
    BY <2>1, <2>2
<1>3. CASE token = << >> /\ style.closed
  <2> DEFINE e == Empty("sync-token")
  <2>1. e.tag = "empty" /\ e.local = "sync-token" /\ e.xmlns = None /\ e.prefixes = NoPrefixes
    BY DEF Empty, Element
  <2>2. TokenElement(token, style) = <<e>>
    BY <1>3 DEF TokenElement
  <2> HIDE DEF e, r
  <2>3. At(report_event(s, e), style, {"sync-token"}, r)
    BY <1>2, <2>1
  <2>4. Reports!Run(s, <<e>>) = report_event(s, e)
    BY Reports!RunFew
  <2> QED
    BY <1>3, <2>2, <2>3, <2>4 DEF r
<1>4. CASE token = << >> /\ ~ style.closed
  <2> DEFINE e == Start("sync-token")
             f == End("sync-token")
             s1 == report_event(s, e)
  <2>1. e.tag = "start" /\ e.local = "sync-token" /\ e.xmlns = None /\ e.prefixes = NoPrefixes
    BY DEF Start, Element
  <2>2. TokenElement(token, style) = <<e, f>>
    BY <1>4 DEF TokenElement
  <2> HIDE DEF e, r
  <2>3. At(s1, style, {"sync-token"}, r)
    BY <1>2, <2>1
  <2> HIDE DEF s1
  <2>4. At(report_event(s1, f), style, {"sync-token"} \ {"sync-token"}, r)
    <3> DEFINE on == {"sync-token"}
    <3> HIDE DEF on
    <3>1. At(report_event(s1, f), style, on \ {"sync-token"}, r)
      BY <2>3, ReportEnd DEF on
    <3> QED
      BY <3>1 DEF on
  <2>5. {"sync-token"} \ {"sync-token"} = {}
    OBVIOUS
  <2> HIDE DEF f
  <2>6. Reports!Run(s, <<e, f>>) = report_event(s1, f)
    BY Reports!RunFew DEF s1
  <2> QED
    BY <1>4, <2>2, <2>4, <2>5, <2>6 DEF r
<1> QED
  BY <1>1, <1>3, <1>4

(* A sync-collection, but for TokenLeftOpen.                               *)
LEMMA ReadSync ==
  ASSUME NEW style \in Style, style.naming # "mixed", NEW props \in Seq(PlainNames), NEW token,
         ~ (token = << >> /\ style.closed /\ style.level)
  PROVE  LET asked == AReport("sync", SetOf(props), << >>, None, None, token) IN
         parse_report(WriteReport(asked, props, style)) = asked
<1> DEFINE asked == AReport("sync", SetOf(props), << >>, None, None, token)
           root  == RootElement(style, "sync-collection")
           first == <<root>>
           mark  == TokenElement(token, style)
           level == IF style.level THEN WithText("sync-level", <<"1">>) ELSE << >>
           list  == PropElements(style, props)
           last  == <<End("sync-collection")>>
           s0    == InReport({}, NoPrefixes, NoReport)
           s1    == Reports!Run(s0, first)
           s2    == Reports!Run(s1, mark)
           s3    == Reports!Run(s2, level)
           s4    == Reports!Run(s3, list)
           s5    == Reports!Run(s4, last)
           none  == {}
           nil   == << >>
           on    == IF token = << >> /\ style.closed THEN {"sync-token"} ELSE {}
           T     == {Start("sync-token"), Text(token), End("sync-token"), Empty("sync-token")}
           L     == {Start("sync-level"), Text(<<"1">>), End("sync-level")}
           A     == {root, End("sync-collection")} \cup PropEvents(style, props) \cup T \cup L
           body  == first \o mark \o level \o list \o last
           r     == AReport("sync", SetOf(props), nil, None, None, token)
<1>1. WriteReport(asked, props, style) = body
  <2>1. asked.type = "sync" /\ asked.sync_token = token
    BY DEF AReport
  <2> HIDE DEF asked
  <2> QED
    BY <2>1 DEF WriteReport
<1>2. "sync-collection" \in DOMAIN Types /\ Types["sync-collection"] = "sync"
  BY DEF Types
<1> HIDE DEF asked, none, nil
<1>3. At(s1, style, none, AReport("sync", none, nil, None, None, nil))
  <2>1. s1 = report_event(s0, root)
    <3> HIDE DEF s0, root
    <3> QED
      BY Reports!RunFew
  <2>2. At(report_event(s0, root), style, {},
           AReport(Types["sync-collection"], {}, << >>, None, None, << >>))
    BY <1>2, RootAt
  <2> HIDE DEF s0, root, s1
  <2> QED
    BY <1>2, <2>1, <2>2 DEF none, nil
<1> HIDE DEF s1
<1>4. At(s2, style, on, AReport("sync", none, nil, None, None, token))
  <2>1. At(s1, style, {}, AReport("sync", none, nil, None, None, << >>))
    BY <1>3 DEF none, nil
  <2> QED
    BY <2>1, TokenAt
<1>5. "prop" \notin on /\ (style.level => on = {}) /\ none \cup SetOf(props) = SetOf(props)
  BY DEF none
<1> HIDE DEF s2, on
<1>6. At(s3, style, on, AReport("sync", none, nil, None, None, token))
  <2>1. CASE style.level
    <3> DEFINE one == <<"1">>
    <3> HIDE DEF one
    <3>1. At(s2, style, {}, AReport("sync", none, nil, None, None, token))
      BY <1>4, <1>5, <2>1
    <3>2. At(Reports!Run(s2, WithText("sync-level", one)), style, {},
             AReport("sync", none, nil, None, None, token))
      BY <3>1, TextAt
    <3> QED
      BY <1>5, <2>1, <3>2 DEF one
  <2>2. CASE ~ style.level
    <3>1. Reports!Run(s2, << >>) = s2
      BY Reports!RunNothing
    <3> QED
      BY <1>4, <2>2, <3>1
  <2> QED
    BY <2>1, <2>2
<1> HIDE DEF s3
<1>7. At(s4, style, on, AReport("sync", none \cup SetOf(props), nil, None, None, token))
  BY <1>5, <1>6, PropListAt
<1> HIDE DEF s4
<1>8. At(s5, style, on \ {"sync-collection"}, r)
  <2> DEFINE end == End("sync-collection")
  <2> HIDE DEF r
  <2>1. At(s4, style, on, r)
    BY <1>5, <1>7 DEF r
  <2>2. At(report_event(s4, end), style, on \ {"sync-collection"}, r)
    BY <2>1, ReportEnd
  <2> HIDE DEF end
  <2>3. Reports!Run(s4, <<end>>) = report_event(s4, end)
    BY Reports!RunFew
  <2> QED
    BY <2>2, <2>3 DEF end
<1>9. Reports!Run(s0, body) = s5
  <2>0. list \in Seq(PropEvents(style, props))
    BY PropListSeq
  <2>1. mark \in Seq(T)
    <3> DEFINE e1 == Start("sync-token")
               e2 == Text(token)
               e3 == End("sync-token")
               e4 == Empty("sync-token")
    <3>1. e1 \in T /\ e2 \in T /\ e3 \in T /\ e4 \in T
      OBVIOUS
    <3>2. mark \in {<<e1, e2, e3>>, <<e4>>, <<e1, e3>>}
      <4> HIDE DEF T
      <4> QED
        BY DEF TokenElement, WithText
    <3> HIDE DEF T, e1, e2, e3, e4, mark
    <3>3. <<e1, e2, e3>> \in Seq(T) /\ <<e4>> \in Seq(T) /\ <<e1, e3>> \in Seq(T)
      BY <3>1
    <3> QED
      BY <3>2, <3>3
  <2>2. level \in Seq(L)
    <3> DEFINE e1 == Start("sync-level")
               e2 == Text(<<"1">>)
               e3 == End("sync-level")
    <3>1. e1 \in L /\ e2 \in L /\ e3 \in L
      OBVIOUS
    <3>2. level \in {<<e1, e2, e3>>, << >>}
      <4> HIDE DEF L
      <4> QED
        BY DEF WithText
    <3> HIDE DEF L, e1, e2, e3, level
    <3>3. <<e1, e2, e3>> \in Seq(L) /\ << >> \in Seq(L)
      BY <3>1
    <3> QED
      BY <3>2, <3>3
  <2> DEFINE end == End("sync-collection")
  <2>3. first \in Seq(A) /\ last \in Seq(A)
    <3> HIDE DEF root, end, T, L
    <3>1. root \in A /\ end \in A
      BY DEF end
    <3> HIDE DEF A
    <3>2. first \in Seq(A) /\ <<end>> \in Seq(A)
      BY <3>1
    <3> QED
      BY <3>2 DEF end
  <2>4. list \in Seq(A) /\ mark \in Seq(A) /\ level \in Seq(A)
    <3> HIDE DEF list, mark, level, T, L, root
    <3>1. PropEvents(style, props) \subseteq A /\ T \subseteq A /\ L \subseteq A
      OBVIOUS
    <3> HIDE DEF A
    <3> QED
      BY <2>0, <2>1, <2>2, <3>1
  <2> DEFINE most == first \o mark \o level \o list
  <2> HIDE DEF A, s0, first, mark, level, list, last
  <2>5. most \in Seq(A)
    BY <2>3, <2>4
  <2>6. Reports!Run(s0, most) = s4
    BY <2>3, <2>4, Reports!RunPieces DEF s1, s2, s3, s4
  <2> HIDE DEF most
  <2>7. Reports!Run(s0, most \o last) = Reports!Run(s4, last)
    BY <2>3, <2>5, <2>6, Reports!RunConcat
  <2> QED
    BY <2>7 DEF most
<1> HIDE DEF s5, body
<1>10. At(Reports!Run(InReport({}, NoPrefixes, NoReport), body), style, on \ {"sync-collection"},
          AReport("sync", SetOf(props), nil, None, None, token))
  BY <1>8, <1>9 DEF r
<1>11. parse_report(body) = AReport("sync", SetOf(props), << >>, None, None, token)
  <2> DEFINE in == on \ {"sync-collection"}
  <2> HIDE DEF in
  <2>1. At(Reports!Run(InReport({}, NoPrefixes, NoReport), body), style, in,
           AReport("sync", SetOf(props), nil, None, None, token))
    BY <1>10 DEF in
  <2> QED
    BY <2>1, ParseAt
<1> QED
  BY <1>1, <1>11 DEF asked

(* What is no report.                                                      *)
LEMMA ReadUnknown ==
  /\ parse_report(<< >>) = NoReport
  /\ parse_report(<<Start("sync-collection"), [Start("") EXCEPT !.tag = "error"]>>) = NoReport
  /\ parse_report(<<Start("principal-search"), End("principal-search")>>) = NoReport
<1> DEFINE s0 == InReport({}, NoPrefixes, NoReport)
           e  == [Start("") EXCEPT !.tag = "error"]
           f  == Start("sync-collection")
           g  == Start("principal-search")
           h  == End("principal-search")
<1>0. ASSUME NEW body,
             \/ Reports!Run(s0, body).failed
             \/ Reports!Run(s0, body).report.type = None
      PROVE  parse_report(body) = NoReport
  <2> HIDE DEF s0
  <2> QED
    BY <1>0 DEF parse_report, s0
<1>1. parse_report(<< >>) = NoReport
  <2>1. Reports!Run(s0, << >>) = s0
    BY Reports!RunNothing
  <2>2. s0.report = NoReport /\ NoReport.type = None
    BY DEF InReport, NoReport, AReport
  <2> QED
    BY <1>0, <2>1, <2>2

<1>2. parse_report(<<f, e>>) = NoReport
  <2> DEFINE s1 == report_event(s0, f)
  <2>1. Reports!Run(s0, <<f, e>>) = report_event(s1, e)
    <3> HIDE DEF s0, e, f
    <3> QED
      BY Reports!RunFew DEF s1
  <2>2. f.tag = "start" /\ e.tag = "error"
    BY DEF Start, Element
  <2>3. \E in, map, r : s1 = InReport(in, map, r)
    <3> DEFINE none == {}
               nil  == NoReport
    <3> HIDE DEF f, none, nil
    <3>1. report_event(InReport(none, NoPrefixes, nil), f)
            = InReport(none \cup ({f.local} \cap Flags), register(NoPrefixes, f),
                       report_open(none, register(NoPrefixes, f), nil, f))
      BY <2>2, ReportElement
    <3> QED
      BY <3>1 DEF none, nil
  <2>4. s1.failed = FALSE
    <3> HIDE DEF s1
    <3> QED
      BY <2>3 DEF InReport
  <2> HIDE DEF s0, e, f, s1
  <2>5. report_event(s1, e) = [s1 EXCEPT !.failed = TRUE]
    BY <2>2, <2>4 DEF report_event
  <2>6. [s1 EXCEPT !.failed = TRUE].failed
    BY <2>3 DEF InReport
  <2> QED
    BY <1>0, <2>1, <2>5, <2>6
<1>3. parse_report(<<g, h>>) = NoReport
  <2> DEFINE none == {}
             s1   == report_event(s0, g)
             s2   == report_event(s1, h)
             style == [naming |-> "mixed"]
  <2>1. g.tag = "start" /\ g.local = "principal-search" /\ g.xmlns = None /\ g.prefixes = NoPrefixes
    BY DEF Start, Element
  <2>2. g.local \notin DOMAIN Types \cup Flags /\ g.local # "time-range"
    BY <2>1 DEF Types, Flags
  <2>3. At(s0, style, none, NoReport) /\ "prop" \notin none
    BY DEF At, Keeps
  <2> HIDE DEF none, g, s0, style
  <2>4. At(s1, style, none, NoReport)
    BY <2>1, <2>2, <2>3, IgnoredAt
  <2> HIDE DEF s1
  <2>5. At(s2, style, none \ {"principal-search"}, NoReport)
    BY <2>4, ReportEnd
  <2> HIDE DEF h
  <2>6. Reports!Run(s0, <<g, h>>) = s2
    BY Reports!RunFew DEF s1
  <2>7. s2.report.type = None
    <3> HIDE DEF s2
    <3>1. s2.report = NoReport
      BY <2>5 DEF At, InReport
    <3> QED
      BY <3>1 DEF NoReport, AReport
  <2> HIDE DEF s2
  <2> QED
    BY <1>0, <2>6, <2>7
<1> QED
  BY <1>1, <1>2, <1>3

----------------------------------------------------------------------------
(* PROPFIND *)

\* The pass of parse_propfind, with the properties so far.
PropfindAt(s, style, in, props) ==
    \E map : Keeps(style, map) /\ s = InPropfind(None, in, map, props)

(* The start of an element, or one without content.                        *)
LEMMA PropfindElement ==
  ASSUME NEW in, NEW map, NEW props, NEW e, e.tag \in {"start", "empty"}, NEW next,
         next = register(map, e)
  PROVE  propfind_event(InPropfind(None, in, map, props), e) =
           CASE e.local = "allprop"  -> InPropfind(AllProp, in, next, props)
             [] e.local = "propname" -> InPropfind(PropName, in, next, props)
             [] e.local = "prop"     -> InPropfind(None, {"prop"}, next, props)
             [] OTHER -> InPropfind(None, in, next,
                                    IF in = {} THEN props
                                    ELSE props \cup {Prop(resolve(next, e), e.local)})
<1> DEFINE s == InPropfind(None, in, map, props)
<1>1. s.result = None /\ s.in = in /\ s.map = map /\ s.props = props
  BY DEF InPropfind
<1> HIDE DEF s
<1>2. propfind_event(s, e) =
        CASE e.local = "allprop"  -> InPropfind(AllProp, s.in, register(s.map, e), s.props)
          [] e.local = "propname" -> InPropfind(PropName, s.in, register(s.map, e), s.props)
          [] e.local = "prop"     -> InPropfind(None, {"prop"}, register(s.map, e), s.props)
          [] OTHER -> InPropfind(None, s.in, register(s.map, e),
                                 IF s.in = {} THEN s.props
                                 ELSE s.props \cup {Prop(resolve(register(s.map, e), e), e.local)})
  BY <1>1, SMTT(60) DEF propfind_event
<1> QED
  BY <1>1, <1>2 DEF s

(* One that is no request and no prop: a property, if it is in a prop.     *)
LEMMA PropfindOther ==
  ASSUME NEW in, NEW map, NEW props, NEW e, e.tag \in {"start", "empty"},
         e.local \notin {"allprop", "propname", "prop"}
  PROVE  propfind_event(InPropfind(None, in, map, props), e)
           = InPropfind(None, in, register(map, e),
                        IF in = {} THEN props
                        ELSE props \cup {Prop(resolve(register(map, e), e), e.local)})
<1> DEFINE next == register(map, e)
<1>1. next = register(map, e)
  OBVIOUS
<1> HIDE DEF next
<1>2. propfind_event(InPropfind(None, in, map, props), e)
        = InPropfind(None, in, next,
                     IF in = {} THEN props ELSE props \cup {Prop(resolve(next, e), e.local)})
  BY <1>1, PropfindElement
<1> QED
  BY <1>1, <1>2

(* Such a property.                                                        *)
LEMMA PropfindProperty ==
  ASSUME NEW style, NEW in, in # {}, NEW map, NEW props, NEW e, e.tag \in {"start", "empty"},
         e.local \notin {"allprop", "propname", "prop"}, Keeps(style, register(map, e)),
         NEW q, Prop(resolve(register(map, e), e), e.local) = q
  PROVE  PropfindAt(propfind_event(InPropfind(None, in, map, props), e), style, in, props \cup {q})
<1>1. propfind_event(InPropfind(None, in, map, props), e)
        = InPropfind(None, in, register(map, e),
                     IF in = {} THEN props
                     ELSE props \cup {Prop(resolve(register(map, e), e), e.local)})
  BY PropfindOther
<1> QED
  BY <1>1 DEF PropfindAt

(* The elements that stand for a request.                                  *)
LEMMA PropfindKind ==
  ASSUME NEW style, NEW in, NEW props, NEW s, PropfindAt(s, style, in, props)
  PROVE  /\ propfind_event(s, Empty("allprop")).result = AllProp
         /\ propfind_event(s, Empty("propname")).result = PropName
         /\ PropfindAt(propfind_event(s, Start("prop")), style, {"prop"}, props)
<1>1. PICK map : Keeps(style, map) /\ s = InPropfind(None, in, map, props)
  BY DEF PropfindAt
<1>2. ASSUME NEW e, e.tag \in {"start", "empty"}, NEW next, next = register(map, e)
      PROVE  /\ e.local = "allprop"  => propfind_event(s, e) = InPropfind(AllProp, in, next, props)
             /\ e.local = "propname" => propfind_event(s, e) = InPropfind(PropName, in, next, props)
             /\ e.local = "prop"     => propfind_event(s, e) = InPropfind(None, {"prop"}, next, props)
  <2>1. propfind_event(s, e) =
           CASE e.local = "allprop"  -> InPropfind(AllProp, in, next, props)
             [] e.local = "propname" -> InPropfind(PropName, in, next, props)
             [] e.local = "prop"     -> InPropfind(None, {"prop"}, next, props)
             [] OTHER -> InPropfind(None, in, next,
                                    IF in = {} THEN props
                                    ELSE props \cup {Prop(resolve(next, e), e.local)})
    BY <1>1, <1>2, PropfindElement
  <2> QED
    BY <2>1
<1>3. propfind_event(s, Empty("allprop")).result = AllProp
  <2> DEFINE e == Empty("allprop")
  <2>1. e.tag = "empty" /\ e.local = "allprop"
    BY DEF Empty, Element
  <2> HIDE DEF e
  <2>2. propfind_event(s, e) = InPropfind(AllProp, in, register(map, e), props)
    BY <1>2, <2>1
  <2> QED
    BY <2>2 DEF InPropfind, e
<1>4. propfind_event(s, Empty("propname")).result = PropName
  <2> DEFINE e == Empty("propname")
  <2>1. e.tag = "empty" /\ e.local = "propname"
    BY DEF Empty, Element
  <2> HIDE DEF e
  <2>2. propfind_event(s, e) = InPropfind(PropName, in, register(map, e), props)
    BY <1>2, <2>1
  <2> QED
    BY <2>2 DEF InPropfind, e
<1>5. PropfindAt(propfind_event(s, Start("prop")), style, {"prop"}, props)
  <2> DEFINE e == Start("prop")
  <2>1. e.tag = "start" /\ e.local = "prop" /\ e.xmlns = None /\ e.prefixes = NoPrefixes
    BY DEF Start, Element
  <2> HIDE DEF e
  <2>2. propfind_event(s, e) = InPropfind(None, {"prop"}, register(map, e), props)
    BY <1>2, <2>1
  <2>3. Keeps(style, register(map, e))
    BY <1>1, <2>1, PlainKeeps
  <2> QED
    BY <2>2, <2>3 DEF PropfindAt, e
<1> QED
  BY <1>3, <1>4, <1>5

(* The end of an element.                                                  *)
LEMMA PropfindEnd ==
  ASSUME NEW style, NEW in, NEW props, NEW s, PropfindAt(s, style, in, props), NEW local
  PROVE  PropfindAt(propfind_event(s, End(local)), style, in \ {local}, props)
<1>1. PICK map : Keeps(style, map) /\ s = InPropfind(None, in, map, props)
  BY DEF PropfindAt
<1>2. propfind_event(s, End(local)) = InPropfind(None, in \ {local}, map, props)
  BY <1>1, SMTT(60) DEF propfind_event, InPropfind, End, Element
<1> QED
  BY <1>1, <1>2 DEF PropfindAt

(* Once there is a result, nothing changes it.                             *)
LEMMA PropfindDone ==
  ASSUME NEW s, s.result # None, NEW e
  PROVE  propfind_event(s, e) = s
BY SMTT(60) DEF propfind_event

(* The root.                                                               *)
LEMMA PropfindRoot ==
  ASSUME NEW style
  PROVE  PropfindAt(propfind_event(InPropfind(None, {}, NoPrefixes, {}), RootElement(style, "propfind")),
                    style, {}, {})
<1> DEFINE e    == RootElement(style, "propfind")
           none == {}
           next == register(NoPrefixes, e)
<1>1. e.tag = "start" /\ e.local = "propfind" /\ Keeps(style, next)
  BY RootKeeps
<1> HIDE DEF e
<1>2. propfind_event(InPropfind(None, none, NoPrefixes, none), e)
        = InPropfind(None, none, next,
                     IF none = {} THEN none ELSE none \cup {Prop(resolve(next, e), e.local)})
  <2> HIDE DEF none
  <2> QED
    BY <1>1, PropfindOther
<1> HIDE DEF next
<1>3. propfind_event(InPropfind(None, {}, NoPrefixes, {}), e) = InPropfind(None, {}, next, {})
  BY <1>2
<1> QED
  BY <1>1, <1>3 DEF PropfindAt, e


(* A list of properties.                                                   *)
LEMMA PropfindProps ==
  ASSUME NEW style \in Style, style.naming # "mixed", NEW props \in Seq(PropNames), NEW s,
         PropfindAt(s, style, {"prop"}, {})
  PROVE  PropfindAt(Propfind!Run(s, [i \in DOMAIN props |-> PropElement(style, props[i])]), style,
                    {"prop"}, SetOf(props))
<1> DEFINE elements == [i \in DOMAIN props |-> PropElement(style, props[i])]
           in      == {"prop"}
           R(n)    == Propfind!States(s, elements)[n]
           Some(n) == {props[i] : i \in 1 .. n}
           S == {n \in Nat : n <= Len(props) => PropfindAt(R(n), style, in, Some(n))}
<1>0. /\ Len(elements) = Len(props)
      /\ \A i \in 1 .. Len(props) : elements[i] = PropElement(style, props[i])
      /\ in # {} /\ PropfindAt(s, style, in, {})
  OBVIOUS
<1> HIDE DEF elements, in
<1>1. 0 \in S
  <2>1. Some(0) = {}
    OBVIOUS
  <2>2. R(0) = s
    BY Propfind!StatesOf
  <2> HIDE DEF R, Some
  <2> QED
    BY <1>0, <2>1, <2>2
<1>2. ASSUME NEW n \in Nat, n \in S PROVE n + 1 \in S
  <2> SUFFICES ASSUME n + 1 <= Len(props) PROVE PropfindAt(R(n + 1), style, in, Some(n + 1))
    OBVIOUS
  <2> DEFINE q   == props[n + 1]
             e   == PropElement(style, q)
             was == Some(n)
  <2>1. PropfindAt(R(n), style, in, was)
    BY <1>2
  <2>2. R(n + 1) = propfind_event(R(n), e)
    <3>1. elements[n + 1] = e
      BY <1>0
    <3>2. R(n + 1) = propfind_event(R(n), elements[n + 1])
      BY Propfind!StatesOf
    <3> QED
      BY <3>1, <3>2
  <2>3. q \in PropNames /\ was \cup {q} = Some(n + 1)
    OBVIOUS
  <2> HIDE DEF R, was, Some
  <2>4. PICK map : Keeps(style, map) /\ R(n) = InPropfind(None, in, map, was)
    BY <2>1 DEF PropfindAt
  <2> HIDE DEF q
  <2>5. /\ e.tag = "empty" /\ e.local = q.local
        /\ Prop(resolve(register(map, e), e), e.local) = q
        /\ Keeps(style, register(map, e))
    BY <2>3, <2>4, PropResolves
  <2>6. q.local \notin {"allprop", "propname", "prop"}
    BY <2>3 DEF PropNames
  <2> HIDE DEF e
  <2>7. e.tag \in {"start", "empty"} /\ e.local \notin {"allprop", "propname", "prop"}
    BY <2>5, <2>6
  <2>8. PropfindAt(propfind_event(InPropfind(None, in, map, was), e), style, in, was \cup {q})
    BY <1>0, <2>5, <2>7, PropfindProperty
  <2> QED
    BY <2>2, <2>3, <2>4, <2>8
<1> HIDE DEF S
<1>3. \A n \in Nat : n \in S
  BY <1>1, <1>2, Propfind!Induction
<1>4. Len(props) \in S /\ Some(Len(props)) = SetOf(props)
  BY <1>3 DEF SetOf
<1>5. Propfind!Run(s, elements) = R(Len(props))
  BY <1>0 DEF Propfind!Run
<1> HIDE DEF R, Some
<1>6. PropfindAt(Propfind!Run(s, elements), style, in, SetOf(props))
  BY <1>4, <1>5 DEF S
<1> QED
  BY <1>6 DEF elements, in

(* A PROPFIND that names properties.                                       *)
LEMMA ReadProps ==
  ASSUME NEW style \in Style, style.naming # "mixed", NEW props \in Seq(PropNames), props # << >>
  PROVE  parse_propfind(WritePropfind("prop", props, style)) = Props(SetOf(props))
<1> DEFINE root     == RootElement(style, "propfind")
           start    == Start("prop")
           end      == End("prop")
           close    == End("propfind")
           elements == [i \in DOMAIN props |-> PropElement(style, props[i])]
           first    == <<root>>
           list     == PropElements(style, props)
           last     == <<close>>
           body     == first \o list \o last
           s0 == InPropfind(None, {}, NoPrefixes, {})
           s1 == propfind_event(s0, root)
           s2 == propfind_event(s1, start)
           s3 == Propfind!Run(s2, elements)
           s4 == propfind_event(s3, end)
           s5 == propfind_event(s4, close)
           A  == {root, close} \cup PropEvents(style, props)
<1>1. WritePropfind("prop", props, style) = body
  BY DEF WritePropfind
<1>2. PropfindAt(s1, style, {}, {})
  BY PropfindRoot
<1>3. PropfindAt(s5, style, ({"prop"} \ {"prop"}) \ {"propfind"}, SetOf(props))
  <2> HIDE DEF s1
  <2>1. PropfindAt(s2, style, {"prop"}, {})
    <3> DEFINE none == {}
    <3> HIDE DEF none
    <3>1. PropfindAt(s1, style, none, none)
      BY <1>2 DEF none
    <3>2. PropfindAt(s2, style, {"prop"}, none)
      BY <3>1, PropfindKind
    <3> QED
      BY <3>2 DEF none
  <2> HIDE DEF s2
  <2>2. PropfindAt(s3, style, {"prop"}, SetOf(props))
    BY <2>1, PropfindProps
  <2> DEFINE on  == {"prop"}
             off == on \ {"prop"}
  <2> HIDE DEF s3, on
  <2>3. PropfindAt(s4, style, off, SetOf(props))
    BY <2>2, PropfindEnd DEF on
  <2> HIDE DEF s4, off
  <2>4. PropfindAt(s5, style, off \ {"propfind"}, SetOf(props))
    BY <2>3, PropfindEnd
  <2> QED
    BY <2>4 DEF on, off
<1>4. Propfind!Run(s0, body) = s5
  <2>0. list \in Seq(PropEvents(style, props))
    BY PropListSeq
  <2>1. Propfind!Run(s1, list) = s4
    <3> DEFINE B    == PropEvents(style, props)
               head == <<start>>
               tail == <<end>>
    <3>1. start \in B /\ end \in B /\ \A i \in DOMAIN props : PropElement(style, props[i]) \in B
      BY DEF PropEvents
    <3> HIDE DEF B, start, end, s1
    <3>2. elements \in Seq(B) /\ head \in Seq(B) /\ tail \in Seq(B)
      BY <3>1
    <3>3. Propfind!Run(s1, head) = s2 /\ Propfind!Run(s3, tail) = s4
      <4> HIDE DEF s3
      <4> QED
        BY Propfind!RunFew
    <3> HIDE DEF head, tail, elements, s2, s4
    <3>4. Propfind!Run(s1, head \o elements \o tail) = s4
      BY <3>2, <3>3, Propfind!RunPieces DEF s3
    <3> QED
      BY <3>4 DEF PropElements, head, tail, elements, start, end
  <2> HIDE DEF root, close, list
  <2>2. first \in Seq(A) /\ list \in Seq(A) /\ last \in Seq(A)
    <3>1. root \in A /\ close \in A /\ PropEvents(style, props) \subseteq A
      OBVIOUS
    <3> HIDE DEF A
    <3> QED
      BY <2>0, <3>1
  <2>3. Propfind!Run(s0, first) = s1 /\ Propfind!Run(s4, last) = s5
    <3> HIDE DEF s0, s4
    <3> QED
      BY Propfind!RunFew
  <2> HIDE DEF A, s0, s1, s4, s5, first, last
  <2> QED
    BY <2>1, <2>2, <2>3, Propfind!RunPieces
<1>5. s5.result = None /\ s5.props = SetOf(props)
  <2> HIDE DEF s5
  <2> QED
    BY <1>3 DEF PropfindAt, InPropfind
<1>6. SetOf(props) # {}
  <2>1. 1 \in DOMAIN props
    OBVIOUS
  <2> QED
    BY <2>1 DEF SetOf
<1> HIDE DEF s5, body
<1> QED
  BY <1>1, <1>4, <1>5, <1>6 DEF parse_propfind

(* A PROPFIND for everything, written or not, and one for the names.       *)
LEMMA ReadAll ==
  ASSUME NEW style \in Style, NEW props
  PROVE  /\ parse_propfind(WritePropfind("allprop", props, style)) = AllProp
         /\ parse_propfind(WritePropfind("propname", props, style)) = PropName
<1> DEFINE s0    == InPropfind(None, {}, NoPrefixes, {})
           root  == RootElement(style, "propfind")
           close == End("propfind")
           s1    == propfind_event(s0, root)
<1>0. PropfindAt(s1, style, {}, {})
  BY PropfindRoot
<1>1. None \notin {AllProp, PropName}
  BY NoneAssumption
<1>2. ASSUME NEW e, NEW request, propfind_event(s1, e).result = request, request # None
      PROVE  parse_propfind(<<root, e, close>>) = request
  <2> DEFINE s2 == propfind_event(s1, e)
  <2> HIDE DEF root, close
  <2>1. Propfind!Run(s0, <<root, e, close>>) = propfind_event(s2, close)
    <3> HIDE DEF s0
    <3> QED
      BY Propfind!RunFew
  <2> HIDE DEF s1
  <2>2. s2.result = request
    BY <1>2
  <2> HIDE DEF s2
  <2>3. propfind_event(s2, close) = s2
    BY <1>2, <2>2, PropfindDone
  <2> QED
    BY <1>2, <2>1, <2>2, <2>3 DEF parse_propfind
<1>3. parse_propfind(WritePropfind("propname", props, style)) = PropName
  <2> HIDE DEF s1
  <2>1. propfind_event(s1, Empty("propname")).result = PropName
    BY <1>0, PropfindKind
  <2>2. parse_propfind(<<root, Empty("propname"), close>>) = PropName
    BY <1>1, <1>2, <2>1
  <2> QED
    BY <2>2 DEF WritePropfind
<1>4. parse_propfind(<< >>) = AllProp
  <2>1. Propfind!Run(s0, << >>) = s0
    BY Propfind!RunNothing
  <2>2. s0.result = None /\ s0.props = {}
    BY DEF InPropfind
  <2> HIDE DEF s0
  <2> QED
    BY <2>1, <2>2 DEF parse_propfind, s0
<1>5. parse_propfind(WritePropfind("allprop", props, style)) = AllProp
  <2> HIDE DEF s1
  <2>1. propfind_event(s1, Empty("allprop")).result = AllProp
    BY <1>0, PropfindKind
  <2>2. parse_propfind(<<root, Empty("allprop"), close>>) = AllProp
    BY <1>1, <1>2, <2>1
  <2> QED
    BY <1>4, <2>2 DEF WritePropfind
<1> QED
  BY <1>3, <1>5

----------------------------------------------------------------------------
(* The requests *)

(* What the reports of SendReport are read as.                             *)
LEMMA SentUnderstood ==
  /\ PlainStyle \in Style /\ PlainStyle.naming # "mixed"
  /\ \A sent \in Multigets :
        sent.asked.type = "multiget" /\ sent.got = time_range(sent.asked)
  /\ \A sent \in Queries :
        /\ sent.got = time_range(sent.asked)
        /\ \E range \in Ranges :
              sent.asked = AReport("query", {}, << >>, range[1], range[2], << >>)
  /\ \A sent \in Syncs :
        /\ sent.asked.type = "sync"
        /\ sent.style \in Style
        /\ \/ sent.got = time_range(sent.asked)
           \/ sent.style.naming = "mixed"
           \/ \E p \in sent.asked.props : p.local \in ReportNames
           \/ sent.asked.sync_token = << >> /\ sent.style.closed /\ sent.style.level
<1>1. PlainStyle \in Style /\ PlainStyle.naming # "mixed"
  BY DEF PlainStyle, Style, Naming
<1> HIDE DEF PlainStyle
<1> DEFINE nil  == << >>
           none == {}
<1>2. nil \in Seq(PlainNames) /\ SetOf(nil) = none
  BY DEF SetOf
<1>3. ASSUME NEW t, NEW p, NEW h, NEW k
      PROVE  time_range(AReport(t, p, h, None, None, k)) = AReport(t, p, h, None, None, k)
  BY DEF time_range, AReport
<1>4. ASSUME NEW asked, NEW props, NEW style
      PROVE  /\ Sent(asked, props, style).asked = asked
             /\ Sent(asked, props, style).style = style
             /\ Sent(asked, props, style).got = parse_report(WriteReport(asked, props, style))
  BY DEF Sent
<1>5. ASSUME NEW t, NEW p, NEW h, NEW a, NEW b, NEW k
      PROVE  AReport(t, p, h, a, b, k).type = t /\ AReport(t, p, h, a, b, k).sync_token = k
  BY DEF AReport
<1> HIDE DEF nil, none
<1>6. ASSUME NEW H, NEW hrefs \in Seq(H), NEW sent,
             sent = Sent(AReport("multiget", none, hrefs, None, None, nil), nil, PlainStyle)
      PROVE  sent.asked.type = "multiget" /\ sent.got = time_range(sent.asked)
  <2> DEFINE asked == AReport("multiget", SetOf(nil), hrefs, None, None, << >>)
  <2>1. parse_report(WriteReport(asked, nil, PlainStyle)) = asked
    BY <1>1, <1>2, ReadMultiget
  <2>2. sent = Sent(asked, nil, PlainStyle)
    BY <1>2, <1>6 DEF nil
  <2>3. time_range(asked) = asked /\ asked.type = "multiget"
    BY <1>3, <1>5
  <2> HIDE DEF asked
  <2> QED
    BY <1>4, <2>1, <2>2, <2>3
<1>7. ASSUME NEW sent \in Multigets
      PROVE  sent.asked.type = "multiget" /\ sent.got = time_range(sent.asked)
  <2>1. \E H, hrefs : /\ hrefs \in Seq(H)
                      /\ sent = Sent(AReport("multiget", {}, hrefs, None, None, << >>), << >>, PlainStyle)
    <3> DEFINE W(u) == Written(u, TRUE)
               V(v) == Written(v, FALSE)
               One  == {<<W(u)>> : u \in AllUids}
               Two  == {<<W(u), V(v)>> : u, v \in Uids}
               As(h) == Sent(AReport("multiget", {}, h, None, None, << >>), << >>, PlainStyle)
    <3>1. Multigets = {As(h) : h \in One \cup Two}
      BY DEF Multigets
    <3> HIDE DEF W, V, As
    <3>2. PICK h \in One \cup Two : sent = As(h)
      <4> HIDE DEF One, Two
      <4> QED
        BY <3>1
    <3>3. CASE h \in One
      <4>1. PICK u : h = <<W(u)>>
        BY <3>3
      <4>2. h \in Seq({W(u)})
        BY <4>1
      <4> QED
        BY <3>2, <4>2 DEF As
    <3>4. CASE h \in Two
      <4>1. PICK u, v : h = <<W(u), V(v)>>
        BY <3>4
      <4>2. h \in Seq({W(u), V(v)})
        BY <4>1
      <4> QED
        BY <3>2, <4>2 DEF As
    <3> QED
      BY <3>2, <3>3, <3>4
  <2> QED
    BY <1>6, <2>1 DEF none, nil
<1>8. ASSUME NEW sent \in Queries
      PROVE  /\ sent.got = time_range(sent.asked)
             /\ \E range \in Ranges :
                   sent.asked = AReport("query", {}, << >>, range[1], range[2], << >>)
  <2>1. PICK range \in Ranges :
          sent = Sent(AReport("query", none, nil, range[1], range[2], nil), nil, PlainStyle)
    BY DEF Queries, none, nil
  <2> DEFINE a == range[1]
             b == range[2]
             asked == AReport("query", SetOf(nil), << >>, a, b, << >>)
  <2> HIDE DEF a, b
  <2>2. parse_report(WriteReport(asked, nil, PlainStyle)) = time_range(asked)
    BY <1>1, <1>2, ReadQuery
  <2>3. sent = Sent(asked, nil, PlainStyle)
    BY <1>2, <2>1 DEF a, b, nil
  <2>4. asked = AReport("query", {}, << >>, range[1], range[2], << >>)
    BY <1>2 DEF a, b, none
  <2> HIDE DEF asked
  <2> QED
    BY <1>4, <2>2, <2>3, <2>4
<1>9. ASSUME NEW sent \in Syncs
      PROVE  /\ sent.asked.type = "sync"
             /\ sent.style \in Style
             /\ \/ sent.got = time_range(sent.asked)
                \/ sent.style.naming = "mixed"
                \/ \E p \in sent.asked.props : p.local \in ReportNames
                \/ sent.asked.sync_token = << >> /\ sent.style.closed /\ sent.style.level
  <2>1. PICK props \in PropLists, token \in {<< >>, <<"t">>}, style \in Style :
          sent = Sent(AReport("sync", SetOf(props), << >>, None, None, token), props, style)
    BY DEF Syncs
  <2> DEFINE asked == AReport("sync", SetOf(props), << >>, None, None, token)
  <2>2. \/ props \in Seq(PlainNames)
        \/ \E p \in SetOf(props) : p.local \in ReportNames
    <3>1. props \in Seq(PropNames)
      BY ContentsAssumptions
    <3>2. ASSUME \A p \in SetOf(props) : p.local \notin ReportNames
          PROVE  props \in Seq(PlainNames)
      <4>1. \A i \in 1 .. Len(props) : props[i] \in PlainNames
        BY <3>1, <3>2 DEF PlainNames, SetOf
      <4> QED
        BY <3>1, <4>1
    <3> QED
      BY <3>2
  <2>3. \/ parse_report(WriteReport(asked, props, style)) = asked
        \/ style.naming = "mixed"
        \/ \E p \in SetOf(props) : p.local \in ReportNames
        \/ token = << >> /\ style.closed /\ style.level
    BY <2>2, ReadSync
  <2>4. /\ time_range(asked) = asked /\ asked.type = "sync" /\ asked.sync_token = token
        /\ asked.props = SetOf(props)
    BY <1>3, <1>5 DEF AReport
  <2> HIDE DEF asked
  <2> QED
    BY <1>4, <2>1, <2>3, <2>4 DEF asked
<1> QED
  BY <1>1, <1>7, <1>8, <1>9

(* RequestUnderstood: whatever prefixes and default namespaces a client    *)
(* declares and however it writes empty elements, parse_propfind and       *)
(* parse_report read back what the client meant, for every list of         *)
(* properties, hrefs and range; only the requests of TokenLeftOpen,        *)
(* DefaultOverridden and NameTaken are misread.  A body that is no report  *)
(* is refused.                                                             *)
THEOREM RequestsUnderstood == ContentsSpec => []RequestUnderstood
<1>1. ContentsInit => RequestUnderstood
  BY DEF ContentsInit, NoExchange, Exchange, RequestUnderstood
<1>2. RequestUnderstood /\ [ContentsNext]_contentsVars => RequestUnderstood'
  <2> SUFFICES ASSUME RequestUnderstood, [ContentsNext]_contentsVars PROVE RequestUnderstood'
    OBVIOUS
  <2>0. ASSUME exchange'.kind \notin {"REPORT", "PROPFIND", "unknown"} PROVE RequestUnderstood'
    BY <2>0 DEF RequestUnderstood
  <2>1. CASE SendPut
    BY <2>0, <2>1 DEF SendPut, Put, Exchange
  <2>2. CASE CreateEvent
    BY <2>0, <2>2 DEF CreateEvent, Build, Exchange
  <2>3. CASE \E uid \in AllUids : UpdateEvent(uid)
    BY <2>0, <2>3 DEF UpdateEvent, Build, Exchange
  <2>4. CASE \E named \in AllUids : Delete(named)
    BY <2>0, <2>4 DEF Delete, Exchange
  <2>5. CASE SendReport
    <3>1. PICK sent \in Multigets \cup Queries \cup Syncs : Report(sent)
      BY <2>5 DEF SendReport
    <3>2. /\ exchange'.kind = "REPORT" /\ exchange'.asked = sent.asked /\ exchange'.got = sent.got
          /\ exchange'.style = sent.style
      BY <3>1 DEF Report, Exchange
    <3>3. \/ sent.got = time_range(sent.asked)
          \/ sent.style.naming = "mixed"
          \/ \E p \in sent.asked.props : p.local \in ReportNames
          \/ /\ sent.asked.type = "sync" /\ sent.asked.sync_token = << >>
             /\ sent.style.closed /\ sent.style.level
      BY <3>1, SentUnderstood
    <3> QED
      BY <3>2, <3>3 DEF RequestUnderstood, TokenLeftOpen, DefaultOverridden, NameTaken
  <2>6. CASE SendPropfind
    <3>1. PICK kind \in {"allprop", "propname", "prop"}, props \in PropLists, style \in Style :
            exchange' = Exchange("PROPFIND",
                                 CASE kind = "allprop" -> AllProp
                                   [] kind = "propname" -> PropName
                                   [] kind = "prop" -> Props(SetOf(props)),
                                 parse_propfind(WritePropfind(kind, props, style)), style, {})
      BY <2>6 DEF SendPropfind
    <3> DEFINE asked == CASE kind = "allprop" -> AllProp
                          [] kind = "propname" -> PropName
                          [] kind = "prop" -> Props(SetOf(props))
               got   == parse_propfind(WritePropfind(kind, props, style))
    <3>2. style.naming # "mixed" => got = asked
      <4>1. props \in Seq(PropNames) /\ props # << >>
        BY ContentsAssumptions
      <4>2. CASE kind = "allprop"
        BY <4>2, ReadAll
      <4>3. CASE kind = "propname"
        BY <4>3, ReadAll
      <4>4. CASE kind = "prop"
        BY <4>1, <4>4, ReadProps
      <4> QED
        BY <4>2, <4>3, <4>4
    <3> HIDE DEF asked, got
    <3>3. exchange' = Exchange("PROPFIND", asked, got, style, {})
      BY <3>1 DEF asked, got
    <3>4. /\ exchange'.kind = "PROPFIND" /\ exchange'.asked = asked /\ exchange'.got = got
          /\ exchange'.style = style
      BY <3>3 DEF Exchange
    <3> QED
      BY <3>2, <3>4 DEF RequestUnderstood, DefaultOverridden
  <2>7. CASE SendUnknown
    <3>1. PICK got : exchange' = Exchange("unknown", None, got, None, {}) /\ got = NoReport
      BY <2>7, ReadUnknown DEF SendUnknown
    <3>2. exchange'.kind = "unknown" /\ exchange'.got = NoReport
      BY <3>1 DEF Exchange
    <3> QED
      BY <3>2 DEF RequestUnderstood
  <2>8. CASE Conclude
    BY <2>0, <2>8 DEF Conclude, NoExchange, Exchange
  <2>9. CASE UNCHANGED contentsVars
    BY <2>9 DEF contentsVars, RequestUnderstood, TokenLeftOpen, DefaultOverridden, NameTaken
  <2> QED
    BY <2>1, <2>2, <2>3, <2>4, <2>5, <2>6, <2>7, <2>8, <2>9 DEF ContentsNext
<1> QED
  BY <1>1, <1>2, PTL DEF ContentsSpec

----------------------------------------------------------------------------
(* Time ranges *)

(* The order of strings and the order in time.                             *)
LEMMA BeforeInUtc ==
  ASSUME NEW s \in AnyTime, Utc(s), NEW t \in AnyTime, t.z = 1
  PROVE  /\ Instant(s) < Instant(t) => Before(s, t)
         /\ Before(s, t) => Instant(s) <= Instant(t) /\ (Instant(s) = Instant(t) => s.hour = -1)
         /\ Instant(t) < Instant(s) => Before(t, s)
         /\ Before(t, s) => Instant(t) < Instant(s)
<1>1. /\ s.day \in Int /\ s.hour \in -1 .. 23 /\ s.z \in {0, 1} /\ (s.hour = -1 => s.z = 0)
      /\ t.day \in Int /\ t.hour \in 0 .. 23 /\ t.z = 1
      /\ (s.z = 1 \/ s.hour = -1)
  BY DEF AnyTime, Utc
<1>2. CASE s.hour = -1
  BY <1>1, <1>2 DEF Before, Instant
<1>3. CASE s.hour # -1
  <2>1. s.hour \in 0 .. 23 /\ s.z = 1
    BY <1>1, <1>3
  <2>2. ASSUME NEW d \in Int, NEW e \in Int, NEW h \in 0 .. 23, NEW i \in 0 .. 23
        PROVE  24 * d + h < 24 * e + i <=> d < e \/ (d = e /\ h < i)
    OBVIOUS
  <2>3. Instant(s) = 24 * s.day + s.hour /\ Instant(t) = 24 * t.day + t.hour
    BY <1>1, <1>3 DEF Instant
  <2>4. Instant(s) \in Int /\ Instant(t) \in Int
    BY <1>1, <2>1, <2>3
  <2>5. /\ Before(s, t) <=> s.day < t.day \/ (s.day = t.day /\ s.hour < t.hour)
        /\ Before(t, s) <=> t.day < s.day \/ (t.day = s.day /\ t.hour < s.hour)
    BY <1>1, <2>1 DEF Before
  <2>6. (Before(s, t) <=> Instant(s) < Instant(t)) /\ (Before(t, s) <=> Instant(t) < Instant(s))
    <3> DEFINE d == s.day
               e == t.day
               h == s.hour
               i == t.hour
    <3>1. d \in Int /\ e \in Int /\ h \in 0 .. 23 /\ i \in 0 .. 23
      BY <1>1, <2>1
    <3> HIDE DEF d, e, h, i
    <3>2. /\ 24 * d + h < 24 * e + i <=> d < e \/ (d = e /\ h < i)
          /\ 24 * e + i < 24 * d + h <=> e < d \/ (e = d /\ i < h)
      BY <2>2, <3>1
    <3> QED
      BY <2>3, <2>5, <3>2 DEF d, e, h, i
  <2> QED
    BY <2>4, <2>6
<1> QED
  BY <1>2, <1>3

(* RangeExactInUtc: a calendar-query with a time range in UTC returns the  *)
(* objects that overlap it, whatever the columns hold besides, and half a  *)
(* range returns everything.                                               *)
THEOREM RangesExact == ContentsSpec => []RangeExactInUtc
<1>1. ContentsInit => RangeExactInUtc
  BY DEF ContentsInit, NoExchange, Exchange, RangeExactInUtc
<1>2. RangeExactInUtc /\ [ContentsNext]_contentsVars => RangeExactInUtc'
  <2> SUFFICES ASSUME RangeExactInUtc, [ContentsNext]_contentsVars PROVE RangeExactInUtc'
    OBVIOUS
  <2>0. ASSUME exchange'.kind # "REPORT" PROVE RangeExactInUtc'
    BY <2>0 DEF RangeExactInUtc
  <2>1. CASE SendPut
    BY <2>0, <2>1 DEF SendPut, Put, Exchange
  <2>2. CASE CreateEvent
    BY <2>0, <2>2 DEF CreateEvent, Build, Exchange
  <2>3. CASE \E uid \in AllUids : UpdateEvent(uid)
    BY <2>0, <2>3 DEF UpdateEvent, Build, Exchange
  <2>4. CASE \E named \in AllUids : Delete(named)
    BY <2>0, <2>4 DEF Delete, Exchange
  <2>5. CASE SendReport
    <3>1. PICK sent \in Multigets \cup Queries \cup Syncs : Report(sent)
      BY <2>5 DEF SendReport
    <3>2. /\ exchange'.kind = "REPORT" /\ exchange'.asked = sent.asked
          /\ exchange'.uids = Answered(sent.got) /\ rows' = rows
      BY <3>1 DEF Report, Exchange
    <3>3. CASE sent.asked.type # "query"
      BY <3>2, <3>3 DEF RangeExactInUtc
    <3>4. CASE sent.asked.type = "query"
      <4> DEFINE r == sent.asked
                 g == sent.got
                 all == r.start = None \/ r.end = None
      <4>1. sent \in Queries
        BY <3>1, <3>4, SentUnderstood
      <4>2. PICK range \in Ranges : r = AReport("query", {}, << >>, range[1], range[2], << >>)
        BY <4>1, SentUnderstood
      <4>3. r.start = range[1] /\ r.end = range[2]
        BY <4>2 DEF AReport
      <4>4. /\ g.type = "query" /\ (all => g.start = None)
            /\ (~ all => g.start = r.start /\ g.end = r.end)
        <5>1. g = time_range(r)
          BY <4>1, SentUnderstood
        <5> QED
          BY <3>4, <5>1 DEF time_range, AReport
      <4>5. exchange'.uids = Select(g.start, g.end)
        <5> HIDE DEF g
        <5> QED
          BY <3>2, <4>4 DEF Answered, g
      <4>6. ASSUME NEW u \in Stored
            PROVE  LET f == rows[u].fields IN
                   /\ all => u \in exchange'.uids
                   /\ ~ all /\ Utc(f.dtstart) /\ Utc(f.dtend) =>
                        /\ Instant(f.dtstart) < Instant(r.end) /\ Instant(r.start) < Instant(f.dtend)
                               => u \in exchange'.uids
                        /\ u \in exchange'.uids =>
                               /\ Instant(r.start) < Instant(f.dtend)
                               /\ Instant(f.dtstart) <= Instant(r.end)
                               /\ Instant(f.dtstart) = Instant(r.end) => f.dtstart.hour = -1
        <5> DEFINE f == rows[u].fields
                   s == f.dtstart
                   e == f.dtend
                   a == r.start
                   b == r.end
        <5>1. CASE all
          BY <4>4, <4>5, <5>1 DEF Select
        <5>2. CASE ~ all /\ Utc(s) /\ Utc(e)
          <6>1. a \in AnyTime /\ a.z = 1 /\ b \in AnyTime /\ b.z = 1
            BY <4>3, <5>2, RangeAssumption
          <6>2. s \in AnyTime /\ e \in AnyTime /\ s # None /\ e # None
            BY <5>2, NoneAssumption DEF Utc
          <6>3. u \in exchange'.uids <=> Before(s, b) /\ Before(a, e)
            BY <4>4, <4>5, <5>2, <6>2 DEF Select, in_range
          <6> HIDE DEF s, e, a, b
          <6>4. /\ Instant(s) < Instant(b) => Before(s, b)
                /\ Before(s, b) => Instant(s) <= Instant(b) /\ (Instant(s) = Instant(b) => s.hour = -1)
            BY <5>2, <6>1, <6>2, BeforeInUtc
          <6>5. Instant(a) < Instant(e) <=> Before(a, e)
            BY <5>2, <6>1, <6>2, BeforeInUtc
          <6> HIDE DEF f, all, r
          <6>6. /\ Instant(s) < Instant(b) /\ Instant(a) < Instant(e) => u \in exchange'.uids
                /\ u \in exchange'.uids =>
                      /\ Instant(a) < Instant(e)
                      /\ Instant(s) <= Instant(b)
                      /\ Instant(s) = Instant(b) => s.hour = -1
            BY <6>3, <6>4, <6>5, Zenon
          <6> QED
            BY <5>2, <6>6 DEF f, s, e, a, b
        <5> QED
          BY <5>1, <5>2
      <4>7. Stored' = Stored
        BY <3>2 DEF Stored
      <4> HIDE DEF g
      <4> QED
        BY <3>2, <4>6, <4>7 DEF RangeExactInUtc
    <3> QED
      BY <3>3, <3>4
  <2>6. CASE SendPropfind
    BY <2>0, <2>6 DEF SendPropfind, Exchange
  <2>7. CASE SendUnknown
    <3>1. PICK got : exchange' = Exchange("unknown", None, got, None, {})
      BY <2>7 DEF SendUnknown
    <3> QED
      BY <2>0, <3>1 DEF Exchange
  <2>8. CASE Conclude
    BY <2>0, <2>8 DEF Conclude, NoExchange, Exchange
  <2>9. CASE UNCHANGED contentsVars
    BY <2>9 DEF contentsVars, RangeExactInUtc, Stored
  <2> QED
    BY <2>1, <2>2, <2>3, <2>4, <2>5, <2>6, <2>7, <2>8, <2>9 DEF ContentsNext
<1> QED
  BY <1>1, <1>2, PTL DEF ContentsSpec

=============================================================================
