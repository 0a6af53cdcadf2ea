---------------------------- MODULE Conversions -----------------------------
(***************************************************************************)
(* Two conversions of the gui that compute something: a colour of the      *)
(* settings into components (hex2rgba() of gui/xcore.c), and a number of   *)
(* kilobytes into a short text (fmt_memory() of widgets/util.c).           *)
(*                                                                         *)
(* A colour is a sequence of characters: a hexit is its value, Pound is    *)
(* '#', Other a letter that is part of no number ('x', signs and blanks,   *)
(* to which sscanf() gives a meaning, are left out).                       *)
(***************************************************************************)
EXTENDS Integers, Sequences

CONSTANTS Colours,   \* the colours, and the numbers of kilobytes, that are converted
          Sizes

Pound  == 16
Other  == 17
Hexits == 0..15

INT_MAX == 2147483647

\* A number of kilobytes is an int that is not negative.
ASSUME ConversionsAssumption ==
  /\ Colours \subseteq Seq(Hexits \cup {Pound, Other})
  /\ \A kbytes \in Sizes : kbytes \in Nat /\ kbytes <= INT_MAX

Malformed == [r |-> -1, g |-> -1, b |-> -1, a |-> -1]   \* errx()

\* Mutant: the alpha of a colour without one is opaque on the long scale only.
Rgba_Alpha255(fields, number, scale) ==
  LET value(k) == (number[k] * 255) \div scale
  IN  [r |-> value(1), g |-> value(2), b |-> value(3),
       a |-> (255 * (IF fields = 4 THEN number[4] ELSE 255)) \div scale]

\* The components in units of 1/255, of the numbers read on a scale of 15 or 255.
Rgba(fields, number, scale) ==
  LET value(k) == (number[k] * 255) \div scale
  IN  [r |-> value(1), g |-> value(2), b |-> value(3),
       a |-> IF fields = 4 THEN value(4) ELSE 255]

\* sscanf() reads a field of two characters up to the first that is no hexit; the field
\* after it then has nothing to begin with, unless there is none.
hex2rgba(s) ==
  LET body   == IF s # <<>> /\ s[1] = Pound THEN Tail(s) ELSE s
      width  == IF Len(body) \in {3, 4} THEN 1 ELSE 2
      fields == Len(body) \div width
      number == [k \in 1..fields |->
                   IF width = 1 THEN body[k]
                   ELSE IF body[2 * k] \in Hexits THEN 16 * body[2 * k - 1] + body[2 * k]
                   ELSE body[2 * k - 1]]
  IN  IF /\ Len(body) \in {3, 4, 6, 8}
         /\ \A k \in 1..(Len(body) - IF width = 2 THEN 1 ELSE 0) : body[k] \in Hexits
      THEN Rgba(fields, number, IF width = 1 THEN 15 ELSE 255)
      ELSE Malformed

-----------------------------------------------------------------------------

suffixes == <<"k", "M", "G", "T", "P">>

\* Mutant: the loop stops while two are left.
Goes_Early(kbytes, step) == kbytes \div 1024 > 1 /\ step < Len(suffixes)

\* The condition of the loop of fmt_memory().
Goes(kbytes, step) == kbytes \div 1024 > 0 /\ step < Len(suffixes)

\* What the loop leaves of kbytes after each step.
Left(kbytes) ==
  LET left[step \in 0..Len(suffixes)] ==
        IF step = 0 THEN kbytes ELSE left[step - 1] \div 1024
  IN  left

\* The number that is shown, rounded down, and its suffix.  The loop divides kbytes
\* while something is left of it; dbytes is the last quotient.
fmt_memory(kbytes) ==
  LET left  == Left(kbytes)
      steps == IF 1024 < kbytes
               THEN CHOOSE n \in 0..Len(suffixes) :
                      ~Goes(left[n], n) /\ \A m \in 0..(n - 1) : Goes(left[m], m)
               ELSE 0
  IN  [number |-> left[steps], step |-> steps]

-----------------------------------------------------------------------------
(* What they should give                                                   *)

OfHexits(s) == \A k \in 1..Len(s) : s[k] \in Hexits

\* What two hexits say, most significant first.
Two(s, k) == 16 * s[2 * k - 1] + s[2 * k]

\* Each hexit twice.
Doubled(s) == [k \in 1..(2 * Len(s)) |-> s[(k + 1) \div 2]]

\* What xcore.h:83-92 says of a colour.
Exact(s) ==
  /\ Other \in {s[k] : k \in 1..(Len(s) - IF Len(s) > 4 THEN 1 ELSE 0)} => hex2rgba(s) = Malformed
  /\ OfHexits(s) =>
       LET rgba == hex2rgba(s)
       IN  /\ hex2rgba(<<Pound>> \o s) = rgba
           /\ (rgba = Malformed) <=> Len(s) \notin {3, 4, 6, 8}
           /\ Len(s) \in {3, 4} => rgba = hex2rgba(Doubled(s))
           /\ Len(s) \in {3, 6} => rgba.a = 255
           /\ Len(s) \in {6, 8} => rgba.r = Two(s, 1) /\ rgba.g = Two(s, 2) /\ rgba.b = Two(s, 3)
           /\ Len(s) = 8 => rgba.a = Two(s, 4)

\* The kilobytes of each suffix that an int of them reaches.
Unit == <<1, 1024, 1048576, 1073741824>>

\* What is shown of a number of kilobytes is that many of its suffix, which there is.
Right(kbytes) ==
  LET size == fmt_memory(kbytes) IN
  /\ size.step < Len(suffixes)
  /\ size.step + 1 \in DOMAIN Unit
  /\ size.number = kbytes \div Unit[size.step + 1]
  /\ size.number <= 1024
  /\ size.step > 0 => size.number > 0
=============================================================================
