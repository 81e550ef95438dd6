---------------------------- MODULE PrintNumber ----------------------------
(***************************************************************************)
(* How the HAL prints without the C library: the format and the            *)
(* conversions of alt_log_private_printf(), with sign, base, field width   *)
(* and leading zeros, and of alt_printf().  All arithmetic is that of      *)
(* words.  A character is the value of its digit, or one of those below;   *)
(* whether hexadecimal digits are capitals is left out.  A field width is  *)
(* not cut to an int: no format has a longer one.                          *)
(***************************************************************************)
EXTENDS Integers, Sequences

CONSTANTS
    HEX_DIGITS,     \* 8, the hexadecimal digits of a word
    Values,         \* numbers to print
    Formats         \* sequences of characters

Minus == -1
Space == -2
Percent == -3
Dot == -4
Ell == -5
Dee == -6
You == -7
Oh == -8
Ex == -9
Cee == -10
Ess == -11
Other == -12

Power(base) == LET power[n \in Nat] == IF n = 0 THEN 1 ELSE base * power[n - 1] IN power

NUMBER == Power(16)[HEX_DIGITS]     \* the values of a word

ASSUME PrintAssumption == /\ HEX_DIGITS \in Nat \ {0}
                          /\ Values \subseteq 0..NUMBER - 1
                          /\ Formats \subseteq Seq(Other..9)

VARIABLES
    printer,        \* "alt_log_private_printf" or "alt_printf"
    format, w,      \* the format and the place of the next character in it
    state,          \* "chars", "first", "other", or a number is being printed:
                    \* "start", "count", "shift", "digits"; "idle" between calls
    fmt,            \* [base, signed, leadingZero, before, after] of the directive
    v, p,           \* what is left of the number, the place of the next digit
    vShrink, digitCount,    \* for the count of digits
    value,          \* the argument
    printed, from   \* the characters sent, and how many before the number

print_vars == <<printer, format, w, state, fmt, v, p, vShrink, digitCount,
                value, printed, from>>

digit_vars == <<v, p, vShrink, digitCount>>

\* What a percent sign sets.
NoFmt == [base |-> 10, signed |-> TRUE, leadingZero |-> FALSE, before |-> -1, after |-> -1]

PrintInit ==
    /\ printer = "none" /\ format = <<>> /\ w = 1
    /\ state = "idle"
    /\ fmt = NoFmt
    /\ v = 0 /\ p = 0 /\ vShrink = 0 /\ digitCount = 0 /\ value = 0
    /\ printed = <<>> /\ from = 0

CallPrintf ==
    /\ state = "idle"
    /\ printer' \in {"alt_log_private_printf", "alt_printf"}
    /\ format' \in Formats
    /\ value' \in Values
    /\ state' = "chars"
    /\ UNCHANGED <<w, fmt, digit_vars, printed, from>>

\* The next character is taken.
Takes(at, c) == /\ state = at /\ w <= Len(format) /\ c = format[w]
                /\ w' = w + 1
                /\ UNCHANGED <<printer, format, value, digit_vars, from>>

Sends(text) == printed' = printed \o text

Repeat(c, r) == [k \in 1..r |-> c]    \* none when r is negative

OtherChar == \E c \in Other..9 :
    /\ Takes("chars", c) /\ c # Percent
    /\ Sends(<<c>>)
    /\ UNCHANGED <<state, fmt>>

PercentKeepsWidth ==                  \* slip: the width is not reset
    /\ Takes("chars", Percent)
    /\ state' = "first"
    /\ fmt' = [NoFmt EXCEPT !.before = fmt.before]
    /\ UNCHANGED printed

PercentChar ==
    /\ Takes("chars", Percent)
    /\ state' = "first"
    /\ fmt' = NoFmt
    /\ UNCHANGED printed

PercentAgain ==
    /\ Takes("first", Percent)
    /\ Sends(<<Percent>>)
    /\ state' = "chars"
    /\ UNCHANGED fmt

FirstZero ==
    /\ printer = "alt_log_private_printf"
    /\ Takes("first", 0)
    /\ fmt' = [fmt EXCEPT !.leadingZero = TRUE]
    /\ state' = "other"
    /\ UNCHANGED printed

\* Any other character right after the percent sign, and all later ones;
\* alt_printf looks at one.
Directive(c) ==
    \/ Takes("first", c) /\ c \notin {0, Percent}
    \/ Takes("other", c)
    \/ printer = "alt_printf" /\ Takes("first", c) /\ c # Percent

Flag == \E c \in {Dot, Ell} \union 0..9 :
    /\ printer = "alt_log_private_printf"
    /\ Directive(c)
    /\ fmt' = CASE c = Dot -> [fmt EXCEPT !.after = 0]
                [] c = Ell -> fmt
                [] c >= 0 /\ fmt.after < 0 ->
                     [fmt EXCEPT !.before = (IF @ < 0 THEN 0 ELSE @ * 10) + c]
                [] OTHER -> [fmt EXCEPT !.after = @ * 10 + c]
    /\ state' = "other"
    /\ UNCHANGED printed

Number == \E c \in {Dee, You, Oh, Ex} :
    /\ Directive(c)
    /\ printer = "alt_printf" => c = Ex
    /\ fmt' = [fmt EXCEPT !.signed = (c = Dee),
                          !.base = CASE c = Oh -> 8 [] c = Ex -> 16 [] OTHER -> 10]
    /\ state' = "start"
    /\ UNCHANGED printed

\* %c and %s, here with a text of one and of two characters.
Text == \E c \in {Cee, Ess} :
    LET text == Repeat(Other, IF c = Ess THEN 2 ELSE 1) IN
    /\ Directive(c)
    /\ Sends((IF printer = "alt_printf" THEN <<>>
              ELSE Repeat(Space, fmt.before - Len(text))) \o text)
    /\ state' = "chars"
    /\ UNCHANGED fmt

\* No conversion: the directive prints nothing and takes no argument.
Unknown == \E c \in Other..9 :
    /\ Directive(c)
    /\ c \notin {Cee, Ess, Ex}
    /\ printer = "alt_log_private_printf" => c \notin {Dee, You, Oh, Dot, Ell} \union 0..9
    /\ state' = "chars"
    /\ UNCHANGED <<fmt, printed>>

PrintfReturns ==
    /\ state \in {"chars", "first", "other"} /\ w > Len(format)
    /\ printer' = "none" /\ format' = <<>> /\ w' = 1
    /\ state' = "idle"
    /\ fmt' = NoFmt
    /\ v' = 0 /\ p' = 0 /\ vShrink' = 0 /\ digitCount' = 0 /\ value' = 0
    /\ printed' = <<>> /\ from' = 0

-----------------------------------------------------------------------------
SignBit(n) == n >= NUMBER \div 2
Negated(n) == (NUMBER - n) % NUMBER

Sign == fmt.signed /\ SignBit(value)
Shown == IF Sign THEN Negated(value) ELSE value

\* doIntegerPrint, up to the loop that counts digits.
StartNumber ==
    /\ state = "start" /\ printer = "alt_log_private_printf"
    /\ v' = Shown
    /\ vShrink' = Shown
    /\ p' = 1
    /\ digitCount' = 1
    /\ state' = "count"
    /\ UNCHANGED <<printer, format, w, fmt, value, printed, from>>

\* The loop shrinks the number before it looks whether anything is left.
CountDigit ==
    /\ state = "count" /\ vShrink \div fmt.base > 0
    /\ vShrink' = vShrink \div fmt.base
    /\ digitCount' = digitCount + 1
    /\ p' = p * fmt.base
    /\ UNCHANGED <<printer, format, w, state, fmt, v, value, printed, from>>

\* Zeros stand between sign and digits, spaces before the sign.
Leading(sign, zero, pad) ==
    CASE sign /\ zero   -> <<Minus>> \o Repeat(0, pad)
      [] sign /\ ~ zero -> Repeat(Space, pad) \o <<Minus>>
      [] OTHER          -> Repeat(IF zero THEN 0 ELSE Space, pad)

LeadDigits ==
    LET pad == fmt.before - digitCount - (IF Sign THEN 1 ELSE 0) IN
    /\ state = "count" /\ vShrink \div fmt.base = 0
    /\ vShrink' = 0
    /\ fmt' = [fmt EXCEPT !.before = pad]
    /\ Sends(Leading(Sign, fmt.leadingZero, pad))
    /\ from' = Len(printed)
    /\ state' = "digits"
    /\ UNCHANGED <<printer, format, w, v, p, digitCount, value>>

\* The loop stops when the place is past the last digit.
PrintDigit ==
    /\ state = "digits" /\ p > 0 /\ printer = "alt_log_private_printf"
    /\ Sends(<<v \div p>>)
    /\ v' = v % p
    /\ p' = p \div fmt.base
    /\ UNCHANGED <<printer, format, w, state, fmt, vShrink, digitCount, value, from>>

\* %x of alt_printf: p is the place that digit_shift points to, 0 when it is
\* negative.  The number zero is printed at once.
HexDigit == (v \div p) % 16

StartHex ==
    /\ state = "start" /\ printer = "alt_printf"
    /\ v' = value
    /\ from' = Len(printed)
    /\ IF value = 0
       THEN p' = 0 /\ Sends(<<0>>) /\ state' = "digits"
       ELSE p' = NUMBER \div 16 /\ state' = "shift" /\ UNCHANGED printed
    /\ UNCHANGED <<printer, format, w, fmt, vShrink, digitCount, value>>

FindDigit ==
    /\ state = "shift"
    /\ IF HexDigit = 0
       THEN p' = p \div 16 /\ UNCHANGED state
       ELSE state' = "digits" /\ UNCHANGED p
    /\ UNCHANGED <<printer, format, w, fmt, v, vShrink, digitCount, value, printed, from>>

PrintHexDigit ==
    /\ state = "digits" /\ p > 0 /\ printer = "alt_printf"
    /\ Sends(<<HexDigit>>)
    /\ p' = p \div 16
    /\ UNCHANGED <<printer, format, w, state, fmt, v, vShrink, digitCount, value, from>>

NumberEnds ==
    /\ state = "digits" /\ p = 0
    /\ state' = "chars"
    /\ UNCHANGED <<printer, format, w, fmt, digit_vars, value, printed, from>>

PrintNext == CallPrintf \/ OtherChar \/ PercentChar \/ PercentAgain \/ FirstZero \/ Flag
               \/ Number \/ Text \/ Unknown \/ PrintfReturns
               \/ StartNumber \/ CountDigit \/ LeadDigits \/ PrintDigit
               \/ StartHex \/ FindDigit \/ PrintHexDigit \/ NumberEnds

PrintSpec == PrintInit /\ [][PrintNext]_print_vars

-----------------------------------------------------------------------------
\* What digits mean, read from the left; other characters are skipped.
Reads(base, text) ==
    LET number[k \in 0..Len(text)] ==
          IF k = 0 THEN 0
          ELSE IF text[k] >= 0 THEN number[k - 1] * base + text[k] ELSE number[k - 1]
    IN number[Len(text)]

\* The directive that was read last, from its percent sign to its letter: what
\* the format asks for.  The width ends at the first dot.
Opened == CHOOSE o \in 1..w - 2 :
            format[o] = Percent /\ \A l \in o + 1..w - 2 : format[l] # Percent
Asked == SubSeq(format, Opened + 1, w - 1)
Letter == format[w - 1]
ZeroAsked == Asked[1] = 0
BeforeDot(text) == [k \in 1..Len(text) |->
                      IF \E l \in 1..k : text[l] = Dot THEN Dot ELSE text[k]]
WidthAsked == Reads(10, BeforeDot(Asked))
BaseAsked == CASE Letter = Oh -> 8 [] Letter = Ex -> 16 [] OTHER -> 10
NumberMeant == IF Letter = Dee /\ SignBit(value) THEN value - NUMBER ELSE value

Sent == SubSeq(printed, from + 1, Len(printed))
NumberRead == (IF \E k \in DOMAIN Sent : Sent[k] = Minus THEN -1 ELSE 1)
                * Reads(BaseAsked, Sent)
LeadsWithZero == \E k \in 1..Len(Sent) - 1 :
                   Sent[k] = 0 /\ \A l \in 1..k - 1 : Sent[l] < 0

(* What a directive prints is spaces, then a sign, then digits that read as
   the number that was meant, the most negative one and zero included; it
   fills the width that the directive asks for, with zeros when it begins with
   one, and is longer only when the number, written without leading zeros, is;
   whatever directives came before it in the format. *)
PrintedIsNumber ==
    state = "digits" /\ p = 0 =>
        /\ NumberRead = NumberMeant
        /\ \A k \in DOMAIN Sent :
             Sent[k] < 0 => \A l \in 1..k - 1 : Sent[l] = Space
        /\ Len(Sent) >= WidthAsked
        /\ Len(Sent) > WidthAsked =>
             /\ \A k \in DOMAIN Sent : Sent[k] # Space
             /\ ~ LeadsWithZero
        /\ LeadsWithZero => ZeroAsked
        /\ ZeroAsked => \A k \in DOMAIN Sent : Sent[k] # Space
=============================================================================
