------------------------------- MODULE Format -------------------------------
(***************************************************************************)
(* Formatted output, lib/stdio.c.  A format is a sequence of characters    *)
(* with the null character at its end, and so is the output, without it.   *)
(* Bits gives every argument type its width; BufSize is format_integer's   *)
(* buffer.                                                                 *)
(***************************************************************************)
EXTENDS Calls

LOCAL SX == INSTANCE SequencesExt

CONSTANTS Bits, BufSize, Arguments

Flag == {"-", "+", " ", "#", "0", "'"}
Nul == "nul"
Numerals == <<"0", "1", "2", "3", "4", "5", "6", "7", "8", "9", "a", "b", "c", "d", "e", "f">>
Capitals == <<"0", "1", "2", "3", "4", "5", "6", "7", "8", "9", "A", "B", "C", "D", "E", "F">>
Decimal == {Numerals[i] : i \in 1..10}
ValueOf(c) == (CHOOSE i \in 1..16 : c \in {Numerals[i], Capitals[i]}) - 1

base_d == [base |-> 10, digits |-> Numerals, x |-> Nul, group |-> 3]
base_o == [base |-> 8, digits |-> Numerals, x |-> Nul, group |-> 3]
base_x == [base |-> 16, digits |-> Numerals, x |-> "x", group |-> 4]
base_X == [base |-> 16, digits |-> Capitals, x |-> "X", group |-> 4]

(***************************************************************************)
(* parse_conversion: flags, width, precision and type from place i on.     *)
(* The result is the conversion, the place of the letter and the arguments *)
(* that are left.                                                          *)
(***************************************************************************)
RECURSIVE EndOf(_, _, _)
EndOf(f, i, set) == IF f[i] \in set THEN EndOf(f, i + 1, set) ELSE i

RECURSIVE Number(_, _, _)
Number(f, i, e) == IF i = e THEN 0 ELSE Number(f, i, e - 1) * 10 + ValueOf(f[e - 1])

(* A number, in digits or as the next argument. *)
ParseNumber(f, i, args) ==
  IF f[i] = "*" THEN [value |-> Head(args), at |-> i + 1, args |-> Tail(args)]
  ELSE LET e == EndOf(f, i, Decimal) IN [value |-> Number(f, i, e), at |-> e, args |-> args]

ParsePrecision(f, i, args) ==
  IF f[i] # "." THEN [value |-> -1, at |-> i, args |-> args]
  ELSE LET n == ParseNumber(f, i + 1, args) IN [n EXCEPT !.value = IF @ < 0 THEN -1 ELSE @]

ParseType(f, i) ==
  CASE f[i] = "h" /\ f[i + 1] = "h" -> [type |-> "CHAR", at |-> i + 2]
    [] f[i] = "h" /\ f[i + 1] # "h" -> [type |-> "SHORT", at |-> i + 1]
    [] f[i] = "l" /\ f[i + 1] = "l" -> [type |-> "LONGLONG", at |-> i + 2]
    [] f[i] = "l" /\ f[i + 1] # "l" -> [type |-> "LONG", at |-> i + 1]
    [] f[i] = "j" -> [type |-> "INTMAX", at |-> i + 1]
    [] f[i] = "t" -> [type |-> "PTRDIFFT", at |-> i + 1]
    [] f[i] = "z" -> [type |-> "SIZET", at |-> i + 1]
    [] OTHER -> [type |-> "INT", at |-> i]

(* Variant: a negative width is made positive and does not set the minus flag. *)
parse_conversion_width(f, i, args) ==
  LET e == EndOf(f, i, Flag)
      given == {f[k] : k \in i..(e - 1)}
      w == ParseNumber(f, e, args)
      p == ParsePrecision(f, w.at, w.args)
      t == ParseType(f, p.at)
  IN  [flags |-> given \ ((IF "-" \in given \/ p.value >= 0 THEN {"0"} ELSE {}) \cup (IF "+" \in given THEN {" "} ELSE {})),
       width |-> IF w.value < 0 THEN -w.value ELSE w.value,
       precision |-> p.value, type |-> t.type, at |-> t.at, args |-> p.args]

parse_conversion(f, i, args) ==
  LET e == EndOf(f, i, Flag)
      given == {f[k] : k \in i..(e - 1)}
      flags == given \ ((IF "-" \in given THEN {"0"} ELSE {}) \cup (IF "+" \in given THEN {" "} ELSE {}))
      w == ParseNumber(f, e, args)
      p == ParsePrecision(f, w.at, w.args)
      t == ParseType(f, p.at)
  IN  [flags |-> (flags \cup (IF w.value < 0 THEN {"-"} ELSE {})) \ (IF p.value >= 0 THEN {"0"} ELSE {}),
       width |-> IF w.value < 0 THEN -w.value ELSE w.value,
       precision |-> p.value, type |-> t.type, at |-> t.at, args |-> p.args]

(***************************************************************************)
(* format_integer.  The buffer holds the digits in reverse order.          *)
(***************************************************************************)
output_dup(ch, cnt) == [i \in 1..(IF cnt < 0 THEN 0 ELSE cnt) |-> ch]

RECURSIVE PutDigits(_, _, _, _, _)
PutDigits(buf, value, digit_cnt, b, c) ==
  IF value = 0 THEN buf
  ELSE LET comma == "'" \in c.flags /\ digit_cnt > 0 /\ digit_cnt % b.group = 0
       IN  PutDigits(buf \o (IF comma THEN <<",">> ELSE <<>>) \o <<b.digits[(value % b.base) + 1]>>,
                     value \div b.base, digit_cnt + 1, b, c)

(* Variant: the size of the buffer is not looked at. *)
PutZerosUnbounded(buf, precision) == buf \o output_dup("0", precision - Len(buf))

RECURSIVE PutZeros(_, _)
PutZeros(buf, precision) ==
  IF Len(buf) < precision /\ Len(buf) < BufSize - 1 THEN PutZeros(Append(buf, "0"), precision) ELSE buf

PutOctalZero(buf, b, c) ==
  IF "#" \in c.flags /\ b.base = 8 /\ (buf = <<>> \/ buf[Len(buf)] # "0") THEN Append(buf, "0") ELSE buf

IntegerBuf(value, b, c) ==
  PutOctalZero(PutZeros(PutDigits(<<>>, value, 0, b, c), IF c.precision < 0 THEN 1 ELSE c.precision), b, c)

SignOf(is_signed, negative, c) ==
  IF ~is_signed THEN <<>>
  ELSE IF negative THEN <<"-">>
  ELSE IF "+" \in c.flags THEN <<"+">> ELSE IF " " \in c.flags THEN <<" ">> ELSE <<>>

(* Variant: the prefix is not counted against the width. *)
format_integer_prefix(value, is_signed, negative, b, c) ==
  LET buf == IntegerBuf(value, b, c)
      sign == SignOf(is_signed, negative, c)
      prefix == IF "#" \in c.flags /\ value # 0 /\ b.x # Nul THEN <<"0", b.x>> ELSE <<>>
      pad(flag, ch) == IF flag THEN output_dup(ch, c.width - Len(buf) - Len(sign)) ELSE <<>>
  IN  pad(c.flags \cap {"-", "0"} = {}, " ") \o sign \o prefix
        \o pad("0" \in c.flags, "0") \o SX!Reverse(buf) \o pad("-" \in c.flags, " ")

format_integer(value, is_signed, negative, b, c) ==
  LET buf == IntegerBuf(value, b, c)
      sign == SignOf(is_signed, negative, c)
      prefix == IF "#" \in c.flags /\ value # 0 /\ b.x # Nul THEN <<"0", b.x>> ELSE <<>>
      pad(flag, ch) == IF flag THEN output_dup(ch, c.width - Len(buf) - Len(prefix) - Len(sign)) ELSE <<>>
  IN  pad(c.flags \cap {"-", "0"} = {}, " ") \o sign \o prefix
        \o pad("0" \in c.flags, "0") \o SX!Reverse(buf) \o pad("-" \in c.flags, " ")

format_string(text, length, c) ==
  LET pad == output_dup(" ", c.width - length)
      shown == SubSeq(text, 1, length)
  IN  IF "-" \in c.flags THEN shown \o pad ELSE pad \o shown

(***************************************************************************)
(* __vprintf: the value an argument has as its type, and the conversions.  *)
(***************************************************************************)
Unsigned(arg, type) == arg % 2^Bits[type]
SignedValue(arg, type) ==
  LET u == Unsigned(arg, type) IN IF u < 2^(Bits[type] - 1) THEN u ELSE u - 2^Bits[type]

BaseOf(letter) ==
  CASE letter = "o" -> base_o [] letter = "u" -> base_d [] letter = "x" -> base_x [] letter = "X" -> base_X

Integer(letter, c) ==
  LET v == SignedValue(c.args[1], c.type)
  IN  IF letter \in {"d", "i"} THEN format_integer(IF v < 0 THEN -v ELSE v, TRUE, v < 0, base_d, c)
      ELSE format_integer(Unsigned(c.args[1], c.type), FALSE, FALSE, BaseOf(letter), c)

Convert(letter, c) ==
  CASE letter \in {"d", "i", "o", "u", "x", "X"} -> Integer(letter, c)
    [] letter = "c" -> format_string(<<c.args[1]>>, 1, c)
    [] letter = "s" ->
         LET text == IF c.args[1] = NULL THEN <<"(", "n", "u", "l", "l", ")">> ELSE c.args[1]
         IN  format_string(text, IF c.precision \in 0..Len(text) THEN c.precision ELSE Len(text), c)
    [] letter = "p" -> format_integer(Unsigned(c.args[1], "LONG"), FALSE, FALSE, base_x, [c EXCEPT !.flags = {"#"}])
    [] OTHER -> <<"<<no conversion>>">>

TakesArgument(letter) == letter \in {"d", "i", "o", "u", "x", "X", "c", "s", "p"}

RECURSIVE vprintf(_, _, _)
vprintf(f, i, args) ==
  IF f[i] = Nul THEN <<>>
  ELSE IF f[i] # "%" THEN <<f[i]>> \o vprintf(f, i + 1, args)
  ELSE IF f[i + 1] = "%" THEN <<"%">> \o vprintf(f, i + 2, args)
  ELSE LET c == parse_conversion(f, i + 1, args)
       IN  Convert(f[c.at], c) \o vprintf(f, c.at + 1, IF TakesArgument(f[c.at]) THEN Tail(c.args) ELSE c.args)

(***************************************************************************)
(* vsnprintf: the helper stores a character while there is room and counts *)
(* every one.                                                              *)
(***************************************************************************)
(* Variant: the place of the terminator is taken. *)
vsnprintf_helper_full(aux, ch) ==
  [aux EXCEPT !.length = @ + 1, !.p = IF aux.length <= aux.max_length THEN Append(@, ch) ELSE @]

vsnprintf_helper(aux, ch) ==
  [aux EXCEPT !.length = @ + 1, !.p = IF aux.length < aux.max_length THEN Append(@, ch) ELSE @]

vsnprintf(buf_size, f, args) ==
  LET aux == SX!FoldLeft(vsnprintf_helper,
                         [p |-> <<>>, length |-> 0, max_length |-> IF buf_size > 0 THEN buf_size - 1 ELSE 0],
                         vprintf(f, 1, args))
  IN  [written |-> IF buf_size > 0 THEN Append(aux.p, Nul) ELSE aux.p, length |-> aux.length]

(***************************************************************************)
(* Calls.  A specifier is a set of flags, a width, a precision, a type and *)
(* a letter; it is written out as a format, the width and the precision in *)
(* digits or as arguments.                                                 *)
(***************************************************************************)
TypeText(type) ==
  CASE type = "CHAR" -> <<"h", "h">> [] type = "SHORT" -> <<"h">> [] type = "LONG" -> <<"l">>
    [] type = "LONGLONG" -> <<"l", "l">> [] type = "INTMAX" -> <<"j">> [] type = "PTRDIFFT" -> <<"t">>
    [] type = "SIZET" -> <<"z">> [] type = "INT" -> <<>>

Written(s) ==
  [f |-> <<"%">> \o SX!SetToSeq(s.flags)
           \o (IF s.star THEN <<"*">> ELSE IF s.width = 0 THEN <<>> ELSE <<Numerals[s.width + 1]>>)
           \o (IF s.precision = -1 THEN <<>> ELSE IF s.star THEN <<".", "*">> ELSE <<".", Numerals[s.precision + 1]>>)
           \o TypeText(s.type) \o <<s.letter, Nul>>,
   args |-> (IF s.star THEN <<s.width>> ELSE <<>>)
              \o (IF s.star /\ s.precision # -1 THEN <<s.precision>> ELSE <<>>) \o <<s.arg>>]

Specifier(star, widths, types, flags, letters) ==
  [flags : flags, star : {star}, width : widths, precision : {-1, 0, 2, BufSize + 1}, type : types,
   letter : letters, arg : Arguments]

Specifiers ==
  Specifier(FALSE, {0, 8}, {"INT", "LONG"}, SUBSET Flag, {"d", "o", "x"})
    \cup Specifier(TRUE, {3, -8}, DOMAIN Bits, {{}, {"0"}, {"-"}}, {"d", "o", "u", "x", "X"})

CallPrintf ==
  /\ Idle
  /\ \E s \in Specifiers :
       LET w == Written(s) IN Called("printf", s, [c |-> parse_conversion(w.f, 2, w.args), out |-> vprintf(w.f, 1, w.args)])

(* Text around a string, a character, a pointer and a percent sign. *)
CallSnprintf ==
  /\ Idle
  /\ \E size \in 0..8, s \in {NULL, <<>>, <<"a", "b">>}, flags \in {<<>>, <<"-">>}, p \in {<<>>, <<".", "1">>} :
       LET f == <<"%", "%", "%">> \o flags \o <<"3">> \o p \o <<"s", "c", "%", "c", "%", "p", "%", "y", Nul>>
           args == <<s, "d", 5>>
       IN  Called("snprintf", <<size, f, args>>, vsnprintf(size, f, args))
-----------------------------------------------------------------------------
(***************************************************************************)
(* The conversion that is parsed is the one that was written: a negative   *)
(* width means left justification, a minus or a precision switches zero    *)
(* padding off, a plus switches the space off, and the argument of the     *)
(* conversion is the one that is left.                                     *)
(***************************************************************************)
ParseReadsBack ==
  Is("printf") =>
    LET s == call.args
        c == call.result.c
    IN  /\ c.width = (IF s.width < 0 THEN -s.width ELSE s.width)
        /\ c.precision = s.precision /\ c.type = s.type /\ c.args = <<s.arg>>
        /\ "-" \in c.flags <=> "-" \in s.flags \/ s.width < 0
        /\ "0" \in c.flags <=> "0" \in s.flags /\ "-" \notin s.flags /\ s.precision = -1
        /\ " " \in c.flags <=> " " \in s.flags /\ "+" \notin s.flags
        /\ c.flags \cap {"+", "#", "'"} = s.flags \cap {"+", "#", "'"}

(***************************************************************************)
(* A formatted integer reads back as the value of its argument, in its     *)
(* base and with its sign, whatever the flags; and the field has exactly   *)
(* the width that is asked for unless the number itself is longer.  (A     *)
(* negative width argument together with the zero flag is the exception:   *)
(* both paddings are put out.)                                             *)
(***************************************************************************)
FieldReadsBack ==
  Is("printf") =>
    LET s == call.args
        out == call.result.out
        text == SelectSeq(out, LAMBDA ch : ch \notin {" ", ","})
        sign == IF text # <<>> /\ text[1] \in {"-", "+"} THEN <<text[1]>> ELSE <<>>
        body == SelectSeq(text, LAMBDA ch : ch \notin {"-", "+", "x", "X"})
        base == IF s.letter = "d" THEN 10 ELSE BaseOf(s.letter).base
        magnitude == SX!FoldLeft(LAMBDA v, ch : v * base + ValueOf(ch), 0, body)
        value == IF s.letter = "d" THEN SignedValue(s.arg, s.type) ELSE Unsigned(s.arg, s.type)
        both == {"-", "0"} \subseteq call.result.c.flags
        padded == Len(out) > 0 /\ (out[1] = " " \/ out[Len(out)] = " ")
    IN  /\ value = (IF sign = <<"-">> THEN -magnitude ELSE magnitude)
        /\ Len(out) >= call.result.c.width
        /\ padded /\ ~both /\ " " \notin s.flags => Len(out) = call.result.c.width

(***************************************************************************)
(* The buffer of format_integer holds every number with its commas, the    *)
(* zeros of any precision and the zero in front of an octal number.        *)
(***************************************************************************)
FormatBufferHolds ==
  Is("printf") =>
    LET s == call.args
        v == IF s.letter = "d" THEN SignedValue(s.arg, s.type) ELSE Unsigned(s.arg, s.type)
    IN  Len(IntegerBuf(IF v < 0 THEN -v ELSE v, IF s.letter = "d" THEN base_d ELSE BaseOf(s.letter), call.result.c)) <= BufSize

(***************************************************************************)
(* vsnprintf writes at most the size it is given, ends it with a null      *)
(* character, and returns the length of the whole text.                    *)
(***************************************************************************)
SnprintfBounded ==
  Is("snprintf") =>
    LET size == call.args[1]
        whole == vprintf(call.args[2], 1, call.args[3])
    IN  /\ Len(call.result.written) <= size
        /\ call.result.length = Len(whole)
        /\ size > 0 => call.result.written
                         = Append(SubSeq(whole, 1, IF Len(whole) < size THEN Len(whole) ELSE size - 1), Nul)
=============================================================================
