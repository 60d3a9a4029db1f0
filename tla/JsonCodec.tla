------------------------------ MODULE JsonCodec ------------------------------
(***************************************************************************)
(* The writer and the scanner of flat JSON objects.  The scanner looks for *)
(* a quoted key followed by a colon and does not know where strings begin  *)
(* and end; whether it can be misled by the text of a value is the         *)
(* question here.  A character is a quote, a backslash, a colon, a blank   *)
(* or another one; a number is the sequence of its digits.                 *)
(***************************************************************************)
EXTENDS Naturals, Sequences

CONSTANTS
  Characters,     \* what a value is made of: "quote", "backslash", "colon", "blank" and others
  FirstKey, SecondKey,
  FirstLength, SecondLength,   \* bounds: the longest values
  TextCapacity,   \* the writer's buffer, with the terminator
  MaxU32,         \* 2^32 - 1
  MaxDigits,      \* bound: the digits of a number
  NoValue         \* the scanner finds nothing

ASSUME JsonAssumption ==
  /\ FirstKey # SecondKey
  /\ {FirstLength, SecondLength, TextCapacity, MaxU32, MaxDigits} \subseteq Nat
  /\ MaxU32 >= 9

Strings(n) == UNION { [1..k -> Characters] : k \in 0..n }

(* Keys are names, and NoValue is neither a text nor a number. *)
ASSUME KeysArePlain ==
  /\ \A c \in {"quote", "backslash", "colon", "blank", "comma", "brace"} :
       FirstKey # c /\ SecondKey # c
  /\ NoValue \notin Strings(FirstLength) \cup Strings(SecondLength) /\ NoValue \notin 0..MaxU32

VARIABLES
  first_value, second_value,  \* history: the values written
  text,                       \* the writer's buffer; NoValue if it overflowed
  digits                      \* a number the scanner is given

jsonVars == <<first_value, second_value, text, digits>>

JsonInit == first_value = <<>> /\ second_value = <<>> /\ text = NoValue /\ digits = <<>>

-----------------------------------------------------------------------------
(* Mutant of Escaped: a backslash is written as it is. *)
EscapedQuotes(v) ==
  LET prefix[n \in 0..Len(v)] ==
        IF n = 0 THEN <<>>
        ELSE prefix[n-1] \o (IF v[n] = "quote" THEN <<"backslash">> ELSE <<>>) \o <<v[n]>>
  IN prefix[Len(v)]

(* What field_string writes between the quotes. *)
Escaped(v) ==
  LET prefix[n \in 0..Len(v)] ==
        IF n = 0 THEN <<>>
        ELSE prefix[n-1] \o (IF v[n] \in {"quote", "backslash"} THEN <<"backslash">> ELSE <<>>)
                         \o <<v[n]>>
  IN prefix[Len(v)]

field_string(key, v) ==
  <<"quote", key, "quote", "colon", "quote">> \o Escaped(v) \o <<"quote">>

Object(v, w) ==
  <<"brace">> \o field_string(FirstKey, v) \o <<"comma">> \o field_string(SecondKey, w) \o <<"brace">>

(* Every put() and the terminator found room. *)
Fits(t) == Len(t) + 1 <= TextCapacity

WriteObject(v, w) ==
  /\ first_value' = v /\ second_value' = w
  /\ text' = IF Fits(Object(v, w)) THEN Object(v, w) ELSE NoValue
  /\ UNCHANGED digits

-----------------------------------------------------------------------------
(* The position after blanks. *)
AfterBlanks(t, p) ==
  CHOOSE q \in p..Len(t)+1 :
    /\ \A r \in p..q-1 : t[r] = "blank"
    /\ q = Len(t) + 1 \/ t[q] # "blank"

(* The quoted key stands at start, and a colon follows. *)
KeyAt(t, key, start) ==
  /\ start + 2 <= Len(t) /\ SubSeq(t, start, start + 2) = <<"quote", key, "quote">>
  /\ AfterBlanks(t, start + 3) <= Len(t) /\ t[AfterBlanks(t, start + 3)] = "colon"

(* The position of the value of the first such key, beyond the text without one. *)
find_value(t, key) ==
  LET starts == { s \in 1..Len(t) : KeyAt(t, key, s) } IN
    IF starts = {} THEN Len(t) + 1
    ELSE LET s == CHOOSE s \in starts : \A r \in starts : s <= r
         IN AfterBlanks(t, AfterBlanks(t, s + 3) + 1)

(* get_string, of a value that fits in the caller's buffer. *)
get_string(t, key) ==
  LET p == find_value(t, key)
      tail[q \in 1..Len(t)+2] ==
        IF q > Len(t) THEN NoValue
        ELSE IF t[q] = "quote" THEN <<>>
        ELSE LET c == IF t[q] = "backslash" /\ q < Len(t) THEN q + 1 ELSE q
             IN IF tail[c+1] = NoValue THEN NoValue ELSE <<t[c]>> \o tail[c+1]
  IN IF p > Len(t) THEN NoValue ELSE IF t[p] # "quote" THEN NoValue ELSE tail[p+1]

-----------------------------------------------------------------------------
Overflows(parsed, digit) == parsed > (MaxU32 - digit) \div 10

(* get_u32 of a run of digits. *)
get_u32(ds) ==
  LET parsed[n \in 0..Len(ds)] ==
        IF n = 0 THEN 0
        ELSE IF parsed[n-1] = NoValue \/ Overflows(parsed[n-1], ds[n]) THEN NoValue
        ELSE parsed[n-1] * 10 + ds[n]
  IN IF ds = <<>> THEN NoValue ELSE parsed[Len(ds)]

(* A text with a number of some digits. *)
ReadNumber(ds) == digits' = ds /\ UNCHANGED <<first_value, second_value, text>>

(* The buffers go out of scope, and the next call has its own. *)
Discard == first_value' = <<>> /\ second_value' = <<>> /\ text' = NoValue /\ digits' = <<>>

JsonNext ==
  \/ /\ JsonInit
     /\ \/ \E v \in Strings(FirstLength), w \in Strings(SecondLength) : WriteObject(v, w)
        \/ \E ds \in UNION { [1..n -> 0..9] : n \in 1..MaxDigits } : ReadNumber(ds)
  \/ Discard

JsonSpec == JsonInit /\ [][JsonNext]_jsonVars

-----------------------------------------------------------------------------
(***************************************************************************)
(* Whatever the values of an object are, the text of the other key, a      *)
(* colon, quotes and backslashes included, the scanner reads from what the *)
(* writer wrote the values that were written.  What was written also has   *)
(* room for its terminator.  And get_u32 reads every number up to 2^32 - 1 *)
(* exactly and refuses the next.                                           *)
(***************************************************************************)
JsonRoundTrip ==
  /\ text # NoValue =>
       /\ Len(text) < TextCapacity
       /\ get_string(text, FirstKey) = first_value
       /\ get_string(text, SecondKey) = second_value
  /\ digits # <<>> =>
       LET value[n \in 0..Len(digits)] == IF n = 0 THEN 0 ELSE 10 * value[n-1] + digits[n]
       IN get_u32(digits) = IF value[Len(digits)] > MaxU32 THEN NoValue ELSE value[Len(digits)]

=============================================================================
