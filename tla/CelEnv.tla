------------------------------- MODULE CelEnv -------------------------------
(***************************************************************************)
(* Values and expressions of transforms (internal/restore/celenv).         *)
(*                                                                         *)
(* A string that begins with a number is that number, in thousandths, and  *)
(* the suffix that follows it: the code tells strings apart by what may    *)
(* follow the number, and a string without one has a suffix that is no     *)
(* unit.  Kubernetes and PostgreSQL read the same suffix differently.      *)
(*                                                                         *)
(* Factors are fractions that a float64 holds exactly, and so is their     *)
(* product with a captured value; what an int64 cannot hold is modelled,   *)
(* with IntLimit for 2^63.                                                 *)
(***************************************************************************)
EXTENDS Integers

CONSTANTS
    IntLimit,       \* an int64 is from -IntLimit up to IntLimit - 1
    OutOfRange,     \* what a float64 beyond that is converted to
    Fails           \* an evaluation that returns an error

-----------------------------------------------------------------------------
(* JSON values.                                                            *)

NoUnit == ""    \* the suffix of a string that is a number

Text(milli, suffix) == [json |-> "string", milli |-> milli, suffix |-> suffix]
Number(milli) == [json |-> "number", milli |-> milli, suffix |-> NoUnit]
List(items) == [json |-> "list", items |-> items]

(* CEL values.                                                             *)
CelInt(n) == [cel |-> "int", n |-> n]
CelDouble(milli) == [cel |-> "double", n |-> milli]
CelQuantity(milli, binary) == [cel |-> "quantity", n |-> milli, binary |-> binary]
CelString(text) == [cel |-> "string", text |-> text]

IsInt(n) == -IntLimit <= n /\ n < IntLimit

(* int64(x), from the float64 x = a / b                                    *)
Convert(a, b) ==
    LET whole == IF a >= 0 THEN a \div b ELSE -((-a) \div b)
    IN  IF IsInt(whole) THEN whole ELSE OutOfRange

(* The low 64 bits: of a product of two int64, or of a larger number.      *)
Wrapped(n) == ((n + IntLimit) % (2 * IntLimit)) - IntLimit

-----------------------------------------------------------------------------
(* Kubernetes quantities, in thousandths.                                  *)

QuantityUnits ==
    [suffix \in {NoUnit, "k", "Ki"} |->
        CASE suffix = NoUnit -> 1 [] suffix = "k" -> 1000 [] suffix = "Ki" -> 1024]

ParseQuantity(text) ==
    CASE text.suffix = "m" -> CelQuantity(text.milli \div 1000, FALSE)
      [] text.suffix \in DOMAIN QuantityUnits ->
            CelQuantity(text.milli * QuantityUnits[text.suffix], text.suffix = "Ki")
      [] OTHER -> Fails

(* Q.String: binary units only for whole numbers from 1024 on.             *)
QuantityString(q) ==
    LET in(suffix) == Text(q.n \div QuantityUnits[suffix], suffix)
        divides(suffix) == q.n % (1000 * QuantityUnits[suffix]) = 0
        binary == q.binary /\ divides(NoUnit) /\ (q.n >= 1024000 \/ q.n <= -1024000)
    IN  CASE q.n = 0          -> in(NoUnit)
          [] ~divides(NoUnit) -> Text(q.n * 1000, "m")
          [] binary           -> IF divides("Ki") THEN in("Ki") ELSE in(NoUnit)
          [] OTHER            -> IF divides("k") THEN in("k") ELSE in(NoUnit)

(* multiply and divide, of what MilliValue makes of the quantity.  The     *)
(* comparison with the float64 of MaxInt64, which is IntLimit, lets that   *)
(* one value through.                                                      *)
Scale(q, num, den) ==
    LET milli == Wrapped(q.n)
    IN  IF den = 0 \/ milli * num > IntLimit * den \/ milli * num < -IntLimit * den THEN Fails
        ELSE CelQuantity(Convert(milli * num, den), q.binary)

-----------------------------------------------------------------------------
(* PostgreSQL memory settings, in bytes.                                   *)

PgMemoryUnits ==
    [suffix \in {NoUnit, "B", "k", "kB", "m", "MB"} |->
        CASE suffix \in {NoUnit, "B"} -> 1
          [] suffix \in {"k", "kB"}   -> 1024
          [] suffix \in {"m", "MB"}   -> 1048576]

CanonicalUnit(suffix) ==
    CASE suffix \in {NoUnit, "B"} -> NoUnit
      [] suffix \in {"k", "kB"}   -> "kB"
      [] suffix \in {"m", "MB"}   -> "MB"

IsPgMemory(text) == text.suffix \in DOMAIN PgMemoryUnits /\ text.milli % 1000 = 0

ParsePgMemory(text) == Wrapped((text.milli \div 1000) * PgMemoryUnits[text.suffix])

(* Mutant: an amount that rounds to zero is written as zero.               *)
FormatOrZero(bytes, unit) ==
    CelString(Text(Convert(bytes, PgMemoryUnits[unit]) * 1000, CanonicalUnit(unit)))

FormatPgMemory(bytes, unit) ==
    LET amount == Convert(bytes, PgMemoryUnits[unit])
    IN  IF amount = 0 /\ bytes # 0 THEN Fails
        ELSE CelString(Text(amount * 1000, CanonicalUnit(unit)))

PgScale(text, num, den) ==
    IF IsPgMemory(text)
    THEN FormatPgMemory(Convert(ParsePgMemory(text) * num, den), text.suffix)
    ELSE Fails

-----------------------------------------------------------------------------
(* Evaluation.                                                             *)

(* How old is bound: by the path, then by the value.                       *)
ToCEL(value, quantity) ==
    CASE value.json \notin {"string", "number"} -> Fails
      [] value.json \in {"string", "number"} /\ quantity -> ParseQuantity(value)
      [] OTHER ->
            CASE value.suffix # NoUnit -> CelString(value)
              [] value.suffix = NoUnit /\ value.milli % 1000 # 0 -> CelDouble(value.milli)
              [] OTHER -> IF IsInt(value.milli \div 1000) THEN CelInt(value.milli \div 1000)
                          ELSE IF value.json = "number" THEN CelDouble(value.milli)
                          ELSE CelString(value)

(* An expression calls one function on old; num / den is its operand, for  *)
(* add and sub a quantity.  Zero takes the format of what is added to it.  *)
Call(e, old) ==
    CASE e.fn = "scale" /\ old.cel = "quantity" -> Scale(old, e.num, e.den)
      [] e.fn = "add" /\ old.cel = "quantity" ->
            CelQuantity(old.n + e.num, IF old.n = 0 THEN e.binary ELSE old.binary)
      [] e.fn = "bytes" /\ old.cel = "quantity" -> CelInt(Wrapped(-((-old.n) \div 1000)))
      [] e.fn = "times" /\ old.cel = "int" ->
            IF IsInt(old.n * e.num) THEN CelInt(old.n * e.num) ELSE Fails
      [] e.fn = "pgScale" /\ old.cel = "string" -> PgScale(old.text, e.num, e.den)
      [] e.fn = "pgMem" /\ old.cel = "string" ->
            IF IsPgMemory(old.text) THEN CelInt(ParsePgMemory(old.text)) ELSE Fails
      [] OTHER -> Fails

(* Mutant: a result is written in its own type.                            *)
FromCELAsIs(out, source) ==
    CASE out.cel = "quantity" -> QuantityString(out)
      [] out.cel = "string"   -> out.text
      [] out.cel = "int"      -> Number(out.n * 1000)
      [] out.cel = "double"   -> Number(out.n)

(* A result for a field held as a string is written as one.                *)
FromCEL(out, source) ==
    CASE out.cel = "quantity" -> QuantityString(out)
      [] out.cel = "string"   -> out.text
      [] out.cel = "int"      -> [Number(out.n * 1000) EXCEPT !.json = source.json]
      [] out.cel = "double"   -> [Number(out.n) EXCEPT !.json = source.json]

EvaluateProgram(e, value, quantity) ==
    LET old == ToCEL(value, quantity)
        out == IF old = Fails THEN Fails ELSE Call(e, old)
    IN  IF out = Fails THEN Fails ELSE FromCEL(out, value)
=============================================================================
