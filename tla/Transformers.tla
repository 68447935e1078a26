---------------------------- MODULE Transformers ----------------------------
(***************************************************************************)
(* The transformers of a row: how the entries of "transforms" in the       *)
(* configuration become a chain of decorators, and what the chain does to  *)
(* the columns of a row.  A row is a function from the columns it has to   *)
(* their values; a value is a sequence of characters.  Of the letters with *)
(* a capital there are only "A" and "a".                                   *)
(***************************************************************************)
EXTENDS Naturals, Sequences, SequencesExt

(* row[column]: a column the row does not have is empty. *)
Value(row, c) == IF c \in DOMAIN row THEN row[c] ELSE <<>>
Assign(row, c, v) == [d \in DOMAIN row \union {c} |-> IF d = c THEN v ELSE row[d]]

(* Most transformers leave an empty column alone. *)
Update(row, c, v) == IF Value(row, c) = <<>> THEN row ELSE Assign(row, c, v)

(* std::remove and erase *)
Without(c, v) == FlattenSeq([i \in DOMAIN v |-> IF v[i] = c THEN <<>> ELSE <<v[i]>>])

ToLower(c) == IF c = "A" THEN "a" ELSE c
Unuuid(v) == [i \in DOMAIN Without("-", v) |-> ToLower(Without("-", v)[i])]

-----------------------------------------------------------------------------
(* The Operation of each type, without that of the transformer it wraps.   *)

DecoratorUnuuid(row, t) == Update(row, t.column, Unuuid(Value(row, t.column)))

DecoratorMap(row, t) ==
    LET v == Value(row, t.column)
    IN Update(row, t.column, IF v \in DOMAIN t.lookup THEN t.lookup[v] ELSE v)

(* Append and prepend also want a value to add. *)
DecoratorAppend(row, t) ==
    Update(row, t.column, Value(row, t.column) \o Value(row, t.from_column))

DecoratorPrepend(row, t) ==
    Update(row, t.column, Value(row, t.from_column) \o Value(row, t.column))

DecoratorSet(row, t) == Assign(row, t.column, t.value)

BaseTransformer(row, t) == Update(row, t.column, <<"BASE ">> \o Value(row, t.column))

(* The types by their names in the configuration. *)
Apply(row, t) ==
    CASE t.type = "unuuid" -> DecoratorUnuuid(row, t)
      [] t.type = "map" -> DecoratorMap(row, t)
      [] t.type = "append" -> DecoratorAppend(row, t)
      [] t.type = "prepend" -> DecoratorPrepend(row, t)
      [] t.type = "set" -> DecoratorSet(row, t)
      [] t.type = "void" -> BaseTransformer(row, t)

Registered == {"unuuid", "map", "append", "prepend", "set", "void"}

-----------------------------------------------------------------------------
(* The chain.  It is written from the innermost transformer to the         *)
(* outermost one, which is the only one that handle() knows.               *)

(* Mutant: the new transformer goes inside the chain. *)
WrapInside(chain, t) ==
    IF t.type \notin Registered THEN <<>>
    ELSE IF t.type = "void" THEN <<t>>
    ELSE <<t>> \o chain

(* What Factory::get_instance makes of the chain so far.  It owns the      *)
(* chain: a type that is not a decorator, and one that is not registered,  *)
(* lose it.                                                                *)
Wrap(chain, t) ==
    IF t.type \notin Registered THEN <<>>
    ELSE IF t.type = "void" THEN <<t>>
    ELSE Append(chain, t)

(* The loop of ConfigParser::transformers(): what it made of the first n.  *)
Chain(transforms) ==
    LET made[n \in 0..Len(transforms)] ==
            IF n = 0 THEN <<>> ELSE Wrap(made[n - 1], transforms[n])
    IN made[Len(transforms)]

(* Mutant: a decorator does its own work before that of the wrapped one. *)
OuterFirst(row, chain) ==
    LET done[n \in 0..Len(chain)] ==
            IF n = 0 THEN row ELSE Apply(done[n - 1], chain[Len(chain) + 1 - n])
    IN done[Len(chain)]

(* A decorator has the wrapped transformer do its work first. *)
Operation(row, chain) ==
    LET done[n \in 0..Len(chain)] == IF n = 0 THEN row ELSE Apply(done[n - 1], chain[n])
    IN done[Len(chain)]
=============================================================================
