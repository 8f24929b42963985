----------------------------- MODULE SymbolTable -----------------------------
(***************************************************************************)
(* The symbol table between the parser and the two transformations.  The   *)
(* parser enters the declarations of the input; unparse() clears the names *)
(* that an earlier transformation has left, runs tau, clears again and     *)
(* runs sigma.  A transformation declares the derivative of every float    *)
(* and the intermediate variables v0, v1, ... of every assignment, the     *)
(* latter only when the table does not know them yet.                      *)
(*                                                                         *)
(* The table is a std::map, so its order is that of the names.  A name is  *)
(* the sequence of its prefixes and its base name, each a number that      *)
(* stands for its place in the order of strings: a1_ = 101, t1_ = 201,     *)
(* v0_from1 = 301, and the names of the program around them.               *)
(***************************************************************************)
EXTENDS Integers, Sequences, FiniteSets

CONSTANT Programs   \* [floats, others, counters : sets of names, lengths : Seq(Nat)]

VARIABLES
    program,    \* the input
    phase,      \* "parse", "clear", "tau", "sigma" or "done"
    following,  \* the transformation after the clearing
    pending,    \* declarations still to be parsed or transformed
    lengths,    \* for each expression left, how many intermediates it needs
    count,      \* intermediate_name_counter
    order,      \* order_of_origin_code
    table,      \* the role of every name in the table
    it,         \* the iterator of clear_intermediates, End behind the last name
    declared,   \* how often the output declares a name
    used,       \* the intermediates that the output uses
    failed      \* an assertion has failed

vars == <<program, phase, following, pending, lengths, count, order, table, it,
          declared, used, failed>>

AdjPrefix(k) == 100 + k
TlPrefix(k) == 200 + k
End == <<>>

\* Mutant: the name does not tell the order of the input.
IntermediateUnordered(i) == <<300 + 10 * i>>

\* v<i>_from<order>
Intermediate(i) == <<300 + 10 * i + order>>

\* std::less of strings.
Before(m, n) ==
    \/ Len(m) < Len(n) /\ SubSeq(n, 1, Len(m)) = m
    \/ \E i \in 1 .. Len(m) :
           /\ i <= Len(n)
           /\ m[i] < n[i]
           /\ SubSeq(m, 1, i - 1) = SubSeq(n, 1, i - 1)

\* The first of a set of names, begin() of the map.
First(names) ==
    IF names = {} THEN End
    ELSE CHOOSE m \in names : \A n \in names \ {m} : Before(m, n)

After(names, m) == First({n \in names : Before(m, n)})

-------------------------------------------------------------------------------
(* The operations of the table *)

\* The constructor reads the order from the first prefix.
OrderOf(n) == IF Len(n) > 1 THEN n[1] % 100 ELSE 0

\* The orders of the prefixes have to decrease from left to right.
WellPrefixed(n) == \A i \in 2 .. Len(n) - 1 : n[i] % 100 < n[1] % 100

(* A program has something to differentiate, no name of it is one that the *)
(* transformation makes, and counters are names without prefix. The        *)
(* derivatives have a prefix of one digit.                                 *)
ASSUME ProgramsAssumption == \A p \in Programs :
    LET variables == p.floats \cup p.others
        names == variables \cup p.counters
    IN /\ p.floats # {} /\ IsFiniteSet(variables)
       /\ variables \cap p.counters = {}
       /\ p.lengths \in Seq(Nat)
       /\ \A n \in names :
              n \in Seq(Nat) /\ n # End /\ WellPrefixed(n) /\ OrderOf(n) < 9
       /\ \A n \in p.counters : Len(n) = 1
       /\ \A m \in variables : (\A n \in variables : OrderOf(n) <= OrderOf(m)) =>
              \A l \in DOMAIN p.lengths : \A i \in 0 .. p.lengths[l] - 1 :
                  <<300 + 10 * i + OrderOf(m)>> \notin names

\* Mutant: only the first declaration tells the order.
RaisedFirst(n, role) ==
    IF role = "ordinary" /\ order = -1 THEN OrderOf(n) ELSE order

\* What an ordinary symbol does to order_of_origin_code, and with it to
\* tl_prefix and adj_prefix.
Raised(n, role) ==
    IF role = "ordinary" /\ OrderOf(n) > order THEN OrderOf(n) ELSE order

\* insert: a name that is there already stays as it is.
Inserted(t, n, role) ==
    [m \in DOMAIN t \cup {n} |-> IF m \in DOMAIN t THEN t[m] ELSE role]

\* Only the second insertion of an ordinary symbol is an error.
Rejected(n, role) ==
    \/ n \in DOMAIN table /\ role = "ordinary"
    \/ n \notin DOMAIN table /\ ~WellPrefixed(n)

\* Mutant: both transformations use tl_prefix.
PrefixTangent == TlPrefix(order + 1)

Prefix == IF phase = "tau" THEN TlPrefix(order + 1) ELSE AdjPrefix(order + 1)

Declare(bag, names) ==
    [n \in DOMAIN bag \cup names |->
        (IF n \in DOMAIN bag THEN bag[n] ELSE 0) + (IF n \in names THEN 1 ELSE 0)]

-------------------------------------------------------------------------------
Init ==
    /\ program \in Programs
    /\ phase = "parse"
    /\ following = "tau"
    /\ pending = program.floats \cup program.others
    /\ lengths = <<>>
    /\ count = 0
    /\ order = -1
    /\ table = <<>>
    /\ it = End
    /\ declared = <<>>
    /\ used = {}
    /\ failed = FALSE

\* The parser enters a declaration.
ParseDeclaration(n) ==
    /\ ~failed /\ phase = "parse"
    /\ pending' = pending \ {n}
    /\ table' = Inserted(table, n, "ordinary")
    /\ order' = Raised(n, "ordinary")
    /\ failed' = Rejected(n, "ordinary")
    /\ UNCHANGED <<program, phase, following, lengths, count, it, declared, used>>

\* unparse: the iterator of clear_intermediates starts at the first name.
BeginClear ==
    /\ ~failed /\ pending = {} /\ lengths = <<>>
    /\ \/ phase = "parse" /\ following' = "tau"
       \/ phase = "tau" /\ following' = "sigma"
    /\ phase' = "clear"
    /\ it' = First(DOMAIN table)
    /\ UNCHANGED <<program, pending, lengths, count, order, table, declared, used, failed>>

Removable(n) == table[n] \in {"intermediate", "derivative"}

\* Mutant: the iterator goes back but the symbol is kept.
ClearStepKept ==
    /\ phase = "clear" /\ it # End
    /\ it' = After(DOMAIN table, IF Removable(it) THEN First(DOMAIN table) ELSE it)
    /\ UNCHANGED <<program, phase, following, pending, lengths, count, order,
                   table, declared, used, failed>>

\* Mutant: the iterator stays behind the removed symbol; every symbol after a
\* removed one is passed over.
ClearStepOnward ==
    /\ phase = "clear" /\ it # End
    /\ IF Removable(it)
         THEN LET left == DOMAIN table \ {it}
              IN /\ table' = [n \in left |-> table[n]]
                 /\ it' = After(left, After(left, it))
         ELSE /\ it' = After(DOMAIN table, it)
              /\ UNCHANGED table
    /\ UNCHANGED <<program, phase, following, pending, lengths, count, order,
                   declared, used, failed>>

\* One turn of the loop: after an erase the iterator is set to begin() and the
\* loop header advances it, so that the name that is first then is not looked
\* at again.
ClearStep ==
    /\ phase = "clear" /\ it # End
    /\ IF Removable(it)
         THEN LET left == DOMAIN table \ {it}
              IN /\ table' = [n \in left |-> table[n]]
                 /\ it' = After(left, First(left))
         ELSE /\ it' = After(DOMAIN table, it)
              /\ UNCHANGED table
    /\ UNCHANGED <<program, phase, following, pending, lengths, count, order,
                   declared, used, failed>>

\* The transformation starts with an empty output.  rho names the
\* intermediates of an expression twice, for its two halves.
BeginTransformation ==
    /\ phase = "clear" /\ it = End
    /\ phase' = following
    /\ pending' = program.floats \cup program.others
                    \cup (IF following = "sigma" THEN program.counters ELSE {})
    /\ lengths' = IF following = "tau" THEN program.lengths
                  ELSE [i \in 1 .. 2 * Len(program.lengths) |-> program.lengths[(i + 1) \div 2]]
    /\ count' = 0
    /\ declared' = <<>>
    /\ used' = {}
    /\ UNCHANGED <<program, following, order, table, it, failed>>

\* tau_decl, sigma_decl: the declaration is copied; that of a float is
\* followed by that of its derivative, whether or not the table knew it.
TransformDeclaration(n) ==
    /\ ~failed /\ phase \in {"tau", "sigma"}
    /\ n \in program.floats \cup program.others
    /\ pending' = pending \ {n}
    /\ IF n \in program.floats
         THEN LET d == <<Prefix>> \o n
              IN /\ table' = Inserted(table, d, "derivative")
                 /\ declared' = Declare(Declare(declared, {n}), {d})
                 /\ failed' = (n \notin DOMAIN table \/ Rejected(d, "derivative"))
         ELSE /\ declared' = Declare(declared, {n})
              /\ UNCHANGED <<table, failed>>
    /\ UNCHANGED <<program, phase, following, lengths, count, order, it, used>>

\* sigma_atomic, sigma_critical: a counter or a flag of the adjoint code is
\* entered as an ordinary symbol.
DeclareCounter(n) ==
    /\ ~failed /\ phase = "sigma"
    /\ n \in program.counters
    /\ pending' = pending \ {n}
    /\ table' = Inserted(table, n, "ordinary")
    /\ order' = Raised(n, "ordinary")
    /\ declared' = Declare(declared, {n})
    /\ failed' = Rejected(n, "ordinary")
    /\ UNCHANGED <<program, phase, following, lengths, count, it, used>>

\* get_intermediate_name: the variable and its derivative are declared when
\* the table did not know them.
GetIntermediateName ==
    /\ ~failed /\ phase \in {"tau", "sigma"}
    /\ pending = {} /\ lengths # <<>>
    /\ count < Head(lengths)
    /\ LET v == Intermediate(count)
           d == <<Prefix>> \o v
       IN /\ table' = Inserted(Inserted(table, v, "intermediate"), d, "intermediate")
          /\ declared' = Declare(declared, {v, d} \ DOMAIN table)
          /\ used' = used \cup {v, d}
          /\ failed' = (Rejected(v, "intermediate") \/ Rejected(d, "intermediate"))
    /\ count' = count + 1
    /\ UNCHANGED <<program, phase, following, pending, lengths, order, it>>

\* set_intermediate_name_counter_to_zero
NextExpression ==
    /\ ~failed /\ phase \in {"tau", "sigma"}
    /\ pending = {} /\ lengths # <<>>
    /\ count = Head(lengths)
    /\ lengths' = Tail(lengths)
    /\ count' = 0
    /\ UNCHANGED <<program, phase, following, pending, order, table, it, declared,
                   used, failed>>

Finish ==
    /\ ~failed /\ phase = "sigma"
    /\ pending = {} /\ lengths = <<>>
    /\ phase' = "done"
    /\ UNCHANGED <<program, following, pending, lengths, count, order, table, it,
                   declared, used, failed>>

Next ==
    \/ \E n \in pending :
           ParseDeclaration(n) \/ TransformDeclaration(n) \/ DeclareCounter(n)
    \/ BeginClear
    \/ ClearStep
    \/ BeginTransformation
    \/ GetIntermediateName
    \/ NextExpression
    \/ Finish

\* A sequential program keeps running.
Spec == Init /\ [][Next]_vars /\ WF_vars(Next)

-------------------------------------------------------------------------------
(* Properties *)

\* Every intermediate the output uses is declared in it, every declaration
\* stands there once, and no intermediate is a variable of the input, although
\* the input may itself be a transformed code with intermediates: what the
\* first transformation left in the table never keeps the second from
\* declaring a variable of its own
\* (clear_intermediates, symbol_table.cpp:70-81; ast_vertex.cpp:365-400).
DeclaredOnce ==
    /\ used \subseteq DOMAIN declared
    /\ used \cap (program.floats \cup program.others) = {}
    /\ \A n \in DOMAIN declared : declared[n] = 1

\* No transformation asks for a symbol that the clearing has removed, enters
\* an ordinary symbol twice or builds a name whose prefixes do not decrease
\* (symbol_table.cpp:46, 103-112, 125-137).
NeverFails == ~failed

\* The clearing removes no ordinary symbol and leaves at most one name of the
\* first transformation, a derivative of it that the second never declares
\* (symbol_table.cpp:73-80).
ClearedButOne ==
    phase = "clear" /\ it = End =>
        /\ program.floats \cup program.others \subseteq DOMAIN table
        /\ LET kept == {n \in DOMAIN table : Removable(n)}
           IN /\ Cardinality(kept) <= 1
              /\ \A n \in kept : n[1] = TlPrefix(order + 1)

\* Both clearings and both transformations come to an end, although the
\* iterator starts again after every symbol it removes.
Finishes == <>(phase = "done" \/ failed)
-------------------------------------------------------------------------------
(* The inductive invariant behind the safety properties *)

Symbols == program.floats \cup program.others

\* The declarations that the table knows.
Known == IF phase = "parse" THEN Symbols \ pending ELSE Symbols

TableTyped ==
    /\ program \in Programs
    /\ phase \in {"parse", "clear", "tau", "sigma", "done"} /\ following \in {"tau", "sigma"}
    /\ pending \subseteq Symbols \cup (IF phase = "sigma" THEN program.counters ELSE {})
    /\ count \in Nat /\ lengths \in Seq(Nat)
    /\ \A k \in DOMAIN lengths : \E l \in DOMAIN program.lengths : lengths[k] = program.lengths[l]
    /\ IsFiniteSet(DOMAIN table)
    /\ table \in [DOMAIN table -> {"ordinary", "derivative", "intermediate"}]
    /\ \A n \in DOMAIN table : n \in Seq(Nat) /\ n # End

\* order_of_origin_code is the greatest order of a declared name.
OrderKnown ==
    /\ \A n \in Known : OrderOf(n) <= order
    /\ order = -1 \/ \E n \in Known : OrderOf(n) = order

\* Ordinary symbols stay; before the first transformation there are no others.
SymbolsKept ==
    /\ Known \subseteq DOMAIN table
    /\ \A n \in Known : table[n] = "ordinary"
    /\ phase = "parse" \/ (phase = "clear" /\ following = "tau") => DOMAIN table = Known

\* A name that tau has made of another one.
Tangent(n) == Len(n) > 1 /\ n[1] = TlPrefix(order + 1)

\* What tau leaves in the table: an intermediate never without its derivative,
\* and the derivatives of all floats.
TangentNames ==
    /\ phase = "tau" \/ (phase = "clear" /\ following = "sigma") =>
           \A n \in DOMAIN table \ Symbols :
               Removable(n) /\ (Tangent(n) \/ n[1] >= 300)
    /\ phase = "tau" =>
           /\ \A n \in DOMAIN table \ Symbols :
                  n[1] >= 300 => <<TlPrefix(order + 1)>> \o n \in DOMAIN table
           /\ \A n \in program.floats \ pending :
                  <<TlPrefix(order + 1)>> \o n \in DOMAIN table

\* n is the first of the names.
IsFirst(n, names) == n \in names /\ \A m \in names \ {n} : Before(n, m)

\* Whatever the iterator of clear_intermediates has passed is ordinary, except
\* the first name; that one is then a derivative of tau, and so is the name
\* that would be first after it.
Clearing ==
    phase = "clear" =>
        /\ pending = {} /\ it \in DOMAIN table \cup {End}
        /\ \A n \in DOMAIN table :
               Removable(n) /\ (it = End \/ Before(n, it)) => IsFirst(n, DOMAIN table)
        /\ following = "sigma" => \A n \in DOMAIN table :
               /\ IsFirst(n, DOMAIN table) /\ Removable(n) => Tangent(n)
               /\ IsFirst(it, DOMAIN table) /\ Removable(it) /\ Removable(n)
                    /\ IsFirst(n, DOMAIN table \ {it}) => Tangent(n)

\* The output declares what the table knows beyond the ordinary symbols, but
\* for the one name that the clearing has left.
InOutput ==
    phase \in {"tau", "sigma"} =>
        /\ DOMAIN declared \subseteq DOMAIN table
        /\ \A n \in DOMAIN table \ Symbols :
               n \in DOMAIN declared \/ (phase = "sigma" /\ Tangent(n))
        /\ pending \cap DOMAIN declared = {}
        /\ \A n \in pending \cap program.floats : <<Prefix>> \o n \notin DOMAIN declared

TableInv ==
    /\ TableTyped /\ OrderKnown /\ SymbolsKept /\ TangentNames /\ Clearing /\ InOutput
    /\ NeverFails /\ DeclaredOnce
===============================================================================
