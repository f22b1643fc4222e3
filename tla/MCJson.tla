------------------------------- MODULE MCJson -------------------------------
(* Four bindings of the same variables: an object of values, classes, a procedure call. *)
EXTENDS JsonBinding, JsonFactories

Int8 == [low |-> -128, high |-> 127]

Id(name) == <<name>>

Pair(at) ==
  ObjectClass(<<PropertyScalarMember(Id("u"), "int", Append(at, "u")),
                PropertyScalarAccessor(Id("v"), "bool", Methods(Append(at, "v")))>>)

Whole ==
  ValueObject(
    <<MemberPointer(Id("u"), "int", <<"u">>),
      MemberStringFunction(Id("s"), <<"s">>, 3),
      MemberReferenceFunction(Id("d"), "double", <<"d">>),
      MemberValue(Id("l"), ValueVector("int", <<"l">>, 2)),
      MemberValue(Id("h"), ValueArray(<<ValueGetterSetter("int", <<"h", 1>>), ValueString(<<"h", 2>>, 2)>>)),
      MemberValue(Id("o"), ValueObjectAccessor(TRUE, Pair(<<"o">>))),
      MemberValue(Id("k"), ValueObjectVector(<<Pair(<<"k", 1>>), Pair(<<"k", 2>>)>>)),
      MemberConstStringFunction(Id("n"), <<"n">>),
      MemberValue(Id("c"), Strings(<< <<"a", "\"">>, <<>>, <<"\t">> >>)),
      MemberValue(Id("p"), ValueObjectAccessor(FALSE, Pair(<<"o">>)))>>)

Class ==
  ObjectClass(
    <<PropertyScalarAccessor(Id("u"), "int", Functions(<<"u">>)),
      PropertyString(Id("s"), <<"s">>),
      PropertyScalarMember(Id("d"), "double", <<"d">>),
      PropertyVector(Id("l"), "int", <<"l">>, 2),
      PropertyObject(Id("o"), Pair(<<"o">>)),
      PropertyArrayOfObjects(Id("k"), <<Pair(<<"k", 1>>), Pair(<<"k", 2>>)>>)>>)

\* The same variables once more, by the other factories.
Other ==
  ObjectClass(
    <<PropertyExternValue(Id("u"), ValueAccessor("int", Pointer(<<"u">>), FALSE)),
      PropertyExternValue(Id("s"), ValueStringFunction(<<"s">>, 3)),
      PropertyExternValue(Id("d"), ValueReferenceFunction("double", <<"d">>)),
      PropertyExternValue(Id("l"), ValueArrayFunction("int", <<"l">>, 2)),
      PropertyStrings(Id("t"), <<"t">>, 2),
      PropertyExternValue(Id("o"),
        ValueObject(<<MemberPointerFunction(Id("u"), "int", <<"o", "u">>, TRUE),
                      MemberAccessor(Id("v"), "bool", Pointer(<<"o", "v">>), FALSE)>>)),
      PropertyArrayOfObjects(Id("k"), <<ObjectJson(<<[name |-> Id("u"), type |-> "int", at |-> <<"k", 1, "u">>]>>)>>),
      PropertyConstString(Id("n"), <<"n">>),
      PropertyExternValue(Id("p"), ValuePointerFunction("int", <<"u">>, FALSE))>>)

\* A call of a procedure and its reply, with parameters by name or in order.
Rpc ==
  ObjectClass(
    <<PropertyStringPointerMethod(Id("n"), <<"2", ".", "0">>),
      PropertyReferenceMethods(Id("o"),
        ObjectClass(<<PropertyScalarAccessor(Id("u"), "int", Methods(<<"o", "u">>)),
                      PropertyStringMemeber(Id("x"), <<"\t">>)>>)),
      Named1(Id("l"), Parameters(<<PropertyScalarMember(Id("u"), "int", <<"l", 1>>),
                                   PropertyScalarMember(Id("v"), "int", <<"l", 2>>)>>)),
      Named1(Id("k"), ParamsJson(<<[name |-> Id("u"), type |-> "int", at |-> <<"k", 1, "u">>],
                                   [name |-> Id("v"), type |-> "bool", at |-> <<"k", 1, "v">>]>>))>>)

MCBindings == [object |-> Whole, class |-> Class, other |-> Other, rpc |-> Rpc]

Chars(text, size) == [i \in 1..size |-> IF i <= Len(text) THEN text[i] ELSE NUL]
MCArrays == {<<"s">>, <<"h", 2>>, <<"n">>, <<"t", 1>>, <<"t", 2>>}
MCIntegers == {<<"u">>, <<"l", 1>>, <<"l", 2>>, <<"h", 1>>, <<"o", "u">>, <<"k", 1, "u">>, <<"k", 2, "u">>}
Booleans == {<<"o", "v">>, <<"k", 1, "v">>, <<"k", 2, "v">>}

Vars(n, t, x, d) ==
  [at \in MCIntegers |-> n] @@ [at \in Booleans |-> t] @@ (<<"d">> :> d)
    @@ (<<"s">> :> Chars(<<x, x>>, 3)) @@ [at \in {<<"h", 2>>, <<"t", 1>>, <<"t", 2>>} |-> Chars(<<x>>, 2)]
    @@ (<<"n">> :> Chars(<<"n", "\"">>, 3))
Blank  == Vars(0, FALSE, NUL, [m |-> 0, e |-> 0])
Filled == Vars(-128, TRUE, "\\", [m |-> -5, e |-> -2])
MCStores == {Blank, Filled}

-----------------------------------------------------------------------------
V(type, val, text) == [type |-> type, val |-> val, text |-> text]
List(vals) == V("list", vals, <<>>)
Obj(members) == V("object", members, <<>>)
M(name, v) == << <<name>>, v >>

One    == V("int", 1, <<"1">>)
Low    == V("int", -128, <<"-", "1", "2", "8">>)
High   == V("int", 128, <<"1", "2", "8">>)
Half   == V("double", [m |-> 5, e |-> -1], <<"0", ".", "5">>)
Big    == V("double", [m |-> -125, e |-> 6], <<"-", "1", ".", "2", "5", "e", "+", "8">>)
Empty  == V("chars", <<>>, <<"\"", "\"">>)
Brace  == V("chars", <<"}">>, <<"\"", "}", "\"">>)
Tabbed == V("chars", <<"\t", "A">>, <<"\"", "\\", "t", "\\", "u", "0", "0", "4", "1", "\"">>)
Long   == V("chars", <<"a", "\"", "b">>, <<"\"", "a", "\\", "\"", "b", "\"">>)
True   == V("bool", TRUE, TrueL)
False  == V("bool", FALSE, FalseL)
Null   == V("null", 0, NullL)
Scalars == {One, Low, High, Half, Big, Empty, Brace, Tabbed, Long, True, False, Null}

Containers ==
  {List(<<>>), List(<<One>>), List(<<One, Low>>), List(<<One, One, One>>), List(<<One, Brace>>),
   List(<<Brace, One>>), List(<<List(<<One>>), List(<<>>)>>),
   Obj(<<>>), Obj(<<M("u", One)>>), Obj(<<M("v", True), M("u", Low)>>), Obj(<<M("x", Brace)>>),
   Obj(<<M("x", Obj(<<M("x", List(<<One, Obj(<<>>)>>))>>))>>),
   List(<<Obj(<<M("u", One)>>)>>), List(<<Obj(<<M("v", False)>>), Obj(<<M("u", One), M("v", True)>>)>>)}

Names == {<<"u">>, <<"s">>, <<"d">>, <<"l">>, <<"h">>, <<"o">>, <<"k">>, <<"n">>, <<"p">>, <<"t">>, <<"c">>,
          <<"x">>, <<"u", "u">>, <<"u", "u", "u", "u">>}

Tight == <<>>
Loose == <<"\n", " ">>
Doc(members, space) == [members |-> members, space |-> space]
Singles == {Doc(<< <<n, v>> >>, space) : n \in Names, v \in Scalars \cup Containers, space \in {Tight, Loose}}

PairNames == {<<"u">>, <<"s">>, <<"l">>, <<"o">>, <<"x">>}
PairValues == {One, Half, Long, Tabbed, True, Null, List(<<One, Low>>), List(<<Brace, One>>),
               Obj(<<M("v", True), M("u", Low)>>)}
Pairs == {Doc(<< <<n1, v1>>, <<n2, v2>> >>, Tight) :
            n1 \in PairNames, v1 \in PairValues, n2 \in PairNames, v2 \in PairValues}

MCDocs == {Doc(<<>>, Tight), Doc(<<>>, Loose)} \cup Singles \cup Pairs
MCCutDocs == {Doc(<< <<n, v>>, M("x", v) >>, Tight) : n \in Names, v \in PairValues}
               \cup {d \in Singles : d.space = Tight}
=============================================================================
