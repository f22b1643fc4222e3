--------------------------- MODULE JsonFactories ---------------------------
(***************************************************************************)
(* The function templates of cojson with which an application says what    *)
(* its JSON looks like: each makes one of the values, members or           *)
(* properties JsonReaders and JsonWriters know.  at is the address of a    *)
(* variable, id a name, x an accessor; a vector of accessors stands for an *)
(* accessor with is_vector.                                                *)
(***************************************************************************)
EXTENDS JsonReaders

Scalar(type, x)      == [kind |-> "scalar", type |-> type, x |-> x]
Vector(type, xs)     == [kind |-> "vector", type |-> type, items |-> xs]
String(at, size)     == [kind |-> "string", at |-> at, size |-> size]
Named1(id, value)    == [name |-> id, value |-> value]
ObjectVal(has, clas) == [kind |-> "objectval", has |-> has, value |-> clas]
Readonly(text)       == [kind |-> "readonly", text |-> text]
Strings(texts)       == [kind |-> "strings", texts |-> texts]
Object(members)      == [kind |-> "object", members |-> members]
Array(items)         == [kind |-> "array", items |-> items]
Clas(properties)     == [kind |-> "clas", members |-> properties]
Propertyx(id, type, x) == Named1(id, Scalar(type, x))

-----------------------------------------------------------------------------
(* Values.                                                                 *)

ValueObject(members) == Object(members)
ValueArray(items)    == Array(items)

ValueString(at, size)         == String(at, size)
ValueStringFunction(at, size) == String(at, size)
ValueConstStringFunction(at)  == String(at, 0)

ValueAccessor(type, x, isVector) == IF isVector THEN Vector(type, x) ELSE Scalar(type, x)

\* has: whether the pointer to the object is set.
ValueObjectAccessor(has, clas) == ObjectVal(has, clas)
ValueObjectVector(clases)      == [kind |-> "objectlist", items |-> clases]

ValuePointer(type, at)              == Scalar(type, Pointer(at))
ValueReferenceFunction(type, at)    == Scalar(type, Reference(at))
ValuePointerFunction(type, at, has) == Scalar(type, Function(at, has))
ValueGetterSetter(type, at)         == Scalar(type, Functions(at))
ValueVector(type, at, n)            == Vector(type, Items(at, n))
ValueArrayFunction(type, at, n)     == Vector(type, Items(at, n))

-----------------------------------------------------------------------------
(* Members of an object.                                                   *)

MemberValue(id, value)               == Named1(id, value)
MemberStringFunction(id, at, size)   == Named1(id, ValueStringFunction(at, size))
MemberConstStringFunction(id, at)    == Named1(id, ValueConstStringFunction(at))
MemberAccessor(id, type, x, isVector) == Named1(id, ValueAccessor(type, x, isVector))
MemberReferenceFunction(id, type, at) == Named1(id, ValueReferenceFunction(type, at))
MemberPointer(id, type, at)          == Named1(id, ValuePointer(type, at))
MemberPointerFunction(id, type, at, has) == Named1(id, ValuePointerFunction(type, at, has))

-----------------------------------------------------------------------------
(* Properties of a class.                                                  *)

PropertyScalarMember(id, type, at)  == Propertyx(id, type, Field(at))
PropertyScalarAccessor(id, type, x) == Propertyx(id, type, x)
PropertyConstString(id, text)       == Named1(id, Readonly(text))
PropertyVector(id, type, at, n)     ==
  Named1(id, [kind |-> "pvector", type |-> type, items |-> Items(at, n)])
PropertyString(id, at)              == Propertyx(id, "chars", Field(at))
PropertyStrings(id, at, n)          == PropertyVector(id, "chars", at, n)
PropertyObject(id, clas)            == Named1(id, clas)
PropertyArrayOfObjects(id, clases)  == Named1(id, [kind |-> "pobjects", items |-> clases])
PropertyExternValue(id, value)      == Named1(id, value)

ObjectClass(properties) == Clas(properties)
\* A class of which all properties are members: FieldPointers::json.
ObjectJson(fields) ==
  ObjectClass([i \in DOMAIN fields |->
                 PropertyScalarMember(fields[i].name, fields[i].type, fields[i].at)])

-----------------------------------------------------------------------------
(* What micurpc adds: the strings and the error of a reply, the parameters *)
(* of a procedure.                                                         *)

PropertyStringMemeber(id, text)       == Named1(id, Readonly(text))
PropertyStringPointerMethod(id, text) == Named1(id, Readonly(text))
PropertyReferenceMethods(id, clas)    == Named1(id, clas)

Parameters(properties) == [kind |-> "params", members |-> properties]
\* Parameters that are all members: Params::Names::FieldPointers::json.
ParamsJson(fields) ==
  Parameters([i \in DOMAIN fields |->
                PropertyScalarMember(fields[i].name, fields[i].type, fields[i].at)])
=============================================================================
