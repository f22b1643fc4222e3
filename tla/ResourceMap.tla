---------------------------- MODULE ResourceMap ----------------------------
(***************************************************************************)
(* The templates an application builds its resource map from (namespace    *)
(* resource and accessor of micurest.hpp).  A node is described by what    *)
(* Resources needs to know of it; an entry says when it matches a section  *)
(* of the path and which node it leads to.  In the source a File is the    *)
(* entry and the node behind it; here the entry is made of the node's name *)
(* by EntryGenericResource.                                                *)
(***************************************************************************)
EXTENDS Resources

Node(kind, media, size) == [kind |-> kind, media |-> media, size |-> size, entries |-> <<>>]

\* Accessors: how the value behind a node is reached.
Pointer   == "num"
Function  == "num"
Functions == "func"

Array(length)  == [kind |-> "array", size |-> length]
Vector(length) == [kind |-> "items", size |-> length]
Bunch(length)  == [kind |-> "bunch", size |-> length]

\* Nodes
Numeric(accessor)                   == Node(accessor, "json", 0)
NodeTextFuction(media)              == Node("const", media, 0)
NodeProvider(media)                 == Node("provider", media, 0)
NodeAction(length)                  == Node("action", "plain", length)
NodeJSON(members)                   == Node("json", "json", members)
NodeJSONRpc(members, media)         == Node("json", media, members)
NodeIndexedVector(accessor, media)  == Node(accessor.kind, media, accessor.size)

\* Files
FileAccessor(accessor)  == Numeric(accessor)
FileVariable            == Numeric(Pointer)
FileFunctions           == Numeric(Functions)
FileConstString(media)  == NodeTextFuction(media)
FileText(size)          == Node("text", "plain", size)
FileBinary(size)        == Node("octets", "octet_stream", size)

\* Directories
Dir(entries)  == [kind |-> "dir", media |-> "unknown", size |-> 0, entries |-> entries]
TopDir(entries) == Dir(entries)

\* Entries: matching by name, or by number with the same node for all or one for each.
EntryGenericResource(id, n) == [by |-> "name", name |-> id, node |-> [i \in Identity |-> n]]
EntryIndexedResource(n)     == [by |-> "number", name |-> "", node |-> [i \in Identity |-> n]]
EntryDynamicResource(nodes) == [by |-> "number", name |-> "", node |-> nodes]
=============================================================================
