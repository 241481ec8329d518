------------------------------ MODULE Schemas ------------------------------
(***************************************************************************)
(* The classes a service declares its indices with: what the metaclasses   *)
(* of index types, schemas and classes with a schema accept when such a    *)
(* class is defined, and what its indices do when they are used.           *)
(***************************************************************************)
EXTENDS Sequences, Integers

Lists == {"ListIndex", "ProofListIndex"}
Maps == {"MapIndex", "ProofMapIndex"}
ProofIndices == {"ProofListIndex", "ProofMapIndex"}

\* An index type: what it is called, which class of the library it is or does the
\* same as (a developer may derive one from BaseIndex, under any name), and what
\* it was subscripted with: nothing, one type that is IntoBytes, one that is not,
\* or two types that are. Whatever else it is subscripted with raises at once.
Generics == {"none", "bytes", "other", "pair"}
IndexTypes == [name : Lists \union Maps \union {"own"},
               class : Lists \union Maps \union {"no_index"}, generic : Generics]

\* _one_index_type and _two_index_types, called when an index is initialized.
Instantiated(type) ==
    \/ type.class \in Lists /\ type.generic = "bytes"
    \/ type.class \in Maps /\ type.generic = "pair"

\* _SchemaMeta: every annotation has to be an index type.
SchemaAccepted(decl) ==
    /\ decl.schema = "Schema"
    /\ \A name \in DOMAIN decl.indices : decl.indices[name].class # "no_index"

\* Fault: any index of the schema may be in the state hash.
StateHashOfAnyIndex(decl) ==
    /\ decl.hashGiven
    /\ \A i \in DOMAIN decl.stateHash : decl.stateHash[i] \in DOMAIN decl.indices

\* _verify_state_hash_attr: the list has to be there, of names of the schema
\* whose types are called Proof*Index.
StateHashAccepted(decl) ==
    /\ decl.hashGiven
    /\ \A i \in DOMAIN decl.stateHash :
        /\ decl.stateHash[i] \in DOMAIN decl.indices
        /\ decl.indices[decl.stateHash[i]].name \in ProofIndices

\* _WithSchemaMeta.
Accepted(decl) ==
    /\ {"WithSchema", "Named"} \subseteq decl.bases
    /\ SchemaAccepted(decl)
    /\ StateHashAccepted(decl)

\* What index.object_hash() needs: the attribute, and no error before it.
Hashable(type) == type.class \in ProofIndices /\ Instantiated(type)

\* The identifier of an index, by its parts between the dots: instance names and
\* families may have dots of their own, names of indices may not.
IndexId(instance, name, family) == instance \o <<name>> \o family
=============================================================================
