------------------------- MODULE PropertyDiscovery --------------------------
(***************************************************************************)
(* How an MCP caller comes by the keys it asks for: phones put a value-    *)
(* free index of their vault, the caller lists the index of its user, and  *)
(* asks for some of what it lists.  One document per user, replaced as a   *)
(* whole and unconditionally: PUTs that overtake each other leave either.  *)
(***************************************************************************)
EXTENDS ConsentPipeline

CONSTANTS Accounts,    \* [tenant, object] of an access token
          Caller,      \* the account whose index and call are followed
          Manifests,   \* what a phone may PUT
          MaxPuts      \* bound on the PUTs that are accepted

ASSUME DiscoveryAssumption ==
  /\ Caller \in Accounts
  /\ \A a \in Accounts : a = [tenant |-> a.tenant, object |-> a.object]
  /\ \A properties \in Manifests : IsList(properties)
  /\ MaxPuts \in Nat

VARIABLES
  index,     \* per partition key: the versions of the index document, each
             \* with the account that put it
  listed,    \* what list_available_properties last returned
  informed   \* whether the caller asked for keys of that list

discoveryVars == <<index, listed, informed>>

----------------------------------------------------------------------------
(* Principal.partition_key; the mutant forgets the tenant. *)
PartitionOfObject(account) == <<account.object>>
PartitionKey(account) == <<account.tenant, account.object>>

Partitions == {PartitionKey(a) : a \in Accounts}
Puts == FoldFunction(LAMBDA log, n : Len(log) + n, 0, index)

DiscoveryInit ==
  /\ Init
  /\ index = [p \in Partitions |-> <<>>]
  /\ listed = <<>> /\ informed = FALSE

(* _metadata_tuple and validate_property_metadata, which is not the        *)
(* ValidateMetadata of an answer: an item is `listable' with any type that *)
(* matches a pattern and a label that need not be normalised.  The mutant  *)
(* only counts.                                                            *)
ManifestUnchecked(properties) == Len(properties) <= MaxAvailable
ManifestAccepted(properties) ==
  /\ Len(properties) <= MaxAvailable
  /\ IsInjective(KeysOf(properties))
  /\ \A i \in DOMAIN properties : properties[i].key \in Handles /\ properties[i].listable

(* put_property_index; a manifest that is refused gets 400.  Once the call *)
(* has been made, the index plays no further part in it.                   *)
PutPropertyIndex(account, properties) ==
  /\ stage = "called" /\ Puts < MaxPuts
  /\ ManifestAccepted(properties)
  /\ index' = [index EXCEPT ![PartitionKey(account)] =
                 Append(@, [by |-> account, properties |-> properties])]
  /\ UNCHANGED <<vars, listed, informed>>

(* list_available_properties.  A read may return any version there has     *)
(* been, or none, which is more than Session consistency lets it.          *)
ListAvailableProperties ==
  /\ stage = "called"
  /\ \E v \in 0 .. Len(index[PartitionKey(Caller)]) :
       listed' = IF v = 0 THEN <<>> ELSE index[PartitionKey(Caller)][v].properties
  /\ UNCHANGED <<vars, index, informed>>

(* "Use the exact returned key handles" (app.py:167): some of the listed,  *)
(* in any order, up to as many as a request may name.                      *)
ChoicesOf(keys) == {choice \in SeqOf(Range(keys), MaxRequested) : IsInjective(choice)} \ {<<>>}

RequestListed ==
  /\ \E choice \in ChoicesOf(KeysOf(listed)) : ParseKeys(choice)
  /\ informed' = TRUE
  /\ UNCHANGED <<index, listed>>

DiscoveryNext ==
  \/ \E account \in Accounts, m \in Manifests : PutPropertyIndex(account, m)
  \/ ListAvailableProperties
  \/ RequestListed
  \/ Next /\ UNCHANGED discoveryVars

DiscoverySpec == DiscoveryInit /\ [][DiscoveryNext]_<<vars, discoveryVars>>

----------------------------------------------------------------------------
(* A caller who does as the tool's description says is never refused its   *)
(* keys: what the phone's route lets into the index, perhaps on another    *)
(* day, is what the tool's parser lets into a request.                     *)
ListedKeysAreAccepted == informed => stage # "input_error"

(* What a caller is shown is one manifest as some phone of its own user    *)
(* put it, never one of another tenant's user or a mixture of two.         *)
OwnManifestIsListed ==
  listed # <<>> =>
    \E p \in Partitions : \E v \in DOMAIN index[p] :
      index[p][v] = [by |-> Caller, properties |-> listed]
=============================================================================
