--------------------------- MODULE MCContextScopes ----------------------------
(* Model checking of the context layer, on either of two levels of detail,    *)
(* picked by the first state.  ContextScopes has two objects, two values and  *)
(* three scopes above the bottom one.  ContextHeap has memory for three saved *)
(* copies, and two objects with two values on two such scopes, or three       *)
(* objects with one value on one, for lists long enough to lose an element in *)
(* the middle.                                                                *)
EXTENDS ContextScopes, FiniteSets

CONSTANTS
  Null, MaxHeapLevel, MaxCells,
  Third, Other    \* the third object, the other value

\* Addresses are of three kinds that have none in common: objects, the null
\* pointer, and the numbers of scopes and saved copies.
ASSUME HeapBounds ==
  /\ MaxHeapLevel \in Nat /\ MaxCells \in Nat
  /\ IsFiniteSet(Obj \cup {Third}) /\ Null \notin Obj \cup {Third}
  /\ (Obj \cup {Third, Null}) \cap (0 .. MaxHeapLevel + MaxCells) = {}

VARIABLES
  model,          \* the module at work, and for the heap the number of objects
  heapLevel, popping, mem, free, freeStack

Heap == INSTANCE ContextHeap WITH
  Obj <- Obj \cup {Third}, level <- heapLevel, MaxLevel <- MaxHeapLevel

heapVars == <<heapLevel, popping, mem, free, freeStack>>

MCInit ==
  /\ model \in {"scopes", "heap of two", "heap of three"}
  /\ Init /\ Heap!Init

\* Three objects come with one value and one level less.
HeapNext ==
  /\ Heap!Next
  /\ IF model = "heap of three"
       THEN heapLevel' < MaxHeapLevel /\ \A n \in Heap!Node : mem'.data[n] # Other
       ELSE mem'.scope[Third] = NoScope

MCNext ==
  /\ UNCHANGED model
  /\ IF model = "scopes" THEN Next /\ UNCHANGED heapVars
                         ELSE HeapNext /\ UNCHANGED vars

MCSpec == MCInit /\ [][MCNext]_<<model, vars, heapVars>> /\ Heap!Fairness

-------------------------------------------------------------------------------
(* The properties of the heap, stated and explained in ContextHeap.           *)

\* No version in use points into released memory, also while a pop runs.
NoDanglingPointer == Heap!NoDanglingPointer

\* The lists of the scopes hold their versions, with links that lead back, and
\* a saved copy lies in the memory that its scope's pop releases.
ListsWellFormed == Heap!TypeOK /\ Heap!ChainsWellFormed /\ Heap!SavedInTopRegion

\* pop() comes to an end.
PopTerminates == Heap!PopTerminates

\* The linked lists implement ContextScopes.
ImplementsScopes == Heap!ImplementsScopes
===============================================================================
