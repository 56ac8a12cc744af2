--------------------------- MODULE ComponentLibrary ---------------------------
(***************************************************************************)
(* Components in shared libraries: SharedLibrary (shared_library.cc) opens *)
(* and closes libraries, the static proxies of REGISTER_COMPONENT enter a  *)
(* library's component into the map of ComponentFactory when its code is   *)
(* loaded, and CreateSingleComponent calls what the map holds.  dlopen and *)
(* dlclose count references per library; the code is loaded from the first *)
(* to the last.  Nothing takes the entry out of the map when the code goes. *)
(***************************************************************************)
EXTENDS Integers, FiniteSets, FiniteSetsExt

CONSTANTS Library, Name, Holder,  \* Holder: the SharedLibrary objects
          NameOf(_),              \* the component that a library registers
          None, MaxLoads, MaxRefs \* bounds: calls of Load per object, references of a library

VARIABLES path,        \* path[o]: the library of the object, None while there is no object
          handle,      \* handle[o]: handle_ is not null
          refs,        \* references of a library
          components,  \* components_map_: the library whose callback is entered
          opens, closes,  \* history: successful dlopen and dlclose calls of an object
          overclosed,  \* history: an object closed more often than it had opened
          leaked,      \* history: an object was destroyed with references left
          unregistered, \* history: names unregistered since code with that name was loaded
          later,       \* history: later[l]: libraries of l's name whose code was loaded after l's
          forgotten,   \* history: code was unloaded while its component's name was in the map
          crashed      \* code was called that is not there: the process is gone
objects == <<path, handle, opens, closes, leaked>>
registry == <<components, unregistered, later>>
vars == <<objects, refs, overclosed, registry, forgotten, crashed>>

Init ==
    /\ path = [o \in Holder |-> None] /\ handle = [o \in Holder |-> FALSE]
    /\ refs = [l \in Library |-> 0]
    /\ components = [n \in Name |-> None]
    /\ opens = [o \in Holder |-> 0] /\ closes = [o \in Holder |-> 0]
    /\ overclosed = FALSE /\ leaked = FALSE /\ unregistered = {}
    /\ later = [l \in Library |-> {}] /\ forgotten = FALSE /\ crashed = FALSE

\* The callback of n is code that was unloaded.
Stale(n) == components[n] # None /\ refs[components[n]] = 0

RegisterComponent(n, l) == components' = [components EXCEPT ![n] = l]

\* The proxy of l runs.  The function object that was in the map is destroyed,
\* which calls code of its own library, or the same code of another one.
Entered(l) ==
    LET n == NameOf(l)
    IN  /\ RegisterComponent(n, l)
        /\ crashed' \in {FALSE, Stale(n)}
        /\ unregistered' = unregistered \ {n}
        /\ later' = [k \in Library |-> IF k = l THEN {}
                                       ELSE IF NameOf(k) = n THEN later[k] \cup {l} ELSE later[k]]

\* Slip: code that is there already is not counted again.
dlopenOnce(o, l) ==
    /\ refs' = [refs EXCEPT ![l] = 1]
    /\ IF refs[l] = 0 THEN Entered(l) ELSE UNCHANGED <<registry, crashed>>
    /\ handle' = [handle EXCEPT ![o] = TRUE] /\ opens' = [opens EXCEPT ![o] = @ + 1]

\* dlopen of library l, whose proxies run when its code is loaded
dlopen(o, l) ==
    /\ refs' = [refs EXCEPT ![l] = @ + 1]
    /\ IF refs[l] = 0 THEN Entered(l) ELSE UNCHANGED <<registry, crashed>>
    /\ handle' = [handle EXCEPT ![o] = TRUE] /\ opens' = [opens EXCEPT ![o] = @ + 1]

\* Load: a failure leaves a null handle, also over one that was closed.
Load(o, l) ==
    \/ dlopen(o, l)
    \/ /\ refs[l] = 0 /\ handle' = [handle EXCEPT ![o] = FALSE]
       /\ UNCHANGED <<refs, registry, crashed, opens>>

Construct(o, l) ==
    /\ path[o] = None /\ refs[l] < MaxRefs
    /\ path' = [path EXCEPT ![o] = l]
    /\ Load(o, l)
    /\ UNCHANGED <<closes, overclosed, leaked, forgotten>>

LoadAgain(o) ==
    /\ path[o] # None /\ opens[o] < MaxLoads /\ refs[path[o]] < MaxRefs
    /\ Load(o, path[o])
    /\ UNCHANGED <<path, closes, overclosed, leaked, forgotten>>

\* dlclose of the handle, which stays where it was.  Closing what nobody has
\* open is an error that nobody looks at.
dlclose(o) ==
    /\ refs' = [refs EXCEPT ![path[o]] = IF @ > 0 THEN @ - 1 ELSE 0]
    /\ overclosed' = (overclosed \/ closes[o] >= opens[o])
    /\ forgotten' = (forgotten \/ (refs[path[o]] = 1 /\ components[NameOf(path[o])] # None))

Unload(o) ==
    /\ path[o] # None /\ handle[o] /\ closes[o] <= MaxLoads
    /\ dlclose(o)
    /\ closes' = [closes EXCEPT ![o] = @ + 1]
    /\ UNCHANGED <<path, handle, opens, leaked, registry, crashed>>

Gone(o) ==
    /\ path' = [path EXCEPT ![o] = None] /\ handle' = [handle EXCEPT ![o] = FALSE]
    /\ opens' = [opens EXCEPT ![o] = 0] /\ closes' = [closes EXCEPT ![o] = 0]
    /\ UNCHANGED <<registry, crashed>>

\* The destructor unloads once, whatever was loaded and unloaded before.
Destroy(o) ==
    /\ path[o] # None
    /\ IF handle[o] THEN dlclose(o) ELSE UNCHANGED <<refs, overclosed, forgotten>>
    /\ leaked' = (leaked \/ opens[o] > closes[o] + 1)
    /\ Gone(o)

UnregisterComponent(n) ==
    /\ components[n] # None
    /\ components' = [components EXCEPT ![n] = None] /\ unregistered' = unregistered \cup {n}
    /\ crashed' \in {FALSE, Stale(n)}
    /\ UNCHANGED <<objects, refs, overclosed, later, forgotten>>

\* CreateSingleComponent calls the callback, if there is one.
CreateSingleComponent(n) ==
    /\ crashed' = Stale(n)
    /\ UNCHANGED <<objects, refs, overclosed, registry, forgotten>>

Next ==
    /\ ~crashed
    /\ \/ \E o \in Holder : LoadAgain(o) \/ Unload(o) \/ Destroy(o) \/ \E l \in Library : Construct(o, l)
       \/ \E n \in Name : UnregisterComponent(n) \/ CreateSingleComponent(n)

Spec == Init /\ [][Next]_vars

-----------------------------------------------------------------------------
TypeOK ==
    /\ path \in [Holder -> Library \cup {None}] /\ handle \in [Holder -> BOOLEAN]
    /\ refs \in [Library -> Nat] /\ components \in [Name -> Library \cup {None}]
    /\ opens \in [Holder -> 0..MaxLoads] /\ closes \in [Holder -> 0..(MaxLoads + 1)]
    /\ overclosed \in BOOLEAN /\ leaked \in BOOLEAN /\ unregistered \subseteq Name
    /\ later \in [Library -> SUBSET Library] /\ forgotten \in BOOLEAN /\ crashed \in BOOLEAN

\* The references of a library are the opens of its objects that are not closed,
\* as long as no object closed too often (Unload, and the destructor's own) and
\* none was destroyed too early (Load twice, one destructor).
RefsAreHolders ==
    ~overclosed /\ ~leaked =>
        \A l \in Library :
            refs[l] = MapThenSumSet(LAMBDA o : opens[o] - closes[o], {o \in Holder : path[o] = l})

\* While no object has closed too often, one that has not closed all it opened
\* finds its library's code: LookUp and what it returned are safe.
HolderKeepsLibrary ==
    ~overclosed => \A o \in Holder : path[o] # None /\ opens[o] > closes[o] => refs[path[o]] > 0

\* The entry for the name of a loaded library is that library's own or, where
\* several register one name, that of one whose code was loaded after it, unless
\* the name was unregistered since.  That one may be gone again: then the name of
\* a library that is there cannot be created.
LoadedIsEntered ==
    \A l \in Library :
        refs[l] > 0 /\ NameOf(l) \notin unregistered => components[NameOf(l)] \in {l} \cup later[l]

\* Where names are unregistered before the last dlclose of their library, every
\* entry is code that is there, and creating, replacing or erasing a component
\* calls no other.  Nothing else in the code makes it so.
UnregisteredFirst == ~forgotten => ~crashed /\ \A n \in Name : ~Stale(n)
=============================================================================
