--------------------------- MODULE ShellLifetime ---------------------------
(***************************************************************************)
(* How long TortoiseSI.dll stays in a process.  COM knows TortoiseStub.dll *)
(* only (TortoiseStub.cpp), whose DllGetClassObject loads the real DLL at  *)
(* the first call, and whose DllCanUnloadNow frees it when the real one    *)
(* says that nothing of it is in use.  The real one (TortoiseSI.cpp)       *)
(* counts its class factories, its shell objects and the property pages    *)
(* the shell keeps (ShellExt.cpp, ShellExtClassFactory.cpp,                *)
(* SIPropertyPage.cpp).                                                    *)
(*                                                                         *)
(* The stub has no lock: it is cut where it reads its three variables and  *)
(* where it assigns what it found; the assignments of NULL that follow one *)
(* another are one step.  An image is one mapping of the real DLL,         *)
(* numbered; a pointer is the number of the image it leads into, or NULL,  *)
(* 0.  Reference counts of single objects are left out: an object lives in *)
(* one apartment, and is there until its client lets go of it.             *)
(***************************************************************************)
EXTENDS Integers, FiniteSets

CONSTANTS
  Callers,      \* threads in which COM calls the stub
  Things,       \* class factories, shell objects and pages, by name
  Faults,       \* what may fail of a load: a subset of LoadFaults
  MaxImages     \* bound on how often the real DLL is mapped

LoadFaults == {"load", "DllGetClassObject", "DllCanUnloadNow"}

ASSUME LifetimeAssumption ==
  /\ Faults \subseteq LoadFaults
  /\ IsFiniteSet(Things)
  /\ MaxImages \in Nat

VARIABLES
  hTortoiseSI,        \* the stub's handle: "NULL", "NIL" (do not try again) or "dll"
  pDllGetClassObject, \* the stub's pointers into the real DLL
  pDllCanUnloadNow,
  image,              \* the image that is mapped, 0 when none is
  images,             \* how many there have been
  loads,              \* Windows' count of LoadLibrary less FreeLibrary
  pc,                 \* pc[t]: where caller t is in the stub
  thing,              \* thing[x]: what x is now
  g_cRefThisDll,      \* the real DLL's count of what is in use
  crashed,            \* history: a call went to no code
  overlapped,         \* history: two threads loaded, or one called while another unloaded
  halfResolved        \* history: a DLL that lacks DllCanUnloadNow was freed

stub == <<hTortoiseSI, pDllGetClassObject, pDllCanUnloadNow>>
windows == <<image, images, loads>>
real == <<thing, g_cRefThisDll>>
history == <<crashed, overlapped, halfResolved>>
vars == <<stub, windows, pc, real, history>>

----------------------------------------------------------------------------
Loading   == {"load", "clear", "resolveGet", "resolveCan"}
Getting   == Loading \cup {"check", "call", "inside"}
Unloading == {"ask", "free", "reset"}
Places    == {"idle"} \cup Getting \cup Unloading
InUse     == {"factory", "object", "page"}
Live      == {x \in Things : thing[x] \in InUse}
Image     == 0..MaxImages

At(t, where) == pc[t] = where
Go(t, where) == pc' = [pc EXCEPT ![t] = where]

TypeOK ==
  /\ hTortoiseSI \in {"NULL", "NIL", "dll"}
  /\ pDllGetClassObject \in Image /\ pDllCanUnloadNow \in Image
  /\ image \in Image /\ images \in Image
  /\ loads \in Nat
  /\ pc \in [Callers -> Places]
  /\ thing \in [Things -> {"none", "dying"} \cup InUse]
  /\ g_cRefThisDll \in Int
  /\ crashed \in BOOLEAN /\ overlapped \in BOOLEAN /\ halfResolved \in BOOLEAN

Init ==
  /\ hTortoiseSI = "NULL" /\ pDllGetClassObject = 0 /\ pDllCanUnloadNow = 0
  /\ image = 0 /\ images = 0 /\ loads = 0
  /\ pc = [t \in Callers |-> "idle"]
  /\ thing = [x \in Things |-> "none"] /\ g_cRefThisDll = 0
  /\ crashed = FALSE /\ overlapped = FALSE /\ halfResolved = FALSE

----------------------------------------------------------------------------
\* Windows' LoadLibrary and FreeLibrary: the first maps the DLL with its variables as
\* they are declared, the last unmaps it.
LoadLibrary ==
  /\ loads' = loads + 1
  /\ IF loads > 0 THEN UNCHANGED <<image, images, g_cRefThisDll>>
     ELSE /\ images < MaxImages
          /\ images' = images + 1
          /\ image' = images'
          /\ g_cRefThisDll' = 0

FreeLibrary ==
  /\ loads' = IF loads > 0 THEN loads - 1 ELSE 0
  /\ image' = IF loads > 1 THEN image ELSE 0
  /\ UNCHANGED images

\* DllGetClassObject, up to the test in LoadRealLibrary whether anything is to be done.
DllGetClassObject(t) ==
  /\ At(t, "idle")
  /\ Go(t, IF hTortoiseSI = "NULL" THEN "load" ELSE "check")
  /\ overlapped' = (overlapped \/ \E u \in Callers :
                      pc[u] \in Unloading \cup (IF hTortoiseSI = "NULL" THEN Loading ELSE {}))
  /\ UNCHANGED <<stub, windows, real, crashed, halfResolved>>

\* The settings keep the DLL for Explorer, or it cannot be loaded: LoadTortoiseSIDll
\* then returns NIL, in which no function is found.
LoadFails(t) ==
  /\ At(t, "load") /\ "load" \in Faults
  /\ hTortoiseSI' = "NIL"
  /\ \/ UNCHANGED <<pDllGetClassObject, pDllCanUnloadNow>>
     \/ pDllGetClassObject' = 0 /\ pDllCanUnloadNow' = 0
  /\ Go(t, "check")
  /\ UNCHANGED <<windows, real, history>>

LoadTortoiseSIDll(t) ==
  /\ At(t, "load")
  /\ LoadLibrary
  /\ hTortoiseSI' = "dll"
  /\ Go(t, "clear")
  /\ UNCHANGED <<pDllGetClassObject, pDllCanUnloadNow, thing, history>>

ClearPointers(t) ==
  /\ At(t, "clear")
  /\ pDllGetClassObject' = 0 /\ pDllCanUnloadNow' = 0
  /\ Go(t, "resolveGet")
  /\ UNCHANGED <<hTortoiseSI, windows, real, history>>

\* A DLL without the function is freed and not tried again; a pointer that was found
\* before stays.
ResolveFails(t, at, name) ==
  /\ At(t, at) /\ name \in Faults
  /\ FreeLibrary
  /\ hTortoiseSI' = "NIL"
  /\ Go(t, "check")
  /\ halfResolved' = (halfResolved \/ name = "DllCanUnloadNow")
  /\ UNCHANGED <<pDllGetClassObject, pDllCanUnloadNow, real, crashed, overlapped>>

ResolveGet(t) ==
  \/ ResolveFails(t, "resolveGet", "DllGetClassObject")
  \/ /\ At(t, "resolveGet")
     /\ pDllGetClassObject' = image
     /\ Go(t, "resolveCan")
     /\ UNCHANGED <<hTortoiseSI, pDllCanUnloadNow, windows, real, history>>

ResolveCan(t) ==
  \/ ResolveFails(t, "resolveCan", "DllCanUnloadNow")
  \/ /\ At(t, "resolveCan")
     /\ pDllCanUnloadNow' = image
     /\ Go(t, "check")
     /\ UNCHANGED <<hTortoiseSI, pDllGetClassObject, windows, real, history>>

\* if (!pDllGetClassObject) return CLASS_E_CLASSNOTAVAILABLE
Check(t) ==
  /\ At(t, "check")
  /\ Go(t, IF pDllGetClassObject = 0 THEN "idle" ELSE "call")
  /\ UNCHANGED <<stub, windows, real, history>>

\* The pointer, read again, is followed.
Follow(t, pointer, to) ==
  IF pointer # 0 /\ pointer = image THEN Go(t, to) /\ UNCHANGED crashed
                                    ELSE Go(t, "idle") /\ crashed' = TRUE

Call(t) ==
  /\ At(t, "call")
  /\ Follow(t, pDllGetClassObject, "inside")
  /\ UNCHANGED <<stub, windows, real, overlapped, halfResolved>>

----------------------------------------------------------------------------
\* The real DLL: a constructor, or the shell for a page (PSP_USEREFPARENT), counts.
Make(x, kind) ==
  /\ thing[x] = "none"
  /\ thing' = [thing EXCEPT ![x] = kind]
  /\ g_cRefThisDll' = g_cRefThisDll + 1

\* Its DllGetClassObject: a factory; or none, for an unknown class, or for an interface
\* it does not have, when the new factory is deleted at once.
CreateFactory(t) ==
  /\ At(t, "inside")
  /\ Go(t, "idle")
  /\ (\E x \in Things : Make(x, "factory")) \/ UNCHANGED real
  /\ UNCHANGED <<stub, windows, history>>

\* Mutant: an object whose QueryInterface fails is not deleted.
CreateInstanceLeaks ==
  /\ \E f \in Things : thing[f] = "factory"
  /\ \/ \E x \in Things : Make(x, "object")
     \/ g_cRefThisDll' = g_cRefThisDll + 1 /\ g_cRefThisDll < Cardinality(Things)
        /\ UNCHANGED thing
  /\ UNCHANGED <<stub, windows, pc, history>>

\* CreateInstance; an object whose QueryInterface fails is deleted at once.
CreateInstance ==
  /\ \E f \in Things : thing[f] = "factory"
  /\ \E x \in Things : Make(x, "object")
  /\ UNCHANGED <<stub, windows, pc, history>>

\* Mutant: a page without PSP_USEREFPARENT.
AddPagesUncounted ==
  /\ \E o \in Things : thing[o] = "object"
  /\ \E x \in Things : thing[x] = "none" /\ thing' = [thing EXCEPT ![x] = "page"]
  /\ UNCHANGED <<stub, windows, pc, g_cRefThisDll, history>>

\* AddPages; a page may stay when the object that added it has gone.
AddPages ==
  /\ \E o \in Things : thing[o] = "object"
  /\ \E x \in Things : Make(x, "page")
  /\ UNCHANGED <<stub, windows, pc, history>>

\* The last Release of a factory or an object, up to the InterlockedDecrement in its
\* destructor; the shell's release of a page, which counts last.
Release(x) ==
  /\ thing[x] \in InUse
  /\ thing' = [thing EXCEPT ![x] = IF @ = "page" THEN "none" ELSE "dying"]
  /\ g_cRefThisDll' = g_cRefThisDll - 1
  /\ UNCHANGED <<stub, windows, pc, history>>

\* The rest of the destructor.
Destroyed(x) ==
  /\ thing[x] = "dying"
  /\ thing' = [thing EXCEPT ![x] = "none"]
  /\ UNCHANGED <<stub, windows, pc, g_cRefThisDll, history>>

----------------------------------------------------------------------------
\* DllCanUnloadNow of the stub: without a real one to ask it goes on to free.
DllCanUnloadNow(t) ==
  /\ At(t, "idle")
  /\ Go(t, IF pDllCanUnloadNow = 0 THEN "free" ELSE "ask")
  /\ overlapped' = (overlapped \/ \E u \in Callers : ~At(u, "idle"))
  /\ UNCHANGED <<stub, windows, real, crashed, halfResolved>>

\* That of the real DLL.
AskReal(t) ==
  /\ At(t, "ask")
  /\ Follow(t, pDllCanUnloadNow, IF g_cRefThisDll = 0 THEN "free" ELSE "idle")
  /\ UNCHANGED <<stub, windows, real, overlapped, halfResolved>>

\* UnloadRealLibrary: FreeLibrary, unless there is nothing to free,
UnloadRealLibrary(t) ==
  /\ At(t, "free")
  /\ IF hTortoiseSI = "dll" THEN FreeLibrary ELSE UNCHANGED windows
  /\ Go(t, IF hTortoiseSI = "NULL" THEN "idle" ELSE "reset")
  /\ UNCHANGED <<stub, real, history>>

\* Mutant: the pointers are not reset.
ResetStubHandle(t) ==
  /\ At(t, "reset")
  /\ hTortoiseSI' = "NULL"
  /\ Go(t, "idle")
  /\ UNCHANGED <<pDllGetClassObject, pDllCanUnloadNow, windows, real, history>>

\* and the three assignments after it.
ResetStub(t) ==
  /\ At(t, "reset")
  /\ hTortoiseSI' = "NULL" /\ pDllGetClassObject' = 0 /\ pDllCanUnloadNow' = 0
  /\ Go(t, "idle")
  /\ UNCHANGED <<windows, real, history>>

Proceed(t) ==
  \/ LoadFails(t) \/ LoadTortoiseSIDll(t) \/ ClearPointers(t)
  \/ ResolveGet(t) \/ ResolveCan(t) \/ Check(t) \/ Call(t) \/ CreateFactory(t)
  \/ AskReal(t) \/ UnloadRealLibrary(t) \/ ResetStub(t)

Next ==
  \/ \E t \in Callers : DllGetClassObject(t) \/ DllCanUnloadNow(t) \/ Proceed(t)
  \/ CreateInstance \/ AddPages
  \/ \E x \in Things : Release(x) \/ Destroyed(x)

Spec == Init /\ [][Next]_vars

\* Threads go on, and COM asks again and again whether the DLL can go.
Fairness == /\ \A t \in Callers : WF_vars(Proceed(t))
            /\ SF_vars(\E t \in Callers : DllCanUnloadNow(t))

FairSpec == Spec /\ Fairness

----------------------------------------------------------------------------
\* No two loads and no unload overlapped, and no DLL without DllCanUnloadNow, which no
\* build of this one is, was resolved half.
Orderly == ~overlapped /\ ~halfResolved

\* Then no call of the stub goes to a DLL that has been freed or to no function at all:
\* also when a second thread finds the first one half way through the load, and when the
\* DLL was freed and is loaded again.
CallsMappedCode == Orderly => ~crashed

\* Then the real DLL is mapped once, and not freed while a factory, an object or a page of
\* it is in use.
MappedWhileInUse == Orderly => loads <= 1 /\ (Live # {} => image # 0)

\* When everything has been released and is not asked for again, the DLL is freed.
FreedInTheEnd ==
  (image # 0 /\ Live = {}) ~> (image = 0 \/ Live # {} \/ ~Orderly)

=============================================================================
