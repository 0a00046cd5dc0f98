---------------------------- MODULE PathControl ----------------------------
(***************************************************************************)
(* The string side of TortoiseShell/RootFolderCache.cpp and of the menu    *)
(* command that guards sandbox creation (MenuInfo.cpp): root folders are   *)
(* normalised when they are fetched, a path is compared with them by       *)
(* prefix, and the sandbox that Drop Sandbox and Retarget Sandbox act upon *)
(* is the one listed sandbox above the selected folder.  A path is the     *)
(* sequence of characters the code gets; what it means is a sequence of    *)
(* names, from which the inputs are made.                                  *)
(***************************************************************************)
EXTENDS Naturals, Sequences, SequencesExt

CONSTANTS
  Letters,      \* the characters of names
  Ascii,        \* those that ::tolower changes in the C locale
  Fold,         \* Fold[c]: the letter Windows takes for c, whatever the case of either
  Names,        \* the names (sequences of letters) that paths are made of
  MaxDepth,     \* bound on the number of names of a path
  MaxSandboxes  \* bound on the number of sandboxes

ASSUME LettersAssumption ==
  /\ "\\" \notin Letters
  /\ Ascii \subseteq Letters
  /\ Fold \in [Letters -> Letters] /\ \A c \in Letters : Fold[Fold[c]] = Fold[c]
  /\ Names \subseteq Seq(Letters) \ {<<>>}
  /\ MaxDepth \in Nat /\ MaxSandboxes \in Nat

VARIABLES
  roots,        \* the sandboxes' top folders, as the user knows them
  rootFolders,  \* the cached value: those, as fetchNewValue left them
  sandboxes,    \* their project files, as `si sandboxes' lists them
  question,     \* what was asked since: nothing, "controlled", "create" or "sandbox"
  asked,        \* the place it was asked of
  answer,       \* isPathControlled, or warnIfPathHasControlledDecendantFolders
  topLevel      \* getTopLevelSandbox, empty when it found none or several

pathVars == <<roots, rootFolders, sandboxes, question, asked, answer, topLevel>>
lists == <<roots, rootFolders, sandboxes>>

----------------------------------------------------------------------------
Separator == "\\"
Places    == UNION {[1..n -> Names] : n \in 1..MaxDepth}

\* The string of a place, as Explorer or the client spells it: a drive's root has a
\* trailing separator, other folders may.
Spellings(place) == LET s == FlattenSeq([i \in DOMAIN place |->
                                IF i = 1 THEN place[i] ELSE <<Separator>> \o place[i]])
                    IN  {s, Append(s, Separator)}

\* ::tolower, which leaves alone the case of the letters that are not ASCII.
LowerChar(c) == IF c \in Ascii THEN Fold[c] ELSE c
Lower(s)     == [i \in DOMAIN s |-> LowerChar(s[i])]

EndWithSeparator(s) == IF Last(s) = Separator THEN s ELSE Append(s, Separator)

\* startsWith(path, potentialAncestor)
StartsWith(path, potentialAncestor) == IsPrefix(potentialAncestor, EndWithSeparator(path))

\* Mutants: a root folder keeps its end, or its case.
NormalizeNoSeparator(s) == Lower(s)

NormalizeNoLower(s) == EndWithSeparator(s)

\* One entry of RootFolderCache::fetchNewValue.
NormalizeRoot(s) == Lower(EndWithSeparator(s))

\* A sandbox as getSandboxList has it: its project file, one character that no name has,
\* in its folder, all in lower case.
ProjectFile  == "project.pj"
SandboxId(s) == Lower(Append(EndWithSeparator(s), ProjectFile))

\* Mutant: the folder of a sandbox keeps the end it had.
SandboxFolderNoSeparator(id) == SubSeq(id, 1, Len(id) - 2)

\* What is left of a sandbox's name without its last component, with the separator that
\* getSandbox puts back.
SandboxFolder(id) == EndWithSeparator(SubSeq(id, 1, Len(id) - 2))

----------------------------------------------------------------------------
Unanswered == question = "none" /\ asked = <<>> /\ answer = FALSE /\ topLevel = <<>>

\* Windows compares names without regard to the case of any letter.
Folded(name)       == [i \in DOMAIN name |-> Fold[name[i]]]
SameName(m, n)     == Folded(m) = Folded(n)
Within(place, top) == /\ Len(top) <= Len(place)
                      /\ \A i \in 1..Len(top) : SameName(place[i], top[i])

\* A place is written like the folder it lies in but for the case of ASCII letters.
AlikeName(m, n)   == \A i \in DOMAIN m : m[i] = n[i] \/ (m[i] \in Ascii /\ n[i] \in Ascii)
Alike(place, top) == \A i \in 1..Len(top) : AlikeName(place[i], top[i])

\* Among the sandboxes, those the place lies in.
Around(place)  == {r \in roots : Within(place, r)}
Visible(place) == {r \in Around(place) : Alike(place, r)}

\* The string of a place with or without a trailing separator.
Spelled(place, ended) == CHOOSE s \in Spellings(place) : (Last(s) = Separator) <=> ended

\* The sandboxes of a machine, both lists fetched.
FetchNewValue ==
  \E n \in 0..MaxSandboxes : \E tops \in [1..n -> Places] :
    /\ roots = Range(tops)
    /\ \A p, q \in roots : Len(p) = Len(q) /\ Within(p, q) => p = q
    /\ \E ended \in [roots -> BOOLEAN] :
         /\ rootFolders = {NormalizeRoot(Spelled(r, ended[r])) : r \in roots}
         /\ sandboxes = {SandboxId(Spelled(r, ended[r])) : r \in roots}

PathInit == FetchNewValue /\ Unanswered

Ask(name, place) ==
  /\ question = "none"
  /\ question' = name
  /\ asked' = place
  /\ UNCHANGED lists

IsPathControlled(place) ==
  /\ Ask("controlled", place)
  /\ \E s \in Spellings(place) :
       answer' = \E r \in rootFolders : StartsWith(Lower(s), r)
  /\ UNCHANGED topLevel

\* The guard of the Create Sandbox command; TRUE is a refusal.
WarnIfPathHasControlledDecendantFolders(place) ==
  /\ Ask("create", place)
  /\ \E s \in Spellings(place) :
       answer' = \E r \in rootFolders : StartsWith(Lower(EndWithSeparator(s)), r)
  /\ UNCHANGED topLevel

\* Several sandboxes above the folder are an error, which leaves none.
GetTopLevelSandbox(place) ==
  /\ Ask("sandbox", place)
  /\ \E s \in Spellings(place) :
       LET above == {id \in sandboxes : StartsWith(Lower(s), SandboxFolder(id))} IN
       topLevel' = IF \E id \in above : above = {id} THEN CHOOSE id \in above : TRUE ELSE <<>>
  /\ UNCHANGED answer

\* The next question.
Forget ==
  /\ question # "none"
  /\ question' = "none" /\ asked' = <<>> /\ answer' = FALSE /\ topLevel' = <<>>
  /\ UNCHANGED lists

PathNext == \/ Forget
            \/ \E place \in Places : \/ IsPathControlled(place)
                                     \/ WarnIfPathHasControlledDecendantFolders(place)
                                     \/ GetTopLevelSandbox(place)

PathSpec == PathInit /\ [][PathNext]_pathVars

----------------------------------------------------------------------------
\* A path that is controlled is a root folder or lies below one, and all of those are
\* controlled, however both are spelled: no "ab" under a root "a", no difference of a
\* trailing separator or of the case of an ASCII letter.  (A path that Explorer writes
\* with another case of a letter that is not ASCII looks uncontrolled, since ::tolower
\* leaves it alone: of those nothing is claimed.)
ControlledIffWithin ==
  question = "controlled" => /\ answer => Around(asked) # {}
                             /\ Visible(asked) # {} => answer

\* "You cannot create sandboxes in other sandboxes (co-located sandboxes) using
\* TortoiseSI" (TortoiseSIUserGuide_en.html:156): the guard refuses every folder that is
\* in a sandbox, however deep.
NoSandboxWithinSandbox ==
  question = "create" => (Visible(asked) # {} => answer)

\* Drop Sandbox and Retarget Sandbox act on no sandbox but one the selected folder lies
\* in, and find it whenever there is just one; in nested sandboxes, they act on none.
ActsOnItsSandbox ==
  question = "sandbox" =>
    /\ topLevel # <<>> =>
         \E s \in UNION {Spellings(r) : r \in Around(asked)} :
           Lower(EndWithSeparator(s)) = SubSeq(topLevel, 1, Len(topLevel) - 1)
    /\ Visible(asked) = Around(asked) =>
         (topLevel # <<>> <=> \E r \in roots : Around(asked) = {r})

=============================================================================
