----------------------------- MODULE KubeSelection -----------------------------
(* frontend/src/context/KubeContext.tsx: the context and the namespace that the
   user has selected in the top bar, for all pages.  The namespaces of a context
   are asked for when it is selected, unless they are cached; answers may come
   when another context is selected already.  An effect runs in the step that
   changed what it depends on. *)
EXTENDS Integers, FiniteSets

CONSTANTS
  Contexts,
  NamespacesOf,  \* the namespaces that each context has
  Preferred,     \* of these "default", or the first
  Nothing        \* ''

ASSUME NamespacesAssumption ==
  \A c \in Contexts : Preferred[c] \in NamespacesOf[c] /\ Nothing \notin NamespacesOf[c]
ASSUME NothingAssumption == Nothing \notin Contexts

VARIABLES
  selectedContext, selectedNamespace,
  namespaces,        \* what the menu offers
  cachedNamespacesByContext,
  asked,             \* contexts whose namespaces are being asked for
  contextsAsked,     \* the contexts are being asked for
  hasty,             \* history: a context was selected while an answer was due
  refused            \* history: a request has failed

selection == <<selectedContext, selectedNamespace, namespaces,
               cachedNamespacesByContext, asked, contextsAsked, hasty, refused>>

SelectionInit ==
  /\ selectedContext = Nothing /\ selectedNamespace = Nothing
  /\ namespaces = {}
  /\ cachedNamespacesByContext = [c \in {} |-> {}]
  /\ asked = {}
  /\ contextsAsked = TRUE
  /\ hasty = FALSE /\ refused = FALSE

\* The effect of a new context: its namespaces are known, or asked for.  Until they
\* come the old namespace stays selected.
UseCachedList(c) ==   \* mutant: the menu is not brought up to date
  /\ c \in DOMAIN cachedNamespacesByContext
  /\ selectedNamespace' = Preferred[c]
  /\ UNCHANGED <<namespaces, asked>>
UseCached(c) ==
  /\ c \in DOMAIN cachedNamespacesByContext
  /\ namespaces' = cachedNamespacesByContext[c]
  /\ selectedNamespace' = Preferred[c]
  /\ UNCHANGED asked
Ask(c) ==
  /\ c \notin DOMAIN cachedNamespacesByContext
  /\ asked' = asked \cup {c}
  /\ UNCHANGED <<namespaces, selectedNamespace>>

\* The contexts arrive: the first is selected.
ContextsArrive(c) ==
  /\ contextsAsked
  /\ contextsAsked' = FALSE
  /\ selectedContext' = c
  /\ UseCached(c) \/ Ask(c)
  /\ UNCHANGED <<cachedNamespacesByContext, hasty, refused>>
ContextsFail ==
  /\ contextsAsked
  /\ contextsAsked' = FALSE
  /\ refused' = TRUE
  /\ UNCHANGED <<selectedContext, selectedNamespace, namespaces,
                 cachedNamespacesByContext, asked, hasty>>

\* The user picks a context or a namespace from the menus.
handleContextChange(c) ==
  /\ Nothing \notin {selectedContext, c} /\ c # selectedContext
  /\ c \notin asked   \* bound: one request per context
  /\ selectedContext' = c
  /\ hasty' = (hasty \/ asked # {})
  /\ UseCached(c) \/ Ask(c)
  /\ UNCHANGED <<cachedNamespacesByContext, contextsAsked, refused>>
handleNamespaceChange(n) ==
  /\ n \in namespaces \ {selectedNamespace}
  /\ selectedNamespace' = n
  /\ UNCHANGED <<selectedContext, namespaces, cachedNamespacesByContext, asked,
                 contextsAsked, hasty, refused>>

\* An answer is taken whatever is selected when it comes, and kept under the
\* context it was asked for.
KeepUnderSelected(c) ==   \* mutant: the context is read when the answer comes
  cachedNamespacesByContext' =
    [x \in DOMAIN cachedNamespacesByContext \cup {selectedContext} |->
       IF x = selectedContext THEN NamespacesOf[c] ELSE cachedNamespacesByContext[x]]
KeepNamespaces(c) ==
  cachedNamespacesByContext' =
    [x \in DOMAIN cachedNamespacesByContext \cup {c} |->
       IF x = c THEN NamespacesOf[c] ELSE cachedNamespacesByContext[x]]
NamespacesArrive(c) ==
  /\ c \in asked
  /\ asked' = asked \ {c}
  /\ namespaces' = NamespacesOf[c]
  /\ selectedNamespace' = Preferred[c]
  /\ KeepNamespaces(c)
  /\ UNCHANGED <<selectedContext, contextsAsked, hasty, refused>>

\* The backend answers with an error, whose text has no namespaces; or nothing
\* comes back at all.
NamespacesRefused(c) ==
  /\ c \in asked
  /\ asked' = asked \ {c}
  /\ namespaces' = {}
  /\ selectedNamespace' = Nothing
  /\ refused' = TRUE
  /\ UNCHANGED <<selectedContext, cachedNamespacesByContext, contextsAsked, hasty>>
NamespacesLost(c) ==
  /\ c \in asked
  /\ asked' = asked \ {c}
  /\ refused' = TRUE
  /\ UNCHANGED <<selectedContext, selectedNamespace, namespaces,
                 cachedNamespacesByContext, contextsAsked, hasty>>

SelectionNext ==
  \/ ContextsFail
  \/ \E c \in Contexts :
       \/ ContextsArrive(c) \/ handleContextChange(c)
       \/ NamespacesArrive(c) \/ NamespacesRefused(c) \/ NamespacesLost(c)
  \/ \E n \in namespaces : handleNamespaceChange(n)

-----------------------------------------------------------------------------
AllNamespaces == UNION {NamespacesOf[c] : c \in Contexts}

\* The types; only a context that has been answered is cached.
SelectionTypeOK ==
  /\ selectedContext \in Contexts \cup {Nothing}
  /\ selectedNamespace \in AllNamespaces \cup {Nothing}
  /\ namespaces \subseteq AllNamespaces
  /\ DOMAIN cachedNamespacesByContext \subseteq Contexts \ asked
  /\ asked \subseteq Contexts
  /\ contextsAsked => selectedContext = Nothing

\* An answer that comes late is not kept for another context than its own.
CacheOwnsItsNamespaces ==
  \A c \in DOMAIN cachedNamespacesByContext :
    cachedNamespacesByContext[c] = NamespacesOf[c]

\* A user who lets each context's namespaces arrive, and is refused nothing, is
\* offered the namespaces of the context that is selected, and has one of them.
\* (One who does not may work in a context with another one's namespace.)
PatientUsersStayInTheirContext ==
  (selectedContext # Nothing /\ asked = {} /\ ~hasty /\ ~refused) =>
    /\ namespaces = NamespacesOf[selectedContext]
    /\ selectedNamespace \in NamespacesOf[selectedContext]
=============================================================================
