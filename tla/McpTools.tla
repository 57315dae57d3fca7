------------------------------- MODULE McpTools -------------------------------
(***************************************************************************)
(* The MCP bridge (src/mcp/mcp-tools.ts, src/mcp/bridge.ts): listAllMcpTools *)
(* follows the cursors of tools/list page by page, and register() and      *)
(* refresh() put what it returned into a ToolRegistry.  Several may be     *)
(* under way at once, and the server may change its catalogue meanwhile.   *)
(*                                                                         *)
(* The server is external: it pages through a sequence by offset.          *)
(***************************************************************************)
EXTENDS Integers, Sequences, SequencesExt

CONSTANTS
    ToolNames,
    Listings,     \* calls of register() and refresh()
    PageSize,     \* of the server
    MaxPages,     \* options.maxPages
    MaxChanges,   \* bound on what the server does to its catalogue
    Local, NobodyOwns

ASSUME McpAssumption ==
    /\ IsFiniteSet(ToolNames)
    /\ PageSize \in Nat \ {0} /\ MaxPages \in Nat \ {0} /\ MaxChanges \in Nat
    /\ Local \notin Listings /\ NobodyOwns \notin Listings \cup {Local}

VARIABLES
    catalogue,  \* the server's tools, in order
    changes,    \* what was done to it so far
    listing,    \* each listing: what it has, its cursors, when it began
    owner,      \* who put a tool of that name into the registry last
    looping     \* the server returns the first cursor over and over

mcpVars == <<catalogue, changes, listing, owner, looping>>

NotBegun == [at |-> "idle", tools |-> <<>>, cursor |-> 0, seen |-> {}, pages |-> 0, began |-> 0]

McpTypeOK ==
    /\ catalogue \in Seq(ToolNames) /\ IsInjective(catalogue)
    /\ changes \in 0 .. MaxChanges /\ looping \in BOOLEAN
    /\ listing \in [Listings -> [at : {"idle", "listing", "registered", "failed"},
            tools : Seq(ToolNames), cursor : Nat, seen : SUBSET Nat, pages : Nat, began : Nat]]
    /\ owner \in [ToolNames -> Listings \cup {Local, NobodyOwns}]

McpInit ==
    /\ catalogue \in SetToSeqs(ToolNames)
    /\ changes = 0 /\ looping \in BOOLEAN
    /\ listing = [l \in Listings |-> NotBegun]
    /\ owner \in [ToolNames -> {Local, NobodyOwns}]

-----------------------------------------------------------------------------

ListingBegins(l) ==
    /\ listing[l].at = "idle"
    /\ listing' = [listing EXCEPT ![l].at = "listing", ![l].began = changes]
    /\ UNCHANGED <<catalogue, changes, owner, looping>>

\* A page of the catalogue as it is now, and the cursor after it, 0 at the end.
Page(cursor) ==
    LET end == cursor + PageSize IN
    [tools |-> SubSeq(catalogue, cursor + 1, IF end < Len(catalogue) THEN end ELSE Len(catalogue)),
     next |-> IF end >= Len(catalogue) THEN 0 ELSE IF looping THEN PageSize ELSE end]

\* The page limit is reached and there is more.
Overlong(l, page) == page.next # 0 /\ listing[l].pages + 1 = MaxPages

\* Mutant: the page limit, or a cursor seen before, ends the listing.
Complete_AtLimit(l, page) ==
    page.next = 0 \/ listing[l].pages + 1 = MaxPages \/ page.next \in listing[l].seen

Complete(l, page) == page.next = 0

\* A name that is already there, a cursor seen before, or too many pages.
IsRefused(l, page) ==
    \/ ToSet(page.tools) \cap ToSet(listing[l].tools) # {}
    \/ ~Complete(l, page) /\ (page.next \in listing[l].seen \/ Overlong(l, page))

\* registerMany: the tools replace those of the same names.
Registered(l, tools) ==
    owner' = [n \in ToolNames |-> IF n \in ToSet(tools) THEN l ELSE owner[n]]

ReceivesPage(l) ==
    LET page == Page(listing[l].cursor)
        tools == listing[l].tools \o page.tools
    IN
    /\ listing[l].at = "listing"
    /\ IF IsRefused(l, page)
       THEN listing' = [listing EXCEPT ![l].at = "failed"] /\ UNCHANGED owner
       ELSE IF Complete(l, page)
       THEN /\ listing' = [listing EXCEPT ![l].at = "registered", ![l].tools = tools]
            /\ Registered(l, tools)
       ELSE /\ listing' = [listing EXCEPT ![l].tools = tools, ![l].pages = @ + 1,
                ![l].cursor = page.next, ![l].seen = @ \cup {page.next}]
            /\ UNCHANGED owner
    /\ UNCHANGED <<catalogue, changes, looping>>

\* The request fails or is aborted.
ListingFails(l) ==
    /\ listing[l].at = "listing"
    /\ listing' = [listing EXCEPT ![l].at = "failed"]
    /\ UNCHANGED <<catalogue, changes, owner, looping>>

\* register() of a tool of the program's own.
RegistersLocal(n) ==
    /\ owner[n] # Local
    /\ owner' = [owner EXCEPT ![n] = Local]
    /\ UNCHANGED <<catalogue, changes, listing, looping>>

\* The server removes a tool, or offers another one.
CatalogueChanges ==
    /\ changes < MaxChanges
    /\ \/ \E i \in DOMAIN catalogue : catalogue' = RemoveAt(catalogue, i)
       \/ \E n \in ToolNames \ ToSet(catalogue) : catalogue' = <<n>> \o catalogue
    /\ changes' = changes + 1
    /\ UNCHANGED <<listing, owner, looping>>

McpNext ==
    \/ CatalogueChanges
    \/ \E n \in ToolNames : RegistersLocal(n)
    \/ \E l \in Listings : ListingBegins(l) \/ ReceivesPage(l) \/ ListingFails(l)

McpSpec == McpInit /\ [][McpNext]_mcpVars

-----------------------------------------------------------------------------
(* Properties.                                                             *)

\* What is registered is a catalogue: a refresh that ends while the catalogue
\* is what it was when the refresh began has brought all of it, each tool once;
\* and no listing, whatever the server does in between or however it pages, ends
\* with two tools of one name or puts a tool in the registry before it ends.
CatalogueArrivesWhole ==
    \A l \in Listings :
        /\ IsInjective(listing[l].tools)
        /\ listing[l].at # "registered" => \A n \in ToolNames : owner[n] # l
        /\ listing[l].at = "registered" /\ listing[l].began = changes =>
            listing[l].tools = catalogue
===============================================================================
