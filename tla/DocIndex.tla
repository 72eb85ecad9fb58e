------------------------------ MODULE DocIndex ------------------------------
(***************************************************************************)
(* The documentation index: a build collects the documents, renders each   *)
(* to its HTML sibling and then emits the index, TOC.md, TOC.html and      *)
(* TOC.json, whose links it has verified.                                  *)
(*                                                                         *)
(* The pipeline exists twice: scripts/build_toc.py for the repository's    *)
(* own documents, whose index lists itself and feeds the document library, *)
(* and onboard_scaffold/vf_toc.py, which the board ships to projects.      *)
(* Nothing keeps people and agents from editing while a build runs, a      *)
(* render may fail, and a build may end between any two of its steps.      *)
(*                                                                         *)
(* Its names are its own, so that OnboardingProofs can extend it beside    *)
(* Onboarding.                                                             *)
(***************************************************************************)
EXTENDS Naturals, FiniteSets

CONSTANTS
  Live, Progress, Archived,  \* documents by the folder they are in
  Curated,                   \* documents that the library bundles
  Bodies,                    \* what a document may say
  Misfiled,                  \* texts whose frontmatter names another folder
  Flavors,                   \* the pipelines of this instance
  MaxSlips,                  \* bound on edits, failed renders, ended and --no-render builds
  Absent                     \* no file

Docs == Live \cup Progress \cup Archived

ASSUME IndexAssumption ==
  /\ Misfiled \subseteq Bodies /\ Curated \subseteq Live /\ Absent \notin Bodies
  /\ Live \cap Progress = {}
  /\ Flavors \subseteq {"repo", "scaffold"} /\ MaxSlips \in Nat

VARIABLES
  flavor,   \* which of the two pipelines this is
  md,       \* the documents: the text of each, or Absent
  html,     \* their rendered siblings: the text each was rendered from
  tocMd, tocHtml,  \* the index pages, each a Page or Absent
  tocJson,  \* the set of its entries, or Absent
  temp,     \* .toc_html_source.md, the source of TOC.html while it is rendered
  tempHtml, \* its rendered sibling
  bundle,   \* the document library: the set of its entries, or Absent
  build,    \* the build that runs: where it is, what it collected, what is left to render
  slips     \* edits, failures and the like so far

files == <<md, html, tocMd, tocHtml, tocJson, temp, tempHtml, bundle>>
indexVars == <<flavor, files, build, slips>>

-----------------------------------------------------------------------------
(* The files *)

TOC == "TOC.md"
TEMP == ".toc_html_source.md"
LIBRARY == "library"
Names == Docs \cup {TOC, TEMP, LIBRARY}

\* No document has such a name, and NULL is told from a library.
ASSUME NamesAssumption ==
  /\ Docs \cap {TOC, TEMP, LIBRARY} = {}
  /\ \A S \in SUBSET (Docs \X Bodies) : S # Absent

Content(n) ==
  CASE n \in Docs -> md[n]
    [] n = TOC -> tocMd
    [] n = TEMP -> temp
    [] n = LIBRARY -> bundle

Exists(n) == Content(n) # Absent

\* collect_docs and collect_progress: what lies under a scanned class and not under archived.
collect_docs == {d \in Live \cup Progress : Exists(d)}

\* walk_md globs the folder that the index itself and its temporary source are in.
walk_md == {n \in Live \cup {TOC, TEMP} : Exists(n)}
walk_progress == {d \in Progress : Exists(d)}
walk_library == {n \in {LIBRARY} : Exists(n)}

Indexed == IF flavor = "repo" THEN walk_md \cup walk_progress \cup walk_library ELSE collect_docs

\* What a record of TOC.json keeps of a file: the hash of its content.
doc_entry(n) == <<n, Content(n)>>

audit_audience_folders == \A d \in Live : md[d] \notin Misfiled

\* Mutant: a document that has a rendered sibling is not rendered again.
OnlyMissing(names) == {n \in names \cap Docs : html[n] = Absent}

\* The repository renders neither its progress files nor the library.
Renderable(names) == IF flavor = "repo" THEN names \ (Progress \cup {LIBRARY}) ELSE names

\* _verify_target, _missing_html: whether a link to the rendered sibling lands on a file.
Rendered(n) ==
  CASE n \in Docs -> html[n] # Absent
    [] n = TOC -> tocHtml # Absent
    [] n = TEMP -> tempHtml
    [] n = LIBRARY -> Exists(n)

\* render_progress_table falls back to the source without a mark.
MissingHtml(names) ==
  {n \in names : ~Rendered(n)} \ (IF flavor = "repo" THEN Progress ELSE {})

\* An index page has the documents it lists and those it marks as missing.
\* build_markdown, render_doc_table: links to the sources.
MdPage(names) == [links |-> "md", docs |-> names, missing |-> {n \in names : ~Exists(n)}]

\* build_html, render_doc_table: links to the siblings.
HtmlPage(names) == [links |-> "html", docs |-> names, missing |-> MissingHtml(names)]

NoBuild == [at |-> "idle", entries |-> {}, todo |-> {}, quiet |-> FALSE]

Listed == {e[1] : e \in build.entries}

IndexInit ==
  /\ flavor \in Flavors
  /\ md \in [Docs -> {Absent} \cup (Bodies \ Misfiled)]
  /\ html = [d \in Docs |-> Absent]
  /\ tocMd = Absent /\ tocHtml = Absent /\ tocJson = Absent
  /\ temp = Absent /\ tempHtml = FALSE /\ bundle = Absent
  /\ build = NoBuild /\ slips = 0

-----------------------------------------------------------------------------
(* The build *)

Slip == slips < MaxSlips /\ slips' = slips + 1

Go(place) == build' = [build EXCEPT !.at = place]

\* Where the index begins: the repository writes TOC.json first, the scaffold last.
FirstOutput == IF flavor = "repo" THEN "json" ELSE "md"

\* Mutant: the index is emitted without waiting for the renders.
EmitAtOnce == FirstOutput

AfterCollect == "render"

\* The audit refuses the whole build; --no-render skips the renders.
Collect(render) ==
  /\ build = NoBuild
  /\ flavor = "repo" => audit_audience_folders
  /\ build' = [at |-> AfterCollect, entries |-> {doc_entry(n) : n \in Indexed},
               todo |-> IF render THEN Renderable(Indexed) ELSE {}, quiet |-> render]
  /\ IF render THEN UNCHANGED slips ELSE Slip
  /\ UNCHANGED <<flavor, files>>

\* render_doc, render: one source to its sibling; TOC.md's sibling is TOC.html.
Write(n) ==
  /\ html' = IF n \in Docs THEN [html EXCEPT ![n] = md[n]] ELSE html
  /\ tocHtml' = IF n = TOC THEN tocMd ELSE tocHtml
  /\ tempHtml' = (tempHtml \/ n = TEMP)

\* orchestrate_renders, render_pass: a source that is gone is skipped, an exception is printed.
Render(n) ==
  /\ build.at = "render" /\ n \in build.todo
  /\ \/ /\ Exists(n) /\ Write(n)
        /\ build' = [build EXCEPT !.todo = @ \ {n}]
        /\ UNCHANGED slips
     \/ /\ IF Exists(n) THEN Slip ELSE UNCHANGED slips
        /\ build' = [build EXCEPT !.todo = @ \ {n}, !.quiet = FALSE]
        /\ UNCHANGED <<html, tocHtml, tempHtml>>
  /\ UNCHANGED <<flavor, md, tocMd, tocJson, temp, bundle>>

RenderDone ==
  /\ build.at = "render" /\ build.todo = {}
  /\ Go(FirstOutput)
  /\ UNCHANGED <<flavor, files, slips>>

WriteJson ==
  /\ build.at = "json"
  /\ tocJson' = build.entries
  /\ IF flavor = "repo" THEN Go("md") ELSE build' = NoBuild
  /\ UNCHANGED <<flavor, md, html, tocMd, tocHtml, temp, tempHtml, bundle, slips>>

WriteMd ==
  /\ build.at = "md"
  /\ tocMd' = MdPage(Listed)
  /\ Go("html")
  /\ UNCHANGED <<flavor, md, html, tocHtml, tocJson, temp, tempHtml, bundle, slips>>

\* The scaffold writes TOC.html itself, the repository a source that it renders.
WriteHtml ==
  /\ build.at = "html"
  /\ IF flavor = "repo"
     THEN temp' = HtmlPage(Listed) /\ Go("page") /\ UNCHANGED tocHtml
     ELSE tocHtml' = HtmlPage(Listed) /\ Go("json") /\ UNCHANGED temp
  /\ UNCHANGED <<flavor, md, html, tocMd, tocJson, tempHtml, bundle, slips>>

RenderPage ==
  /\ build.at = "page"
  /\ tocHtml' = temp
  /\ Go("unlink")
  /\ UNCHANGED <<flavor, md, html, tocMd, tocJson, temp, tempHtml, bundle, slips>>

Unlink ==
  /\ build.at = "unlink"
  /\ temp' = Absent
  /\ build' = NoBuild
  /\ UNCHANGED <<flavor, md, html, tocMd, tocHtml, tocJson, tempHtml, bundle, slips>>

\* The curated documents among those that TOC.json lists.
load_docs_from_toc == {d \in Curated : \E e \in tocJson : e[1] = d}

\* The library bundles them; one that is gone ends it.
build_doc_library ==
  /\ flavor = "repo" /\ tocJson # Absent
  /\ \A d \in load_docs_from_toc : Exists(d)
  /\ bundle' = {doc_entry(d) : d \in load_docs_from_toc}
  /\ UNCHANGED <<flavor, md, html, tocMd, tocHtml, tocJson, temp, tempHtml, build, slips>>

-----------------------------------------------------------------------------
(* What happens meanwhile *)

\* Somebody writes or deletes a document; a deleted one leaves its sibling behind.
Edit(d, t) ==
  /\ Slip /\ md[d] # t
  /\ md' = [md EXCEPT ![d] = t]
  /\ build' = [build EXCEPT !.quiet = FALSE]
  /\ UNCHANGED <<flavor, html, tocMd, tocHtml, tocJson, temp, tempHtml, bundle>>

\* The build is killed, or an exception or SystemExit that nobody catches ends it.
End ==
  /\ build # NoBuild /\ Slip
  /\ build' = NoBuild
  /\ UNCHANGED <<flavor, files>>

Build ==
  \/ Collect(TRUE)
  \/ \E n \in Names : Render(n)
  \/ RenderDone \/ WriteJson \/ WriteMd \/ WriteHtml \/ RenderPage \/ Unlink

IndexNext ==
  \/ Build \/ build_doc_library
  \/ Collect(FALSE)
  \/ \E d \in Docs, t \in Bodies \cup {Absent} : Edit(d, t)
  \/ End

\* "Safe to run on every commit": the builds are run again and again, and run to their end.
IndexSpec ==
  /\ IndexInit /\ [][IndexNext]_indexVars
  /\ WF_indexVars(Build) /\ WF_indexVars(build_doc_library)

-----------------------------------------------------------------------------
(* Properties *)

\* The documents whose links promise a rendered page.
Promised == IF flavor = "repo" THEN Live ELSE Live \cup Progress

\* A build that nothing disturbs leaves an index whose every link lands on a page rendered
\* from what the document says: the renders come first, whatever earlier builds left behind.
QuietBuildIsFresh ==
  [][ build.quiet /\ build' = NoBuild /\ slips' = slips =>
        LET listed == Docs \cap tocHtml'.docs
        IN /\ tocHtml'.links = "html" /\ tocHtml'.missing = {}
           /\ \A d \in listed \cap Promised : html'[d] = md'[d] ]_indexVars

UpToDate ==
  /\ tocMd = MdPage(Indexed) /\ tocMd.missing = {}
  /\ tocHtml = HtmlPage(Indexed)
  /\ tocJson = {doc_entry(n) : n \in Indexed}
  /\ \A d \in Indexed \cap Promised : html[d] = md[d]
  /\ flavor = "repo" => bundle = {doc_entry(d) : d \in {d \in Curated : Exists(d)}}

\* Once the edits and failures are over, building again and again brings every output up to
\* date with the documents, although the index lists itself and the library is built from it.
CatchesUp == <>[](build = NoBuild => UpToDate \/ (flavor = "repo" /\ ~audit_audience_folders))
=============================================================================
