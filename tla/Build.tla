--------------------------------- MODULE Build ---------------------------------
(***************************************************************************)
(* How a source tree becomes a library (src/tools/configure.R,             *)
(* src/src/Makevars.in, src/src/rust/build.rs, the roxido attribute at     *)
(* compile time).  configure unpacks the vendored crates; make runs cargo  *)
(* twice: in run 1 every function with the attribute appends its line to   *)
(* roxido.txt, in run 2 build.rs turns the file into the registration that *)
(* is compiled in.  cargo runs build.rs again only when                    *)
(* R_CARGO_RUN_COUNTER differs from the last time (build.rs:10), and       *)
(* compiles again only what changed.  The developer edits, the build is    *)
(* interrupted or fails, and make clean comes at any time.                 *)
(* R_PACKAGE_NAME is set, as R CMD INSTALL sets it.                        *)
(***************************************************************************)
EXTENDS Naturals, FiniteSets

CONSTANTS
  Versions,    \* sources: each the set of lines its functions append
  Broken,      \* those that do not compile
  Nothing      \* no such file

ASSUME BrokenAssumption == Broken \subseteq Versions
ASSUME NothingAssumption == \A lines \in SUBSET UNION Versions : lines # Nothing

VARIABLES
  source,        \* the Rust functions as they stand
  roxido_txt,    \* src/rust/roxido.txt: a set of lines, or Nothing
  registration,  \* registration.rs: the lines registered
  counter,       \* R_CARGO_RUN_COUNTER when cargo last ran build.rs; 0: never
  dirty,         \* must the crate be compiled again
  target,        \* rust/target/release/librust.a: what it was made from
  library,       \* rust/librust.a, which make delivers
  outdated,      \* is a source newer than library
  configured,    \* did configure end well, and were its files left alone
  tarball,       \* is src/rust/vendor.tar.xz there
  vendor, cargo, \* are src/rust/vendor and src/rust/.cargo there
  suspect,       \* history: did the source or roxido.txt change between a
                 \* compilation of run 1 and its run 2
  step           \* where make stands

buildVars == <<source, roxido_txt, registration, counter, dirty, target, library, outdated,
          configured, tarball, vendor, cargo, suspect, step>>
files == <<roxido_txt, registration, counter, dirty, target, suspect>>
crates == <<configured, tarball, vendor, cargo>>

Lines(file) == IF file = Nothing THEN {} ELSE file

Function(line) == line[1]

BuildInit ==
  /\ source \in Versions
  /\ roxido_txt = Nothing /\ registration = Nothing /\ counter = 0 /\ dirty = TRUE
  /\ target = Nothing /\ library = Nothing /\ outdated = FALSE
  /\ tarball \in BOOLEAN
  /\ configured = FALSE /\ vendor = FALSE /\ cargo = FALSE
  /\ suspect = FALSE /\ step = "idle"

-----------------------------------------------------------------------------
(* configure: a usable toolchain is found or not, Makevars is written, and  *)
(* the tarball, if there is one, replaces what was unpacked before; when    *)
(* that fails, some of it may be there.  R goes on only after a success.    *)

NoToolchain ==
  /\ step = "idle"
  /\ configured' = FALSE
  /\ UNCHANGED <<source, files, library, outdated, tarball, vendor, cargo, step>>

extract_vendor_if_present(ended) ==
  IF tarball
  THEN /\ vendor' \in BOOLEAN /\ cargo' \in BOOLEAN
       /\ ended => vendor' /\ cargo'
  ELSE UNCHANGED <<vendor, cargo>>

Configure(ended) ==
  /\ step = "idle"
  /\ ~ended => tarball
  /\ extract_vendor_if_present(ended)
  /\ configured' = ended
  /\ UNCHANGED <<source, files, library, outdated, tarball, step>>

-----------------------------------------------------------------------------
(* make.                                                                     *)

RunMake ==
  /\ step = "idle" /\ configured
  /\ library = Nothing \/ outdated
  /\ step' = "script 1"
  /\ UNCHANGED <<source, files, library, outdated, crates>>

(* With .cargo/config.toml there, cargo takes the crates from vendor only.  *)
CratesFound == cargo => vendor

CratesMissing ==
  /\ step \in {"script 1", "script 2"}
  /\ ~CratesFound
  /\ step' = "idle"
  /\ UNCHANGED <<source, files, library, outdated, crates>>

(* build.rs with counter n, unless cargo finds it fresh.                    *)
ScriptRun1 ==
  /\ roxido_txt' = Nothing
  /\ registration' = Nothing
  /\ suspect' = FALSE

ScriptRun2 ==
  /\ registration' = roxido_txt
  /\ UNCHANGED <<roxido_txt, suspect>>

Script(n, run, from, to) ==
  /\ step = from /\ CratesFound
  /\ IF counter = n
     THEN UNCHANGED <<roxido_txt, registration, counter, dirty, suspect>>
     ELSE run /\ counter' = n /\ dirty' = TRUE
  /\ step' = to
  /\ UNCHANGED <<source, target, library, outdated, crates>>

Script1 == Script(1, ScriptRun1, "script 1", "compile 1")
Script2 == Script(2, ScriptRun2, "script 2", "compile 2")

(* In run 1 each expansion of the attribute appends its function's line.    *)
AppendedFirstOnly(lines) ==
  roxido_txt' = IF roxido_txt = Nothing THEN lines ELSE roxido_txt

Appended(lines) == roxido_txt' = Lines(roxido_txt) \cup lines

(* The registration refers to each of its functions by name.                *)
Compiles ==
  /\ source \notin Broken
  /\ {Function(l) : l \in Lines(registration)} \subseteq {Function(l) : l \in source}

Compile(from, to) ==
  /\ step = from
  /\ IF ~dirty
     THEN UNCHANGED <<roxido_txt, target>>
     ELSE /\ Compiles
          /\ IF from = "compile 1" THEN Appended(source) ELSE UNCHANGED roxido_txt
          /\ target' = [source |-> source, registration |-> Lines(registration),
                        suspect |-> suspect]
  /\ dirty' = FALSE
  /\ step' = to
  /\ UNCHANGED <<source, registration, counter, suspect, library, outdated, crates>>

Compile1 == Compile("compile 1", "script 2")
Compile2 == Compile("compile 2", "copy")

(* The compiler stops with an error, or is stopped, with some or all of the *)
(* attributes expanded.                                                     *)
CompileEnds ==
  /\ step \in {"compile 1", "compile 2"} /\ dirty
  /\ IF step = "compile 1"
     THEN \E lines \in SUBSET source : Appended(lines)
     ELSE UNCHANGED roxido_txt
  /\ step' = "idle"
  /\ UNCHANGED <<source, registration, counter, dirty, target, suspect, library, outdated,
                 crates>>

Copy ==
  /\ step = "copy"
  /\ library' = target /\ outdated' = FALSE
  /\ step' = "tidy"
  /\ UNCHANGED <<source, files, crates>>

TidyConfigToo ==
  /\ step = "tidy"
  /\ vendor' = FALSE /\ cargo' = FALSE
  /\ step' = "idle"
  /\ UNCHANGED <<source, files, library, outdated, configured, tarball>>

(* make removes vendor, and leaves .cargo where it is.                      *)
Tidy ==
  /\ step = "tidy"
  /\ vendor' = FALSE
  /\ step' = "idle"
  /\ UNCHANGED <<source, files, library, outdated, configured, tarball, cargo>>

Interrupt ==
  /\ step \notin {"idle", "compile 1", "compile 2"}
  /\ step' = "idle"
  /\ UNCHANGED <<source, files, library, outdated, crates>>

-----------------------------------------------------------------------------
(* The developer.                                                            *)

Halfway == counter = 1 /\ Lines(roxido_txt) # {}

Edit(v) ==
  /\ step = "idle"
  /\ v # source
  /\ source' = v /\ dirty' = TRUE /\ outdated' = TRUE
  /\ suspect' = (suspect \/ Halfway)
  /\ UNCHANGED <<roxido_txt, registration, counter, target, library, crates, step>>

Clean ==
  /\ step = "idle"
  /\ roxido_txt' = Nothing /\ library' = Nothing /\ outdated' = FALSE
  /\ suspect' = (suspect \/ Halfway)
  /\ UNCHANGED <<source, registration, counter, dirty, target, crates, step>>

(* The cleanup script takes away what configure made.                       *)
Cleanup ==
  /\ step = "idle"
  /\ configured' = FALSE /\ vendor' = FALSE /\ cargo' = FALSE
  /\ UNCHANGED <<source, files, library, outdated, tarball, step>>

BuildNext ==
  \/ NoToolchain
  \/ \E ended \in BOOLEAN : Configure(ended)
  \/ RunMake
  \/ CratesMissing
  \/ Script1 \/ Compile1 \/ Script2 \/ Compile2 \/ CompileEnds
  \/ Copy \/ Tidy
  \/ Interrupt
  \/ \E v \in Versions : Edit(v)
  \/ Clean
  \/ Cleanup

BuildSpec == BuildInit /\ [][BuildNext]_buildVars

-----------------------------------------------------------------------------

(* The library registers each of its functions, with the arguments it has,  *)
(* and nothing else, however often the build was interrupted, failed or     *)
(* repeated; and run 2 never compiles a registration of functions that are  *)
(* gone.  What can spoil it is a change between the two runs: cargo sees    *)
(* the counter at 1 again and leaves build.rs, which would start            *)
(* roxido.txt afresh, out.                                                  *)
RegistrationExact ==
  /\ library # Nothing /\ ~library.suspect => library.registration = library.source
  /\ step = "compile 2" /\ ~suspect => Lines(registration) = source

(* In a package with vendored crates nothing is compiled with others.       *)
VendoredOnly ==
  step \in {"compile 1", "compile 2"} /\ tarball => vendor /\ cargo

=============================================================================
