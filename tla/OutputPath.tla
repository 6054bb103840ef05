------------------------------ MODULE OutputPath ------------------------------
(***************************************************************************)
(* Where the generated files go: generate() makes the output directory     *)
(* (src/src/generator.c:249), and every generate_java_*() function makes   *)
(* the directories of its package and opens the file in the last of them,  *)
(* by one piece of code that stands in all five of them                    *)
(* (src/src/java_record.c:514-543, 604-632, 669-698, 823-851, 924-952).    *)
(*                                                                         *)
(* A path is a sequence of characters.  The package arrives with its dots, *)
(* and the code turns every dot of the whole path into a slash on its way, *)
(* those of output_dir too.  The file system is the set of its             *)
(* directories.  file_path[768] has room for every package_path and every  *)
(* file name a file system takes, so it is never cut here.                 *)
(*                                                                         *)
(* A definition named X_Bug is X with a bug a change of the code might     *)
(* bring in; no specification uses it, it shows that a property can fail.  *)
(***************************************************************************)
EXTENDS Integers, Sequences, SequencesExt

CONSTANTS
  Char,          \* the characters, and every class name as one more
  OutputDirs,    \* the values of output_dir
  Packages,      \* what resolve_package() may return; "(null)" for NULL
  Classes,       \* the names of the classes
  FileSystems,   \* the directories there may be at the start
  Cwd,           \* the working directory
  PathSize,      \* sizeof(package_path): 512 in the code
  MaxCalls,      \* how many definitions are generated, to bound TLC
  MaxRefusals    \* how often mkdir() fails without a reason seen here

ASSUME CharAssumption == {".", "/"} \cup Classes \subseteq Char /\ "/" \notin Classes

(* generate() puts "." in the place of an empty name (generator.c:232-234). *)
ASSUME OutputDirsAssumption == OutputDirs \subseteq Seq(Char) \ {<<>>}

(* The names of modules, and a prefix that is a Java package name. *)
ASSUME PackagesAssumption ==
  /\ Packages \subseteq Seq(Char) \ {<<>>}
  /\ \A p \in Packages : Head(p) # "." /\ ~Contains(p, "/")

(* A set of directories: every one is in a directory. *)
FileSystem(fs) ==
  /\ {<<>>, Cwd} \subseteq fs /\ fs \subseteq Seq(Seq(Char))
  /\ \A d \in fs : \A k \in 0..Len(d) : SubSeq(d, 1, k) \in fs

ASSUME FileSystemsAssumption == \A fs \in FileSystems : FileSystem(fs)
ASSUME CwdAssumption == Cwd \in Seq(Seq(Char))
ASSUME PathSizeAssumption == PathSize \in Nat \ {0}
ASSUME MaxCallsAssumption == MaxCalls \in Nat
ASSUME MaxRefusalsAssumption == MaxRefusals \in Nat

VARIABLES
  output_dir,
  dirs, files,     \* the file system
  root_writable,   \* the program may make directories below the root
  pc,              \* start, idle, path or open
  package, class,  \* the call's definition
  package_path,
  calls,           \* calls so far
  refusals,        \* mkdir() calls refused so far
  spoilt,          \* one of them was refused in this call
  ret

vars == <<output_dir, dirs, files, root_writable, pc, package, class,
          package_path, calls, refusals, spoilt, ret>>

NONE == 99

-----------------------------------------------------------------------------
(***************************************************************************)
(* The file system, as the code uses it: a location is the sequence of the *)
(* components that lead to it from the root.                               *)
(***************************************************************************)

(* One component further. *)
Enter(at, comp) == CASE comp = <<".">>      -> at
                     [] comp = <<".", ".">> -> IF at = <<>> THEN at ELSE Front(at)
                     [] OTHER               -> Append(at, comp)

(* Reading a path: comp is what has been read of a component, and at the
   directory it is looked up in. *)
Arrive(w) == IF w.comp = <<>> THEN w.at ELSE Enter(w.at, w.comp)

ReadOn(w, c) == IF c = "/" THEN [at |-> Arrive(w), comp |-> <<>>]
                ELSE [at |-> w.at, comp |-> Append(w.comp, c)]

Walk(from, path) ==
  LET walk[k \in 0..Len(path)] ==
        IF k = 0 THEN [at |-> from, comp |-> <<>>]
        ELSE ReadOn(walk[k-1], path[k])
  IN walk

From(path) == IF path # <<>> /\ Head(path) = "/" THEN <<>> ELSE Cwd

Location(path) == Arrive(Walk(From(path), path)[Len(path)])

(* Every directory that a component is looked up in is there. *)
Leads(path) ==
  /\ path # <<>>
  /\ \A k \in 1..Len(path) :
       path[k] # "/" => Walk(From(path), path)[k-1].at \in dirs

Writable(at) == at # <<>> \/ root_writable

(* mkdir(path, 0755), whose result nobody looks at. *)
Mkdir(path) ==
  LET at == Location(path)
      makes == Leads(path) /\ at \notin dirs /\ Writable(Front(at))
  IN \/ /\ dirs' = IF makes THEN dirs \cup {at} ELSE dirs
        /\ UNCHANGED <<refusals, spoilt>>
     \/ /\ makes /\ refusals < MaxRefusals
        /\ refusals' = refusals + 1
        /\ spoilt' = TRUE
        /\ UNCHANGED dirs

-----------------------------------------------------------------------------

Init ==
  /\ output_dir \in OutputDirs
  /\ dirs \in FileSystems
  /\ files = {}
  /\ root_writable \in BOOLEAN
  /\ pc = "start"
  /\ package = <<>> /\ class = ""
  /\ package_path = <<>>
  /\ calls = 0 /\ refusals = 0 /\ spoilt = FALSE
  /\ ret = NONE

(* generate(): mkdir(output_dir), one level of it. *)
MakeOutputDir ==
  /\ pc = "start"
  /\ Mkdir(output_dir)
  /\ pc' = "idle"
  /\ UNCHANGED <<output_dir, files, root_writable, package, class,
                 package_path, calls, ret>>

(* snprintf() into package_path[PathSize]. *)
Cut_NoTerminator(path) ==
  IF Len(path) > PathSize THEN SubSeq(path, 1, PathSize) ELSE path
Cut(path) == IF Len(path) > PathSize - 1 THEN SubSeq(path, 1, PathSize - 1) ELSE path

PathText_NeverOutputDir(p) == p
PathText_NoSlash(p) == IF output_dir = <<".">> THEN p ELSE output_dir \o p
PathText(p) == IF output_dir = <<".">> THEN p ELSE output_dir \o <<"/">> \o p

StartCall ==
  /\ pc = "idle" /\ calls < MaxCalls
  /\ package' \in Packages /\ class' \in Classes
  /\ package_path' = Cut(PathText(package'))
  /\ pc' = "path"
  /\ calls' = calls + 1
  /\ spoilt' = FALSE
  /\ ret' = NONE
  /\ UNCHANGED <<output_dir, dirs, files, root_writable, refusals>>

Dots == {d \in 1..Len(package_path) : package_path[d] = "."}

(* The loop at a dot: the directory of what is before it, and a slash in
   its place. *)
MakeParent_SlashOnly ==
  /\ pc = "path" /\ Dots # {}
  /\ \E d \in Dots : /\ \A e \in Dots : d <= e
                     /\ package_path' = ReplaceAt(package_path, d, "/")
  /\ UNCHANGED <<output_dir, dirs, files, root_writable, pc, package, class,
                 calls, refusals, spoilt, ret>>

MakeParent ==
  /\ pc = "path" /\ Dots # {}
  /\ \E d \in Dots : /\ \A e \in Dots : d <= e
                     /\ Mkdir(SubSeq(package_path, 1, d - 1))
                     /\ package_path' = ReplaceAt(package_path, d, "/")
  /\ UNCHANGED <<output_dir, files, root_writable, pc, package, class, calls, ret>>

MakePackageDir ==
  /\ pc = "path" /\ Dots = {}
  /\ Mkdir(package_path)
  /\ pc' = "open"
  /\ UNCHANGED <<output_dir, files, root_writable, package, class,
                 package_path, calls, ret>>

(* fopen("<package_path>/<class>.java", "w"). *)
file_path == package_path \o <<"/", class>>
FileDir == Walk(From(file_path), file_path)[Len(package_path) + 1].at

OpenFile ==
  /\ pc = "open"
  /\ Leads(file_path) /\ Writable(FileDir)
  /\ files' = files \cup {[dir |-> FileDir, class |-> class]}
  /\ ret' = 0
  /\ pc' = "idle"
  /\ UNCHANGED <<output_dir, dirs, root_writable, package, class, package_path,
                 calls, refusals, spoilt>>

(* It may fail although the directory is there: the file may be somebody
   else's, or too many may be open. *)
OpenFails ==
  /\ pc = "open"
  /\ ret' = -1
  /\ pc' = "idle"
  /\ UNCHANGED <<output_dir, dirs, files, root_writable, package, class,
                 package_path, calls, refusals, spoilt>>

Next == \/ MakeOutputDir \/ StartCall \/ MakeParent \/ MakePackageDir
        \/ OpenFile \/ OpenFails

Spec == Init /\ [][Next]_vars

-----------------------------------------------------------------------------

(* The type of every variable; package_path keeps a byte for the
   terminator, no mkdir() makes a directory that is in none, and no file is
   in a directory that is not there. *)
TypeOK ==
  /\ output_dir \in OutputDirs
  /\ FileSystem(dirs)
  /\ \A f \in files : f.dir \in dirs /\ f.class \in Classes
  /\ root_writable \in BOOLEAN /\ spoilt \in BOOLEAN
  /\ pc \in {"start", "idle", "path", "open"}
  /\ package \in Packages \cup {<<>>} /\ class \in Classes \cup {""}
  /\ package_path \in Seq(Char) /\ Len(package_path) < PathSize
  /\ calls \in 0..MaxCalls /\ refusals \in 0..MaxRefusals
  /\ ret \in {NONE, 0, -1}

(* An output directory that has room in package_path, with no dot in its
   name, or "." itself. *)
Plain == /\ Len(output_dir) < PathSize
         /\ output_dir = <<".">> \/ ~Contains(output_dir, ".")

(* Where the user means it to be, wherever the code puts it. *)
Home == Location(output_dir)

(* The package's names, below Home. *)
PackageDir ==
  Home \o Arrive(Walk(<<>>, ReplaceAll(package, ".", "/"))[Len(package)])

Fits == Len(PathText(package)) < PathSize

(* Generating into a plain output directory never touches anything that is
   not below it, even where the path was cut or a mkdir() was refused
   (src/src/java_record.c:515-528). *)
StaysInside ==
  [][Plain => /\ \A d \in dirs' \ dirs : IsPrefix(Home, d)
              /\ \A f \in files' \ files : IsPrefix(Home, f.dir)]_vars

(* A call that returned 0 has put the file into the directory of its
   package: fopen() does not succeed in a directory further up when one of
   the unchecked mkdir() calls failed (src/src/java_record.c:521-533). *)
FileInPackage ==
  Plain /\ Fits /\ pc = "idle" /\ ret = 0 =>
    [dir |-> PackageDir, class |-> class] \in files

(* Once the output directory is there and can be written to, a call comes to
   fopen() with every directory of the path in place, the last of them the
   package's, unless one of its own mkdir() calls was refused: what an earlier
   call left undone, the next one makes up for
   (src/src/java_record.c:521-533). *)
DirectoryMade ==
  Plain /\ Fits /\ pc = "open" /\ Home \in dirs /\ Writable(Home) /\ ~spoilt =>
    Leads(file_path) /\ FileDir = PackageDir

(* "-o <dir>: Output directory" (src/BUILD.md:75), whatever its name. *)
OutputBelowDir ==
  \A f \in files : IsPrefix(Home, f.dir)

-----------------------------------------------------------------------------
(***************************************************************************)
(* The inductive invariant behind the properties: package_path is the text *)
(* the call began with, its first dots turned into slashes, and where      *)
(* nothing was refused, every directory before a slash is there.           *)
(***************************************************************************)
InCall == pc \in {"path", "open"}

Shape ==
  InCall =>
    /\ package \in Packages /\ class \in Classes
    /\ Len(package_path) = Len(Cut(PathText(package)))
    /\ \A k \in 1..Len(package_path) :
         \/ package_path[k] = PathText(package)[k]
         \/ /\ package_path[k] = "/" /\ PathText(package)[k] = "."
            /\ \A d \in Dots : k < d
    /\ pc = "open" => Dots = {}

MadeSoFar ==
  InCall /\ Plain /\ Fits /\ Home \in dirs /\ Writable(Home) /\ ~spoilt =>
    /\ \A k \in 1..Len(package_path) :
         package_path[k] = "/" =>
           Walk(From(package_path), package_path)[k].at \in dirs
    /\ pc = "open" => Location(package_path) \in dirs

NoResultYet == pc = "start" => ret = NONE

IInv == TypeOK /\ Shape /\ MadeSoFar /\ NoResultYet /\ FileInPackage

=============================================================================
