----------------------------- MODULE LoaderClaims -----------------------------
(***************************************************************************)
(* What the loader's comments say and its code does not do.                *)
(***************************************************************************)
EXTENDS Loader

\* "Gibt den Inhalt eines Verzeichnisses auf der Standardausgabe zeilenweise
\* aus" (browse.c:42): without failures of the file system every BROWSE lists
\* all visible files of the directory before its blank line.  The handle of
\* opendir is never closed, so a long-lived loader runs out of handles and
\* answers with the blank line alone.
ListsDirectory == pc = "blank" => shown = Catalogs

=============================================================================
