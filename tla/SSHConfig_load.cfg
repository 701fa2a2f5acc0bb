\* Load over one-line files of every short line and three-line files of
\* Host, Match, option, comment and malformed lines.  Load is one call
\* that returns, so the final states have no successor.
CONSTANT Files <- MCFiles
SPECIFICATION Spec
INVARIANT ParsedAsDocumented
INVARIANT SectionsFollowFile
CHECK_DEADLOCK FALSE
