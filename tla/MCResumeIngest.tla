--------------------------- MODULE MCResumeIngest ---------------------------
EXTENDS ResumeIngest

MCLowerOf == [resume |-> "resume", Resume |-> "resume", Go |-> "go", go |-> "go",
              C |-> "c", the |-> "the", backend |-> "backend", testing |-> "testing",
              lead |-> "lead", acme |-> "acme"]
MCShort == {"c"}
MCStopWords == {"the"}
MCSkills == {"go", "testing"}
MCDomains == {"backend", "testing"}
MCRoles == {"lead"}

Padded == << Line(TRUE, <<"resume">>, TRUE), Blank, Line(FALSE, <<>>, TRUE), Blank,
             Line(FALSE, <<"Go", "C", "the", "testing">>, TRUE) >>
Brief == << Line(FALSE, <<"lead", "backend", "acme">>, FALSE), Blank >>

File(extension, body) == [extension |-> extension, state |-> "Good", body |-> body]

\* The DOCX and the PDF give the same markdown; the other PDF is refused.
MCFiles == { File("markdown", Padded), File("docx", Brief), File("pdf", Brief),
             File("pdf", <<Blank>>) }
=============================================================================
