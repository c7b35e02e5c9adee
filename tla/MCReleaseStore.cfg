CONSTANTS
    Publishers = {"p1", "p2"}
    Readers = {"r"}
    Files = {"checksums", "data", "extra"}
    Upload <- MCUpload
    Selected = "data"
    Checksums = "checksums"
    Layouts = {"listed", "intent", "g8"}
    Kinds = {"inspect", "select", "download"}
    None = None
SPECIFICATION Spec
INVARIANTS
    ReleaseIsSound
PROPERTIES
    ImplementsPrefix
