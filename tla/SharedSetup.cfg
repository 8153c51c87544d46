CONSTANTS
    N = 4
    BufSizes = {1, 4, 7}
    ExtraSizes = {0, 1, 8}
    HeaderSize = 9
    StructSize = 20
    Align = 4
    MaxAlign = 16
SPECIFICATION Spec
INVARIANTS ResourcesAreReleased LayoutIsSound
