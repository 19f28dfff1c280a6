SPECIFICATION Spec
CONSTANTS
    Word = 512
    phys_base = 128
    virt_base = 2000
    FRAME_BUFFER_SIZE = 32
    SPACING = 8
    Geometries <- MCGeometries
    MaxFrames = 2
    dcss_base = 300
    dcss_paddr = 300
    DPR_1_FRAME_1P_BASE_ADDR_CTRL0 = 24
INVARIANTS
    StoresStayHome
    PicturesKept
PROPERTIES
    ImplementsStore
