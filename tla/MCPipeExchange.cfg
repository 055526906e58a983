SPECIFICATION Spec
CONSTANTS
    Names <- MCNames
    Contents <- MCContents
    Directories <- MCDirectories
    Junk <- MCJunk
 
PROPERTIES EndsUnlessMute
CHECK_DEADLOCK FALSE
